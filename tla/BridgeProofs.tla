---------------------------- MODULE BridgeProofs ----------------------------
(***************************************************************************)
(* Proofs about Bridge, for any prompts, budgets, choices, deltas and      *)
(* answers.  ContextRecovery: which call holds a slot and what the guard   *)
(* has read follow from where it is (HopInv).  Responses: the events that  *)
(* are still to be sent lead the client, one allowed event after the       *)
(* other, to the items of the draft (Announced); every delta keeps this    *)
(* and the order of the items (Good, Ordered), so that Send always has an  *)
(* event the protocol allows and the terminal event finds the client with  *)
(* the whole response (IInv).                                              *)
(***************************************************************************)
EXTENDS Bridge, SequenceTheorems, FiniteSetTheorems, TLAPS

----------------------------------------------------------------------------
(* ContextRecovery: the invariant of one hop                               *)

Held == Chunks \cup Readable

HopTyped ==
    /\ at \in Points
    /\ prompt \in [old : Nat, newest : Nat \ {0}] /\ calls \in 0..2 /\ open \subseteq {1, 2}
    /\ buffered \in Seq(Held)
    /\ read \in [got : Seq(Held), gave : Seq(Held)]
    /\ mail \in Held \cup {"none", "end", "broken"}
    /\ reply \in Replies

\* Which call is being answered, and whether it still has its slot.
Slots ==
    /\ at = "sizing" => calls = 0 /\ open = {}
    /\ at = "calling" => calls < 2 /\ open = (IF calls = 0 THEN {} ELSE {1})
    /\ at \in {"guarding", "relaying"} => calls = 1 /\ open = {1}
    /\ at = "flushing" => calls = 1 /\ open \subseteq {1}
    /\ at = "refused" => calls = 1 /\ open = {}
    /\ at \in {"retrying", "recovered"} => calls = 2 /\ open = {2}
    /\ at = "ended" => open = {}

\* What the hop has answered, and when it has nothing for the client.
Outward ==
    /\ at \in {"sizing", "calling"} => reply = "none"
    /\ at \in {"guarding", "flushing", "relaying", "recovered"} => reply = "stream"
    /\ at \in {"refused", "retrying"} => reply \in {"none", "stream"} /\ mail = "none"
    /\ at = "guarding" => mail = "none"
    /\ at = "ended" => reply # "none"
    /\ reply # "stream" => mail = "none"
    /\ reply \notin {"none", "stream"} => at = "ended"

\* What the guard has read, handed over and kept.
Passed ==
    /\ at \in {"sizing", "calling"} => buffered = <<>> /\ read = NothingRead
    /\ at = "guarding" => read.gave = <<>> /\ buffered = read.got
    /\ at = "flushing" =>
          read.gave \o buffered = read.got \/ read.gave \o buffered = <<"html">>
    /\ at \in {"refused", "retrying", "recovered"} => read.gave = <<>> /\ buffered = <<>>

HopInv == HopTyped /\ Slots /\ Outward /\ Passed

\* Trimming keeps the newest turn and never adds to the rest.
LEMMA TrimmedPrompt ==
    ASSUME NEW p \in [old : Nat, newest : Nat \ {0}], NEW limit \in Nat
    PROVE  /\ Trim(p, limit) \in [old : Nat, newest : Nat \ {0}]
           /\ Trim(p, limit).newest = p.newest
           /\ Trim(p, limit) # p => Size(Trim(p, limit)) < Size(p)
<1>1. CASE limit = 0 \/ Size(p) <= limit
  BY <1>1 DEF Trim
<1>2. CASE ~(limit = 0 \/ Size(p) <= limit)
  <2> DEFINE rest == IF limit > p.newest THEN limit - p.newest ELSE 0
  <2>1. Trim(p, limit) = [p EXCEPT !.old = rest]
    BY <1>2 DEF Trim
  <2>2. rest \in Nat /\ rest <= p.old
    BY <1>2 DEF Size
  <2>3. /\ [p EXCEPT !.old = rest] \in [old : Nat, newest : Nat \ {0}]
        /\ [p EXCEPT !.old = rest].newest = p.newest
        /\ [p EXCEPT !.old = rest].old = rest
    BY <2>2
  <2>4. rest = p.old => [p EXCEPT !.old = rest] = p
    OBVIOUS
  <2> HIDE DEF rest
  <2> QED BY <2>1, <2>2, <2>3, <2>4 DEF Size
<1> QED BY <1>1, <1>2

LEMMA HalvedPrompt ==
    ASSUME NEW p \in [old : Nat, newest : Nat \ {0}]
    PROVE  /\ Halved(p) \in [old : Nat, newest : Nat \ {0}]
           /\ Halved(p).newest = p.newest
           /\ Halved(p) # p => Size(Halved(p)) < Size(p)
<1>1. Size(p) \in Nat
  BY DEF Size
<1>2. (IF Size(p) \div 2 > 1 THEN Size(p) \div 2 ELSE 1) \in Nat
  <2>1. ASSUME NEW n \in Nat PROVE n \div 2 \in Nat
    OBVIOUS
  <2> QED BY <1>1, <2>1
<1> QED BY <1>2, TrimmedPrompt DEF Halved

\* The history of the guard grows at one end.
LEMMA ReadOn ==
    ASSUME NEW r \in [got : Seq(Held), gave : Seq(Held)], NEW c \in Held
    PROVE  /\ [r EXCEPT !.got = Append(@, c)] \in [got : Seq(Held), gave : Seq(Held)]
           /\ [r EXCEPT !.got = Append(@, c)].got = Append(r.got, c)
           /\ [r EXCEPT !.got = Append(@, c)].gave = r.gave
           /\ [r EXCEPT !.gave = Append(@, c)] \in [got : Seq(Held), gave : Seq(Held)]
           /\ [r EXCEPT !.gave = Append(@, c)].gave = Append(r.gave, c)
           /\ [r EXCEPT !.gave = Append(@, c)].got = r.got
<1>1. Append(r.got, c) \in Seq(Held) /\ Append(r.gave, c) \in Seq(Held)
  <2>1. r.got \in Seq(Held) /\ r.gave \in Seq(Held)
    OBVIOUS
  <2> QED BY <2>1, AppendProperties
<1>2. PICK got : got = Append(r.got, c)
  OBVIOUS
<1>3. PICK gave : gave = Append(r.gave, c)
  OBVIOUS
<1>4. [r EXCEPT !.got = Append(@, c)] = [r EXCEPT !.got = got]
  BY <1>2
<1>5. [r EXCEPT !.gave = Append(@, c)] = [r EXCEPT !.gave = gave]
  BY <1>3
<1>6. got \in Seq(Held) /\ gave \in Seq(Held)
  BY <1>1, <1>2, <1>3
<1> QED BY <1>2, <1>3, <1>4, <1>5, <1>6

LEMMA HopInitInv == RecoveryInit => HopInv
<1> SUFFICES ASSUME RecoveryInit PROVE HopInv
  OBVIOUS
<1>1. prompt \in [old : Nat, newest : Nat \ {0}]
  BY RecoveryAssumption DEF RecoveryInit
<1>2. <<>> \in Seq(Held)
  OBVIOUS
<1> QED
  BY <1>1, <1>2 DEF RecoveryInit, HopInv, HopTyped, Slots, Outward, Passed, NothingRead, Points,
                    Replies

\* Before and between the calls.
LEMMA CallingInv ==
    ASSUME HopInv,
           \/ \E b \in Budgets : Prepare(b)
           \/ Call \/ Streamed \/ Retry
           \/ \E r \in Errors \cup {"json"} : Answered(r)
           \/ \E r \in Errors \cup {"json", "stream"} : Retried(r)
    PROVE  HopInv'
<1> USE DEF HopInv
<1>0. {"too_long", "html"} \subseteq Replies /\ {"too_long", "html", "plain"} \subseteq Held /\ Errors \subseteq Replies /\ Errors \subseteq Held
  BY DEF Replies, Held, Readable, Chunks, Errors
<1>t. \A e \in Errors : Told(e) \in Errors \cup Readable
  BY DEF Told, Readable
<1>f. \A e \in Errors, p \in [old : Nat, newest : Nat \ {0}] : Final(e, p) \in Errors \cup Readable
  BY <1>t DEF Final, Readable
<1>1. ASSUME NEW b \in Budgets, Prepare(b) PROVE HopInv'
  <2>1. b \in Nat /\ Trim(prompt, b) \in [old : Nat, newest : Nat \ {0}]
    BY RecoveryAssumption, TrimmedPrompt DEF HopTyped
  <2>2. /\ at = "sizing" /\ prompt' = Trim(prompt, b)
        /\ \/ at' = "ended" /\ reply' = "too_long"
           \/ at' = "calling" /\ UNCHANGED reply
        /\ UNCHANGED <<calls, open, buffered, mail, read>>
    BY <1>1 DEF Prepare
  <2> QED BY <1>0, <2>1, <2>2 DEF HopTyped, Slots, Outward, Passed, Points
<1>2. ASSUME Call PROVE HopInv'
  BY <1>2 DEF Call, HopTyped, Slots, Outward, Passed
<1>3. ASSUME Streamed PROVE HopInv'
  BY <1>3 DEF Streamed, hop, HopTyped, Slots, Outward, Passed, Points, Replies, NothingRead
<1>4. ASSUME Retry PROVE HopInv'
  <2>1. Halved(prompt) \in [old : Nat, newest : Nat \ {0}]
    BY HalvedPrompt DEF HopTyped
  <2>2. CASE Halved(prompt) = prompt
    BY <1>0, <1>4, <2>2 DEF Retry, HopTyped, Slots, Outward, Passed, Points
  <2>3. CASE Halved(prompt) # prompt
    <3>1. /\ at = "refused" /\ at' = "retrying" /\ prompt' = Halved(prompt)
          /\ calls' = 2 /\ open' = {2} /\ UNCHANGED <<mail, reply, buffered, read>>
      BY <1>4, <2>3 DEF Retry, Slots
    <3> QED BY <2>1, <3>1 DEF HopTyped, Slots, Outward, Passed, Points
  <2> QED BY <2>2, <2>3
<1>5. ASSUME NEW r \in Errors \cup {"json"}, Answered(r) PROVE HopInv'
  <2>1. (IF r = "json" THEN r ELSE Told(r)) \in Replies \ {"none", "stream"}
    BY <1>t DEF Replies, Errors, Readable
  <2>2. CASE r \in Errors /\ Rejects(r, prompt)
    BY <1>5, <2>2 DEF Answered, hop, HopTyped, Slots, Outward, Passed, Points, NothingRead
  <2>3. CASE ~(r \in Errors /\ Rejects(r, prompt))
    BY <1>5, <2>1, <2>3 DEF Answered, hop, HopTyped, Slots, Outward, Passed, Points
  <2> QED BY <2>2, <2>3
<1>6. ASSUME NEW r \in Errors \cup {"json", "stream"}, Retried(r) PROVE HopInv'
  <2> DEFINE final == IF r \in Errors THEN Final(r, prompt) ELSE r
  <2>1. prompt \in [old : Nat, newest : Nat \ {0}]
    BY DEF HopTyped
  <2>2. r # "stream" => final \in Replies \ {"none", "stream"}
    BY <1>f, <2>1 DEF Replies, Errors, Readable
  <2>3. r # "stream" => (IF r = "json" THEN "plain" ELSE final) \in Held
    BY <1>f, <2>1 DEF Held, Chunks, Errors, Readable
  <2>4. /\ at = "retrying"
        /\ \/ r = "stream" /\ at' = "recovered" /\ reply' = "stream" /\ UNCHANGED <<open, mail>>
           \/ /\ r # "stream" /\ at' = "ended" /\ open' = open \ {2}
              /\ \/ /\ reply = "stream" /\ UNCHANGED reply
                    /\ mail' = (IF r = "json" THEN "plain" ELSE final)
                 \/ reply # "stream" /\ reply' = final /\ UNCHANGED mail
        /\ UNCHANGED <<prompt, calls, buffered, read>>
    BY <1>6 DEF Retried, hop
  <2> HIDE DEF final
  <2> QED BY <2>2, <2>3, <2>4 DEF HopTyped, Slots, Outward, Passed, Points, Replies
<1> QED BY <1>1, <1>2, <1>3, <1>4, <1>5, <1>6

\* The stream of the first call, behind its guard.
LEMMA GuardingInv ==
    ASSUME HopInv,
           \/ \E e \in Errors : GuardError(e)
           \/ \E c \in {"delta", "piece", "done"} : GuardChunk(c)
           \/ \E b \in BOOLEAN : GuardEnd(b)
           \/ Flush
    PROVE  HopInv'
<1> USE DEF HopInv
<1>0. Errors \cup {"html", "delta", "piece", "done"} \subseteq Held
  BY DEF Held, Readable, Chunks
<1>1. ASSUME NEW e \in Errors, GuardError(e) PROVE HopInv'
  <2>1. /\ Append(read.got, e) \in Seq(Held) /\ Append(buffered, e) \in Seq(Held)
        /\ <<"html">> \in Seq(Held) /\ <<>> \in Seq(Held)
        /\ [read EXCEPT !.got = Append(@, e)] \in [got : Seq(Held), gave : Seq(Held)]
        /\ [read EXCEPT !.got = Append(@, e)].gave = read.gave
        /\ [read EXCEPT !.got = Append(@, e)].got = Append(read.got, e)
    <3>1. <<"html">> \in Seq(Held) /\ <<>> \in Seq(Held)
      BY <1>0
    <3>2. e \in Held /\ read \in [got : Seq(Held), gave : Seq(Held)] /\ buffered \in Seq(Held)
      BY <1>0, <1>1 DEF HopTyped
    <3>3. Append(read.got, e) \in Seq(Held) /\ Append(buffered, e) \in Seq(Held)
      <4>1. read.got \in Seq(Held)
        BY <3>2
      <4> QED BY <3>2, <4>1, AppendProperties
    <3> QED BY <3>1, <3>2, <3>3, ReadOn
  <2>2. \A s \in Seq(Held) : <<>> \o s = s
    OBVIOUS
  <2>3. CASE Rejects(e, prompt)
    BY <1>1, <2>1, <2>3 DEF GuardError, hop, HopTyped, Slots, Outward, Passed, Points
  <2>4. CASE ~Rejects(e, prompt)
    <3>1. /\ at = "guarding" /\ at' = "flushing" /\ mail = "none" /\ UNCHANGED <<open, prompt, calls, mail, reply>>
          /\ buffered' = (IF Told(e) = "html" THEN <<"html">> ELSE Append(buffered, e))
          /\ read' = [read EXCEPT !.got = Append(@, e)]
      BY <1>1, <2>4 DEF GuardError, hop
    <3>2. buffered' \in Seq(Held) /\ (buffered' = <<"html">> \/ buffered' = read'.got) /\ read'.gave = <<>>
      BY <2>1, <3>1 DEF Passed
    <3>3. Passed'
      BY <2>2, <3>1, <3>2 DEF Passed
    <3> QED BY <2>1, <3>1, <3>2, <3>3 DEF HopTyped, Slots, Outward, Points
  <2> QED BY <2>3, <2>4
<1>2. ASSUME NEW c \in {"delta", "piece", "done"}, GuardChunk(c) PROVE HopInv'
  <2>1. /\ Append(read.got, c) \in Seq(Held) /\ Append(buffered, c) \in Seq(Held)
        /\ [read EXCEPT !.got = Append(@, c)] \in [got : Seq(Held), gave : Seq(Held)]
        /\ [read EXCEPT !.got = Append(@, c)].gave = read.gave
        /\ [read EXCEPT !.got = Append(@, c)].got = Append(read.got, c)
    <3>1. c \in Held /\ read \in [got : Seq(Held), gave : Seq(Held)] /\ buffered \in Seq(Held)
      BY <1>0, <1>2 DEF HopTyped
    <3>2. Append(read.got, c) \in Seq(Held) /\ Append(buffered, c) \in Seq(Held)
      <4>1. read.got \in Seq(Held)
        BY <3>1
      <4> QED BY <3>1, <4>1, AppendProperties
    <3> QED BY <3>1, <3>2, ReadOn
  <2>2. /\ at = "guarding" /\ at' \in {"guarding", "flushing"} /\ mail = "none"
        /\ UNCHANGED <<open, prompt, calls, mail, reply>>
        /\ buffered' = Append(buffered, c) /\ read' = [read EXCEPT !.got = Append(@, c)]
    BY <1>2 DEF GuardChunk, hop
  <2>3. buffered' = read'.got /\ read'.gave = <<>> /\ <<>> \o buffered' = buffered'
    BY <2>1, <2>2 DEF Passed
  <2> QED BY <2>1, <2>2, <2>3 DEF HopTyped, Slots, Outward, Points, Passed
<1>3. ASSUME NEW b \in BOOLEAN, GuardEnd(b) PROVE HopInv'
  <2>1. <<>> \in Seq(Held) /\ <<>> \o buffered = buffered
    BY DEF HopTyped
  <2> QED BY <1>3, <2>1 DEF GuardEnd, hop, HopTyped, Slots, Outward, Points, Passed
<1>4. ASSUME Flush PROVE HopInv'
  <2>1. CASE buffered = <<>>
    <3>1. <<>> \in Seq(Held) /\ NothingRead \in [got : Seq(Held), gave : Seq(Held)]
      BY DEF NothingRead
    <3>2. open = {} \/ open = {1}
      BY <1>4 DEF Flush, Slots
    <3> QED BY <1>4, <2>1, <3>1, <3>2 DEF Flush, hop, HopTyped, Slots, Outward, Passed, Points
  <2>2. CASE buffered # <<>>
    <3>1. /\ at = "flushing" /\ mail = "none" /\ mail' = Head(buffered) /\ buffered' = Tail(buffered)
          /\ read' = [read EXCEPT !.gave = Append(@, Head(buffered))]
          /\ open' = (IF Head(buffered) = "html" THEN {} ELSE open)
          /\ UNCHANGED <<at, prompt, calls, reply>>
      BY <1>4, <2>2 DEF Flush, hop
    <3>2. Head(buffered) \in Held /\ Tail(buffered) \in Seq(Held) /\ read.gave \in Seq(Held)
      BY <2>2, HeadTailProperties DEF HopTyped
    <3>3. Append(read.gave, Head(buffered)) \o Tail(buffered) = read.gave \o buffered
      BY <2>2, <3>2 DEF HopTyped
    <3>4. read' \in [got : Seq(Held), gave : Seq(Held)] /\ read'.got = read.got
          /\ read'.gave = Append(read.gave, Head(buffered))
      <4>1. read \in [got : Seq(Held), gave : Seq(Held)]
        BY DEF HopTyped
      <4> QED BY <3>1, <3>2, <4>1, ReadOn
    <3> QED BY <3>1, <3>2, <3>3, <3>4 DEF HopTyped, Slots, Outward, Passed, Points
  <2> QED BY <2>1, <2>2
<1> QED BY <1>1, <1>2, <1>3, <1>4

LEMMA RelayInv ==
    ASSUME HopInv,
           \/ \E c \in {"delta", "piece", "done", "plain"} : Relay(c)
           \/ \E b \in BOOLEAN : RelayEnd(b)
           \/ Abandon \/ Taken
    PROVE  HopInv'
<1> USE DEF HopInv
<1>0. {"delta", "piece", "done", "plain"} \subseteq Held
  BY DEF Held, Readable, Chunks, Errors
<1>1. ASSUME NEW c \in {"delta", "piece", "done", "plain"}, Relay(c) PROVE HopInv'
  BY <1>0, <1>1 DEF Relay, hop, HopTyped, Slots, Outward, Passed
<1>2. ASSUME NEW b \in BOOLEAN, RelayEnd(b) PROVE HopInv'
  BY <1>2 DEF RelayEnd, hop, HopTyped, Slots, Outward, Passed, Points
<1>3. ASSUME Abandon PROVE HopInv'
  <2>1. <<>> \in Seq(Held)
    OBVIOUS
  <2> QED BY <1>3, <2>1 DEF Abandon, hop, HopTyped, Slots, Outward, Passed, Points
<1>4. ASSUME Taken PROVE HopInv'
  BY <1>4 DEF Taken, hop, HopTyped, Slots, Outward, Passed
<1> QED BY <1>1, <1>2, <1>3, <1>4

LEMMA HopStep ==
    ASSUME HopInv, RecoveryStep \/ Abandon \/ Taken \/ UNCHANGED recovery
    PROVE  HopInv'
<1>1. CASE UNCHANGED recovery
  BY <1>1 DEF recovery, hop, HopInv, HopTyped, Slots, Outward, Passed
<1> QED BY <1>1, CallingInv, GuardingInv, RelayInv DEF RecoveryStep

\* A hop that is over does nothing more.
LEMMA OverIsOver == ASSUME at = "ended" PROVE ~RecoveryStep
BY DEF RecoveryStep, Call, Streamed, Flush, Retry, Prepare, Answered, GuardError, GuardChunk, Relay,
       GuardEnd, RelayEnd, Retried

\* What the hop promises.
LEMMA HopSafe == HopInv => RecoveryTypeOK /\ OneSlotAtATime /\ GuardKeepsOrder
<1> SUFFICES ASSUME HopInv PROVE RecoveryTypeOK /\ OneSlotAtATime /\ GuardKeepsOrder
  OBVIOUS
<1>1. RecoveryTypeOK
  BY DEF HopInv, HopTyped, RecoveryTypeOK, Held
<1>2. OneSlotAtATime
  <2>1. open = {} \/ open = {1} \/ open = {2}
    <3>1. at \in Points
      BY DEF HopInv, HopTyped
    <3>2. open \subseteq {1} \/ open = {2}
      BY <3>1 DEF HopInv, Slots, Points
    <3> QED BY <3>2
  <2>2. Cardinality({}) = 0 /\ Cardinality({1}) = 1 /\ Cardinality({2}) = 1
    BY FS_EmptySet, FS_Singleton
  <2> QED BY <2>1, <2>2 DEF OneSlotAtATime, HopInv, Slots
<1>3. GuardKeepsOrder
  <2>1. <<>> \o <<>> = <<>> /\ <<>> \o buffered = buffered
    BY DEF HopInv, HopTyped
  <2>2. CASE at = "guarding"
    <3>1. read.gave = <<>> /\ buffered = read.got /\ calls < 2
      BY <2>2 DEF HopInv, Slots, Passed
    <3>2. read.gave \o buffered = read.got
      BY <2>1, <3>1
    <3> QED BY <3>1, <3>2 DEF GuardKeepsOrder
  <2>3. CASE at = "flushing"
    BY <2>3 DEF HopInv, Slots, Passed, GuardKeepsOrder
  <2>4. CASE at \in {"refused", "retrying", "recovered"}
    BY <2>1, <2>4 DEF HopInv, Slots, Passed, GuardKeepsOrder
  <2> QED BY <2>2, <2>3, <2>4 DEF GuardKeepsOrder
<1> QED BY <1>1, <1>2, <1>3

----------------------------------------------------------------------------
(* Responses: what a client makes of the events it will get                *)

Early == {"start", "created", "open"}
Ends == {"completed", "incomplete", "failed"}

Names == {"created", "in_progress", "added", "part", "delta", "part_done", "done", "terminal"}
Events == [e : Names, i : Nat, status : Ends \cup {"none"}, kind : Kinds \cup {"none"}]

\* An item of the response, and what a client has of one.
Items == [kind : Kinds, choice : Choices, pieces : Nat, tool : Tools \cup {NoCall},
          named : BOOLEAN, args : {"none", "head", "whole", "broken"},
          status : {"in_progress", "completed", "incomplete"}]
Shown == [kind : Kinds, part : {"none", "open", "closed"}, pieces : Nat,
          status : {"open", "completed", "incomplete"}]

Drafts == [items : Seq(Items), think : [Choices -> Nat], say : [Choices -> Nat],
           sent : Seq(Events)]
Clients == [step : Early \cup Ends, items : Seq(Shown)]

\* An event that keeps to the protocol, for a client that has come this far.
Growing(x) == x.part = (IF x.kind = "call" THEN "none" ELSE "open")
Allowed(c, ev) ==
    \/ ev.e = "created" /\ c.step = "start"
    \/ ev.e = "in_progress" /\ c.step = "created"
    \/ ev.e = "added" /\ c.step = "open" /\ ev.kind \in Kinds
    \/ /\ c.step = "open" /\ ev.i \in DOMAIN c.items /\ c.items[ev.i].status = "open"
       /\ \/ ev.e = "part" /\ c.items[ev.i].kind # "call" /\ c.items[ev.i].part = "none"
          \/ ev.e \in {"delta", "part_done"} /\ Growing(c.items[ev.i])
          \/ /\ ev.e = "done" /\ ev.status \in {"completed", "incomplete"}
             /\ \/ c.items[ev.i].part = "closed"
                \/ c.items[ev.i].kind = "call" /\ ev.status = "incomplete"
    \/ /\ ev.e = "terminal" /\ c.step = "open" /\ ev.status \in Ends
       /\ \A i \in DOMAIN c.items : /\ c.items[i].status # "open"
                                    /\ ev.status = "completed" => c.items[i].status = "completed"

\* The events s take a client from c to d, every one of them allowed.
Path(c, s, d) ==
    \E h : /\ h[0] = c /\ h[Len(s)] = d
           /\ \A k \in 1..Len(s) : Allowed(h[k - 1], s[k]) /\ h[k] = Heard(h[k - 1], s[k])

LEMMA PathNil == ASSUME NEW c PROVE Path(c, <<>>, c)
<1> DEFINE h == [k \in {0} |-> c]
<1>1. h[0] = c /\ Len(<<>>) = 0 /\ 1..Len(<<>>) = {}
  OBVIOUS
<1> QED BY <1>1 DEF Path

LEMMA PathNothing == ASSUME NEW c, NEW d, Path(c, <<>>, d) PROVE d = c
BY DEF Path

LEMMA PathMore ==
    ASSUME NEW c, NEW d, NEW s \in Seq(Events), NEW ev \in Events, Path(c, s, d), Allowed(d, ev)
    PROVE  Path(c, Append(s, ev), Heard(d, ev))
<1>1. PICK h : /\ h[0] = c /\ h[Len(s)] = d
               /\ \A k \in 1..Len(s) : Allowed(h[k - 1], s[k]) /\ h[k] = Heard(h[k - 1], s[k])
  BY DEF Path
<1>2. PICK n : n = Len(s)
  OBVIOUS
<1>3. PICK p : p = Append(s, ev)
  OBVIOUS
<1>4. PICK e : e = Heard(d, ev)
  OBVIOUS
<1>5. /\ n \in Nat /\ Len(p) = n + 1 /\ p[n + 1] = ev
      /\ \A k \in 1..n : p[k] = s[k]
  BY <1>2, <1>3, AppendProperties, LenProperties
<1> DEFINE g == [k \in 0..(n + 1) |-> IF k = n + 1 THEN e ELSE h[k]]
<1>6. g[0] = c /\ g[n + 1] = e /\ g[n] = d /\ \A k \in 0..n : g[k] = h[k]
  BY <1>1, <1>2, <1>5
<1>7. ASSUME NEW k \in 1..(n + 1) PROVE Allowed(g[k - 1], p[k]) /\ g[k] = Heard(g[k - 1], p[k])
  <2> HIDE DEF g
  <2>1. CASE k = n + 1
    <3>1. k - 1 = n
      BY <1>5, <2>1
    <3>2. g[k - 1] = d /\ g[k] = e /\ p[k] = ev
      BY <1>5, <1>6, <2>1, <3>1
    <3> QED BY <1>4, <3>2
  <2>2. CASE k # n + 1
    <3>1. k \in 1..n /\ k \in 0..n /\ k - 1 \in 0..n
      BY <1>5, <2>2
    <3>2. g[k - 1] = h[k - 1] /\ g[k] = h[k] /\ p[k] = s[k]
      BY <1>5, <1>6, <3>1
    <3> QED BY <1>1, <1>2, <3>1, <3>2
  <2> QED BY <2>1, <2>2
<1> HIDE DEF g
<1>8. Path(c, p, e)
  BY <1>5, <1>6, <1>7 DEF Path
<1> QED BY <1>3, <1>4, <1>8

\* The first event of a path is allowed and leaves the rest.
LEMMA PathFirst ==
    ASSUME NEW c, NEW d, NEW s \in Seq(Events), s # <<>>, Path(c, s, d)
    PROVE  Allowed(c, Head(s)) /\ Path(Heard(c, Head(s)), Tail(s), d)
<1>1. PICK h : /\ h[0] = c /\ h[Len(s)] = d
               /\ \A k \in 1..Len(s) : Allowed(h[k - 1], s[k]) /\ h[k] = Heard(h[k - 1], s[k])
  BY DEF Path
<1>2. PICK n : n = Len(s)
  OBVIOUS
<1>3. PICK p : p = Tail(s)
  OBVIOUS
<1>4. /\ n \in Nat /\ n > 0 /\ Len(p) = n - 1 /\ Head(s) = s[1]
      /\ \A k \in 1..(n - 1) : p[k] = s[k + 1]
  BY <1>2, <1>3, HeadTailProperties, LenProperties, EmptySeq
<1>5. Allowed(h[0], s[1]) /\ h[1] = Heard(h[0], s[1])
  <2>1. 1 \in 1..Len(s) /\ 1 - 1 = 0
    BY <1>2, <1>4
  <2> QED BY <1>1, <2>1
<1> DEFINE g == [k \in 0..(n - 1) |-> h[k + 1]]
<1>6. g[0] = h[1] /\ g[n - 1] = d /\ \A k \in 0..(n - 1) : g[k] = h[k + 1]
  BY <1>1, <1>2, <1>4
<1>7. ASSUME NEW k \in 1..(n - 1) PROVE Allowed(g[k - 1], p[k]) /\ g[k] = Heard(g[k - 1], p[k])
  <2> HIDE DEF g
  <2>1. k + 1 \in 1..n /\ (k + 1) - 1 = k /\ k - 1 \in 0..(n - 1) /\ k \in 0..(n - 1) /\ (k - 1) + 1 = k
    BY <1>4
  <2>2. g[k - 1] = h[k] /\ g[k] = h[k + 1] /\ p[k] = s[k + 1]
    BY <1>4, <1>6, <2>1
  <2>3. Allowed(h[k], s[k + 1]) /\ h[k + 1] = Heard(h[k], s[k + 1])
    <3>1. /\ Allowed(h[(k + 1) - 1], s[k + 1])
          /\ h[k + 1] = Heard(h[(k + 1) - 1], s[k + 1])
      BY <1>1, <1>2, <2>1
    <3> QED BY <2>1, <3>1
  <2> QED BY <2>2, <2>3
<1> HIDE DEF g
<1>8. Path(h[1], p, d)
  BY <1>4, <1>6, <1>7 DEF Path
<1> QED BY <1>1, <1>3, <1>4, <1>5, <1>8

\* An item of the draft, as a client has it after all events.
Alike(x, y) ==
    /\ x.kind = y.kind /\ x.pieces = y.pieces
    /\ y.status = "in_progress" => x.status = "open" /\ Growing(x)
    /\ y.status # "in_progress" => x.status = y.status
Matches(d, items) ==
    Len(d.items) = Len(items) /\ \A i \in DOMAIN items : Alike(d.items[i], items[i])

\* With the events still to be sent the client has the items.
Announced(items, sent, c) ==
    \E d \in Clients : d.step = "open" /\ Path(c, sent, d) /\ Matches(d, items)

LEMMA EventTyped ==
    /\ \A name \in Names, i \in Nat :
          /\ Event(name, i) \in Events /\ Event(name, i).e = name /\ Event(name, i).i = i
    /\ \A kind \in Kinds, i \in Nat :
          LET ev == [Event("added", i) EXCEPT !.kind = kind]
          IN  ev \in Events /\ ev.e = "added" /\ ev.kind = kind
    /\ \A status \in {"completed", "incomplete"}, i \in Nat :
          LET ev == [Event("done", i) EXCEPT !.status = status]
          IN  ev \in Events /\ ev.e = "done" /\ ev.i = i /\ ev.status = status
    /\ \A status \in Ends :
          Terminal(status) \in Events /\ Terminal(status).e = "terminal" /\ Terminal(status).status = status
BY DEF Event, Events, Names, Ends, Terminal

\* What an event changes in one item of a client.
LEMMA ItemChange ==
    ASSUME NEW d \in Clients, NEW i \in DOMAIN d.items, NEW x \in Shown
    PROVE  LET n == [d EXCEPT !.items[i] = x]
           IN  /\ n \in Clients /\ n.step = d.step
               /\ Len(n.items) = Len(d.items) /\ DOMAIN n.items = DOMAIN d.items
               /\ n.items[i] = x
               /\ \A j \in DOMAIN d.items : j # i => n.items[j] = d.items[j]
<1>1. d.items \in Seq(Shown)
  BY DEF Clients
<1>2. PICK items : items = [d.items EXCEPT ![i] = x]
  OBVIOUS
<1>3. items \in Seq(Shown) /\ Len(items) = Len(d.items)
  BY <1>1, <1>2, ExceptSeq
<1>4. [d EXCEPT !.items[i] = x] = [d EXCEPT !.items = items]
  BY <1>2
<1>5. [d EXCEPT !.items = items] \in Clients /\ [d EXCEPT !.items = items].items = items
      /\ [d EXCEPT !.items = items].step = d.step
  BY <1>3 DEF Clients
<1>6. /\ DOMAIN items = DOMAIN d.items /\ items[i] = x
      /\ \A j \in DOMAIN d.items : j # i => items[j] = d.items[j]
  BY <1>1, <1>2
<1> QED BY <1>3, <1>4, <1>5, <1>6

LEMMA ItemTyped == ASSUME NEW d \in Clients, NEW i \in DOMAIN d.items PROVE d.items[i] \in Shown
<1>1. d.items \in Seq(Shown)
  BY DEF Clients
<1> QED BY <1>1, ElementOfSeq, LenProperties

\* What is heard of one item.
LEMMA HeardOfItem ==
    ASSUME NEW d \in Clients, NEW ev \in Events, ev.e \in {"part", "delta", "part_done", "done"},
           Allowed(d, ev)
    PROVE  /\ Heard(d, ev) \in Clients /\ Heard(d, ev).step = d.step
           /\ Len(Heard(d, ev).items) = Len(d.items)
           /\ DOMAIN Heard(d, ev).items = DOMAIN d.items
           /\ \A j \in DOMAIN d.items : j # ev.i => Heard(d, ev).items[j] = d.items[j]
           /\ Heard(d, ev).items[ev.i] =
                CASE ev.e = "part" -> [d.items[ev.i] EXCEPT !.part = "open"]
                  [] ev.e = "delta" -> [d.items[ev.i] EXCEPT !.pieces = @ + 1]
                  [] ev.e = "part_done" -> [d.items[ev.i] EXCEPT !.part = "closed"]
                  [] ev.e = "done" -> [d.items[ev.i] EXCEPT !.status = ev.status]
<1>1. ev.i \in DOMAIN d.items
  BY DEF Allowed
<1>2. PICK y \in Shown : y = d.items[ev.i]
  BY <1>1, ItemTyped
<1>3. CASE ev.e = "part"
  <2>1. [y EXCEPT !.part = "open"] \in Shown
    BY DEF Shown
  <2>2. Heard(d, ev) = [d EXCEPT !.items[ev.i] = [y EXCEPT !.part = "open"]]
    BY <1>2, <1>3 DEF Heard
  <2> QED BY <1>1, <1>2, <1>3, <2>1, <2>2, ItemChange
<1>4. CASE ev.e = "delta"
  <2>1. [y EXCEPT !.pieces = @ + 1] \in Shown
    BY DEF Shown
  <2>2. Heard(d, ev) = [d EXCEPT !.items[ev.i] = [y EXCEPT !.pieces = @ + 1]]
    BY <1>2, <1>4 DEF Heard
  <2> QED BY <1>1, <1>2, <1>4, <2>1, <2>2, ItemChange
<1>5. CASE ev.e = "part_done"
  <2>1. [y EXCEPT !.part = "closed"] \in Shown
    BY DEF Shown
  <2>2. Heard(d, ev) = [d EXCEPT !.items[ev.i] = [y EXCEPT !.part = "closed"]]
    BY <1>2, <1>5 DEF Heard
  <2> QED BY <1>1, <1>2, <1>5, <2>1, <2>2, ItemChange
<1>6. CASE ev.e = "done"
  <2>1. ev.status \in {"completed", "incomplete"}
    BY <1>6 DEF Allowed
  <2>2. [y EXCEPT !.status = ev.status] \in Shown
    BY <2>1 DEF Shown
  <2>3. Heard(d, ev) = [d EXCEPT !.items[ev.i] = [y EXCEPT !.status = ev.status]]
    BY <1>2, <1>6 DEF Heard
  <2> QED BY <1>1, <1>2, <1>6, <2>2, <2>3, ItemChange
<1> QED BY <1>3, <1>4, <1>5, <1>6

\* A new item is heard of.
LEMMA HeardAdded ==
    ASSUME NEW d \in Clients, d.step = "open", NEW ev \in Events, ev.e = "added", ev.kind \in Kinds
    PROVE  LET x == [kind |-> ev.kind, part |-> "none", pieces |-> 0, status |-> "open"]
           IN  /\ Allowed(d, ev) /\ Heard(d, ev) \in Clients /\ Heard(d, ev).step = d.step
               /\ Heard(d, ev).items = Append(d.items, x) /\ x \in Shown
<1> DEFINE x == [kind |-> ev.kind, part |-> "none", pieces |-> 0, status |-> "open"]
<1>1. x \in Shown
  BY DEF Shown
<1>2. PICK items : items = Append(d.items, x)
  OBVIOUS
<1>3. items \in Seq(Shown)
  BY <1>1, <1>2, AppendProperties DEF Clients
<1>4. Heard(d, ev) = [d EXCEPT !.items = items]
  BY <1>2 DEF Heard
<1>5. Allowed(d, ev)
  BY DEF Allowed
<1> QED BY <1>1, <1>2, <1>3, <1>4, <1>5 DEF Clients

LEMMA Adding ==
    ASSUME NEW items \in Seq(Items), NEW sent \in Seq(Events), NEW c, Announced(items, sent, c),
           NEW y \in Items, y.pieces = 0, y.status = "in_progress"
    PROVE  LET i == Len(items) + 1
               ev == [Event("added", i) EXCEPT !.kind = y.kind]
           IN  /\ y.kind = "call" => Announced(Append(items, y), Append(sent, ev), c)
               /\ y.kind # "call" =>
                     Announced(Append(items, y), Append(Append(sent, ev), Event("part", i)), c)
<1>1. PICK d \in Clients : d.step = "open" /\ Path(c, sent, d) /\ Matches(d, items)
  BY DEF Announced
<1>2. PICK i : i = Len(items) + 1
  OBVIOUS
<1>3. PICK ev : ev = [Event("added", i) EXCEPT !.kind = y.kind]
  OBVIOUS
<1>k. y.kind \in Kinds
  BY DEF Items
<1>4. i \in Nat /\ i > 0 /\ i = Len(d.items) + 1 /\ DOMAIN items = 1..(i - 1) /\ DOMAIN d.items = 1..(i - 1)
  <2>1. d.items \in Seq(Shown)
    BY DEF Clients
  <2> QED BY <1>1, <1>2, <2>1, LenProperties DEF Matches
<1>5. ev \in Events /\ ev.e = "added" /\ ev.kind = y.kind
  BY <1>3, <1>4, <1>k DEF Event, Events, Names
<1>6. PICK x \in Shown : x = [kind |-> y.kind, part |-> "none", pieces |-> 0, status |-> "open"]
  BY <1>k DEF Shown
<1>7. PICK e \in Clients : /\ e = Heard(d, ev) /\ Allowed(d, ev) /\ e.step = "open"
                           /\ e.items = Append(d.items, x)
  BY <1>1, <1>5, <1>6, <1>k, HeardAdded
<1>8. Path(c, Append(sent, ev), e) /\ Append(sent, ev) \in Seq(Events)
  BY <1>1, <1>5, <1>7, PathMore, AppendProperties
<1>9. PICK more : more = Append(items, y)
  OBVIOUS
<1>10. /\ Len(more) = i /\ DOMAIN more = 1..i /\ more[i] = y
       /\ \A j \in 1..(i - 1) : more[j] = items[j]
       /\ Len(e.items) = i /\ DOMAIN e.items = 1..i /\ e.items[i] = x
       /\ \A j \in 1..(i - 1) : e.items[j] = d.items[j]
  <2>1. d.items \in Seq(Shown)
    BY DEF Clients
  <2>2. more \in Seq(Items) /\ e.items \in Seq(Shown)
    BY <1>7, <1>9, <2>1, AppendProperties
  <2>3. Len(more) = i /\ Len(e.items) = i
    BY <1>2, <1>4, <1>7, <1>9, <2>1, AppendProperties
  <2>4. DOMAIN more = 1..i /\ DOMAIN e.items = 1..i
    BY <2>2, <2>3, LenProperties
  <2> QED BY <1>2, <1>4, <1>7, <1>9, <2>1, <2>3, <2>4, AppendProperties
<1>11. CASE y.kind = "call"
  <2>1. Alike(x, y)
    BY <1>6, <1>11 DEF Alike, Growing
  <2>2. ASSUME NEW j \in DOMAIN more PROVE Alike(e.items[j], more[j])
    <3>1. CASE j = i
      BY <1>10, <2>1, <3>1
    <3>2. CASE j # i
      <4>1. j \in 1..(i - 1)
        BY <1>4, <1>10, <3>2
      <4> QED BY <1>1, <1>4, <1>10, <4>1 DEF Matches
    <3> QED BY <3>1, <3>2
  <2>3. Matches(e, more)
    BY <1>10, <2>2 DEF Matches
  <2>4. Announced(more, Append(sent, ev), c)
    BY <1>7, <1>8, <2>3 DEF Announced
  <2> QED BY <1>2, <1>3, <1>9, <1>11, <2>4
<1>12. CASE y.kind # "call"
  <2>1. PICK part \in Events : part = Event("part", i) /\ part.e = "part" /\ part.i = i
    BY <1>4, EventTyped DEF Names
  <2>2. e.items[i] = x /\ i \in DOMAIN e.items
    BY <1>4, <1>10
  <2>3. Allowed(e, part)
    BY <1>6, <1>7, <1>12, <2>1, <2>2 DEF Allowed
  <2>4. PICK f \in Clients :
            /\ f = Heard(e, part) /\ f.step = "open" /\ Len(f.items) = i
            /\ \A j \in 1..(i - 1) : f.items[j] = e.items[j]
            /\ f.items[i] = [x EXCEPT !.part = "open"]
    <3>1. \A j \in 1..(i - 1) : j \in DOMAIN e.items /\ j # i
      BY <1>4, <1>10
    <3>2. part.e \in {"part", "delta", "part_done", "done"}
      BY <2>1
    <3>3. /\ Heard(e, part) \in Clients /\ Heard(e, part).step = "open"
          /\ Len(Heard(e, part).items) = i
          /\ \A j \in DOMAIN e.items : j # i => Heard(e, part).items[j] = e.items[j]
      BY <1>7, <1>10, <2>1, <2>3, <3>2, HeardOfItem
    <3>4. Heard(e, part).items[part.i] = [e.items[part.i] EXCEPT !.part = "open"]
      BY <2>1, <2>3, <3>2, HeardOfItem
    <3> QED BY <2>1, <2>2, <3>1, <3>3, <3>4
  <2>5. Path(c, Append(Append(sent, ev), part), f)
    BY <1>8, <2>1, <2>3, <2>4, PathMore
  <2>6. Alike([x EXCEPT !.part = "open"], y)
    BY <1>6, <1>12 DEF Alike, Growing, Shown
  <2>7. ASSUME NEW j \in DOMAIN more PROVE Alike(f.items[j], more[j])
    <3>1. CASE j = i
      BY <1>10, <2>4, <2>6, <3>1
    <3>2. CASE j # i
      <4>1. j \in 1..(i - 1)
        BY <1>4, <1>10, <3>2
      <4>2. f.items[j] = d.items[j] /\ more[j] = items[j]
        BY <1>10, <2>4, <4>1
      <4> QED BY <1>1, <1>4, <4>1, <4>2 DEF Matches
    <3> QED BY <3>1, <3>2
  <2>8. Matches(f, more)
    BY <1>10, <2>4, <2>7 DEF Matches
  <2>9. Announced(more, Append(Append(sent, ev), part), c)
    BY <2>4, <2>5, <2>8 DEF Announced
  <2> QED BY <1>2, <1>3, <1>9, <1>12, <2>1, <2>9
<1> QED BY <1>11, <1>12

\* Another piece of an open item.
LEMMA Extending ==
    ASSUME NEW items \in Seq(Items), NEW sent \in Seq(Events), NEW c, Announced(items, sent, c),
           NEW i \in DOMAIN items, items[i].status = "in_progress"
    PROVE  Announced([items EXCEPT ![i].pieces = @ + 1], Append(sent, Event("delta", i)), c)
<1>1. PICK d \in Clients : d.step = "open" /\ Path(c, sent, d) /\ Matches(d, items)
  BY DEF Announced
<1>2. DOMAIN items = 1..Len(items) /\ DOMAIN d.items = DOMAIN items /\ i \in Nat /\ items[i] \in Items
  <2>1. d.items \in Seq(Shown)
    BY DEF Clients
  <2> QED BY <1>1, <2>1, LenProperties, ElementOfSeq DEF Matches
<1>3. PICK x \in Shown : x = d.items[i]
  BY <1>2, ItemTyped
<1>4. Alike(x, items[i])
  BY <1>1, <1>3 DEF Matches
<1>5. PICK ev \in Events : ev = Event("delta", i) /\ ev.e = "delta" /\ ev.i = i
  BY <1>2, EventTyped DEF Names
<1>6. Allowed(d, ev)
  BY <1>1, <1>2, <1>3, <1>4, <1>5 DEF Allowed, Alike
<1>7. PICK f \in Clients :
          /\ f = Heard(d, ev) /\ f.step = "open" /\ Len(f.items) = Len(d.items)
          /\ \A j \in DOMAIN items : j # i => f.items[j] = d.items[j]
          /\ f.items[i] = [x EXCEPT !.pieces = @ + 1]
  <2>1. ev.e \in {"part", "delta", "part_done", "done"}
    BY <1>5
  <2>2. /\ Heard(d, ev) \in Clients /\ Heard(d, ev).step = "open"
        /\ Len(Heard(d, ev).items) = Len(d.items)
        /\ \A j \in DOMAIN d.items : j # i => Heard(d, ev).items[j] = d.items[j]
    BY <1>1, <1>5, <1>6, <2>1, HeardOfItem
  <2>3. Heard(d, ev).items[ev.i] = [d.items[ev.i] EXCEPT !.pieces = @ + 1]
    BY <1>5, <1>6, <2>1, HeardOfItem
  <2> QED BY <1>2, <1>3, <1>5, <2>2, <2>3
<1>8. PICK more : more = [items EXCEPT ![i].pieces = @ + 1]
  OBVIOUS
<1>9. /\ Len(more) = Len(items) /\ DOMAIN more = DOMAIN items
      /\ more[i] = [items[i] EXCEPT !.pieces = @ + 1]
      /\ \A j \in DOMAIN items : j # i => more[j] = items[j]
  <2>1. [items[i] EXCEPT !.pieces = @ + 1] \in Items
    <3>1. PICK y \in Items : y = items[i]
      BY <1>2
    <3>2. PICK n \in Nat : n = y.pieces + 1
      BY DEF Items
    <3>3. [y EXCEPT !.pieces = n] \in Items
      BY DEF Items
    <3> QED BY <3>1, <3>2, <3>3
  <2>2. more = [items EXCEPT ![i] = [items[i] EXCEPT !.pieces = @ + 1]]
    BY <1>8
  <2> QED BY <2>1, <2>2, ExceptSeq
<1>10. Alike([x EXCEPT !.pieces = @ + 1], [items[i] EXCEPT !.pieces = @ + 1])
  BY <1>2, <1>4 DEF Alike, Growing, Shown, Items
<1>11. ASSUME NEW j \in DOMAIN more PROVE Alike(f.items[j], more[j])
  <2>1. CASE j = i
    BY <1>7, <1>9, <1>10, <2>1
  <2>2. CASE j # i
    BY <1>1, <1>7, <1>9, <2>2 DEF Matches
  <2> QED BY <2>1, <2>2
<1>12. Matches(f, more)
  BY <1>1, <1>7, <1>9, <1>11 DEF Matches
<1>13. Path(c, Append(sent, ev), f)
  BY <1>1, <1>5, <1>6, <1>7, PathMore
<1>14. Announced(more, Append(sent, ev), c)
  BY <1>7, <1>12, <1>13 DEF Announced
<1> QED BY <1>5, <1>8, <1>14

\* An open item is done, after its part unless it is a call cut short.
LEMMA Closing ==
    ASSUME NEW items \in Seq(Items), NEW sent \in Seq(Events), NEW c, Announced(items, sent, c),
           NEW i \in DOMAIN items, items[i].status = "in_progress",
           NEW status \in {"completed", "incomplete"}
    PROVE  LET told == IF items[i].kind # "call" \/ status = "completed"
                       THEN Append(sent, Event("part_done", i)) ELSE sent
           IN  Announced([items EXCEPT ![i].status = status],
                         Append(told, [Event("done", i) EXCEPT !.status = status]), c)
<1>1. PICK d \in Clients : d.step = "open" /\ Path(c, sent, d) /\ Matches(d, items)
  BY DEF Announced
<1>2. DOMAIN items = 1..Len(items) /\ DOMAIN d.items = DOMAIN items /\ i \in Nat /\ items[i] \in Items
  <2>1. d.items \in Seq(Shown)
    BY DEF Clients
  <2> QED BY <1>1, <2>1, LenProperties, ElementOfSeq DEF Matches
<1>3. PICK x \in Shown : x = d.items[i]
  BY <1>2, ItemTyped
<1>4. Alike(x, items[i])
  BY <1>1, <1>3 DEF Matches
<1>5. PICK part \in Events : part = Event("part_done", i) /\ part.e = "part_done" /\ part.i = i
  BY <1>2, EventTyped DEF Names
<1>6. PICK ev \in Events : /\ ev = [Event("done", i) EXCEPT !.status = status]
                           /\ ev.e = "done" /\ ev.i = i /\ ev.status = status
  <2>1. [Event("done", i) EXCEPT !.status = status] \in Events
    BY <1>2 DEF Event, Events, Names, Ends
  <2> QED BY <2>1 DEF Event
<1>7. PICK more : more = [items EXCEPT ![i].status = status]
  OBVIOUS
<1>8. /\ Len(more) = Len(items) /\ DOMAIN more = DOMAIN items
      /\ more[i] = [items[i] EXCEPT !.status = status]
      /\ \A j \in DOMAIN items : j # i => more[j] = items[j]
  <2>1. [items[i] EXCEPT !.status = status] \in Items
    BY <1>2 DEF Items
  <2>2. more = [items EXCEPT ![i] = [items[i] EXCEPT !.status = status]]
    BY <1>7
  <2> QED BY <2>1, <2>2, ExceptSeq
\* However it gets there: a client that may hear "done" now ends up with the items.
<1>9. ASSUME NEW e \in Clients, e.step = "open", NEW s \in Seq(Events), Path(c, s, e),
             Len(e.items) = Len(items), DOMAIN e.items = DOMAIN items,
             \A j \in DOMAIN items : j # i => e.items[j] = d.items[j],
             e.items[i].kind = x.kind, e.items[i].pieces = x.pieces, e.items[i].status = "open",
             e.items[i].part = "closed" \/ (x.kind = "call" /\ status = "incomplete")
      PROVE  Announced(more, Append(s, ev), c)
  <2>1. Allowed(e, ev)
    BY <1>2, <1>6, <1>9 DEF Allowed
  <2>2. ev.e \in {"part", "delta", "part_done", "done"}
    BY <1>6
  <2>3. /\ Heard(e, ev) \in Clients /\ Heard(e, ev).step = "open"
        /\ Len(Heard(e, ev).items) = Len(items)
        /\ \A j \in DOMAIN items : j # i => Heard(e, ev).items[j] = d.items[j]
    <3>1. /\ Heard(e, ev) \in Clients /\ Heard(e, ev).step = e.step
          /\ Len(Heard(e, ev).items) = Len(e.items)
          /\ \A j \in DOMAIN e.items : j # ev.i => Heard(e, ev).items[j] = e.items[j]
      BY <2>1, <2>2, HeardOfItem
    <3> QED BY <1>6, <1>9, <3>1
  <2>4. Heard(e, ev).items[ev.i] = [e.items[ev.i] EXCEPT !.status = ev.status]
    <3>1. Heard(e, ev).items[ev.i] =
            CASE ev.e = "part" -> [e.items[ev.i] EXCEPT !.part = "open"]
              [] ev.e = "delta" -> [e.items[ev.i] EXCEPT !.pieces = @ + 1]
              [] ev.e = "part_done" -> [e.items[ev.i] EXCEPT !.part = "closed"]
              [] ev.e = "done" -> [e.items[ev.i] EXCEPT !.status = ev.status]
      BY <2>1, <2>2, HeardOfItem
    <3> QED BY <1>6, <3>1
  <2>5. PICK f \in Clients : f = Heard(e, ev)
    BY <2>3
  <2>6. PICK y \in Shown : y = e.items[i]
    BY <1>2, <1>9, ItemTyped
  <2>7. Alike(f.items[i], more[i])
    <3>1. f.items[i] = [y EXCEPT !.status = status]
      BY <1>6, <2>4, <2>5, <2>6
    <3>2. /\ [y EXCEPT !.status = status].kind = y.kind
          /\ [y EXCEPT !.status = status].pieces = y.pieces
          /\ [y EXCEPT !.status = status].status = status
      BY DEF Shown
    <3>3. /\ more[i].kind = items[i].kind /\ more[i].pieces = items[i].pieces
          /\ more[i].status = status
      BY <1>2, <1>8 DEF Items
    <3> QED BY <1>4, <1>9, <2>6, <3>1, <3>2, <3>3 DEF Alike
  <2>8. ASSUME NEW j \in DOMAIN more PROVE Alike(f.items[j], more[j])
    <3>1. CASE j = i
      BY <2>7, <3>1
    <3>2. CASE j # i
      BY <1>1, <1>8, <2>3, <2>5, <3>2 DEF Matches
    <3> QED BY <3>1, <3>2
  <2>9. Matches(f, more)
    BY <1>8, <2>3, <2>5, <2>8 DEF Matches
  <2>10. Path(c, Append(s, ev), f)
    BY <1>6, <1>9, <2>1, <2>5, PathMore
  <2> QED BY <2>3, <2>5, <2>9, <2>10 DEF Announced
<1>10. CASE items[i].kind # "call" \/ status = "completed"
  <2>1. Allowed(d, part)
    BY <1>1, <1>2, <1>3, <1>4, <1>5 DEF Allowed, Alike
  <2>2. part.e \in {"part", "delta", "part_done", "done"}
    BY <1>5
  <2>3. /\ Heard(d, part) \in Clients /\ Heard(d, part).step = "open"
        /\ Len(Heard(d, part).items) = Len(d.items)
        /\ DOMAIN Heard(d, part).items = DOMAIN d.items
        /\ \A j \in DOMAIN d.items : j # i => Heard(d, part).items[j] = d.items[j]
    BY <1>1, <1>5, <2>1, <2>2, HeardOfItem
  <2>4. Heard(d, part).items[part.i] = [d.items[part.i] EXCEPT !.part = "closed"]
    BY <1>5, <2>1, <2>2, HeardOfItem
  <2>5. PICK e \in Clients : e = Heard(d, part)
    BY <2>3
  <2>6. /\ e.items[i].kind = x.kind /\ e.items[i].pieces = x.pieces /\ e.items[i].status = "open"
        /\ e.items[i].part = "closed"
    BY <1>3, <1>4, <1>5, <2>4, <2>5 DEF Alike, Shown
  <2>7. PICK s \in Seq(Events) : s = Append(sent, part)
    BY AppendProperties
  <2>8. Path(c, s, e)
    BY <1>1, <2>1, <2>5, <2>7, PathMore
  <2>9. Announced(more, Append(s, ev), c)
    BY <1>1, <1>2, <1>9, <2>3, <2>5, <2>6, <2>8 DEF Matches
  <2> QED BY <1>5, <1>6, <1>7, <1>10, <2>7, <2>9
<1>11. CASE ~(items[i].kind # "call" \/ status = "completed")
  <2>1. x.kind = "call" /\ status = "incomplete" /\ x.status = "open"
    BY <1>4, <1>11 DEF Alike
  <2>2. Announced(more, Append(sent, ev), c)
    BY <1>1, <1>2, <1>3, <1>9, <2>1 DEF Matches
  <2> QED BY <1>6, <1>7, <1>11, <2>2
<1> QED BY <1>10, <1>11

\* Names and arguments of calls are not announced one by one.
LEMMA Naming ==
    ASSUME NEW items, NEW more, NEW sent, NEW c, Announced(items, sent, c),
           Len(more) = Len(items), DOMAIN more = DOMAIN items,
           \A i \in DOMAIN items : /\ more[i].kind = items[i].kind
                                   /\ more[i].pieces = items[i].pieces
                                   /\ more[i].status = items[i].status
    PROVE  Announced(more, sent, c)
BY DEF Announced, Matches, Alike

----------------------------------------------------------------------------
(* What a delta does to the draft                                          *)

Good(m, c) == m \in Drafts /\ Announced(m.items, m.sent, c)

\* think and say are the open reasoning and the open text of their choice.
Current(m) ==
    \A c \in Choices :
        /\ m.think[c] # 0 => /\ m.think[c] \in DOMAIN m.items
                             /\ m.items[m.think[c]].kind = "reasoning"
                             /\ m.items[m.think[c]].choice = c
                             /\ m.items[m.think[c]].status = "in_progress"
        /\ m.say[c] # 0 => /\ m.say[c] \in DOMAIN m.items
                           /\ m.items[m.say[c]].kind = "text"
                           /\ m.items[m.say[c]].choice = c
                           /\ m.items[m.say[c]].status = "in_progress"
        /\ m.think[c] = 0 \/ m.say[c] = 0

\* Nothing else is open but calls, which stay open; a choice that has an item has
\* an open one, and its reasoning was the first.
Tidy(m) ==
    \A i \in DOMAIN m.items :
        LET c == m.items[i].choice
        IN  /\ m.items[i].status = "in_progress" =>
                  m.items[i].kind = "call" \/ i = m.think[c] \/ i = m.say[c]
            /\ m.items[i].kind = "call" => m.items[i].status = "in_progress"
            /\ m.items[i].status # "incomplete"
            /\ m.think[c] # 0 \/ m.say[c] # 0 \/ OpenTool(m, c)
            /\ \A j \in DOMAIN m.items :
                  i < j /\ m.items[j].choice = c => m.items[j].kind # "reasoning"

Ordered(m) == Current(m) /\ Tidy(m)

LEMMA DraftTyped ==
    ASSUME NEW m \in Drafts
    PROVE  /\ m.items \in Seq(Items) /\ m.sent \in Seq(Events) /\ Len(m.items) \in Nat
           /\ m.think \in [Choices -> Nat] /\ m.say \in [Choices -> Nat]
           /\ DOMAIN m.items = 1..Len(m.items)
           /\ \A i \in DOMAIN m.items : m.items[i] \in Items
<1>1. m.items \in Seq(Items) /\ m.sent \in Seq(Events)
      /\ m.think \in [Choices -> Nat] /\ m.say \in [Choices -> Nat]
  BY DEF Drafts
<1> QED BY <1>1, LenProperties, ElementOfSeq

LEMMA DeltaTyped ==
    ASSUME NEW d \in Deltas
    PROVE  /\ d.choice \in Choices /\ d.reason \in BOOLEAN /\ d.text \in Texts
           /\ d.call \in Calls \cup {NoCall} /\ d.finish \in Finishes
BY BridgeAssumption

\* Sending an event of the right type changes nothing else.
LEMMA SentTyped ==
    ASSUME NEW m \in Drafts, NEW ev \in Events
    PROVE  LET n == [m EXCEPT !.sent = Append(@, ev)]
           IN  /\ n \in Drafts /\ n.sent = Append(m.sent, ev) /\ n.items = m.items
               /\ n.think = m.think /\ n.say = m.say
<1>1. PICK s : s = Append(m.sent, ev)
  OBVIOUS
<1>2. s \in Seq(Events)
  BY <1>1, AppendProperties DEF Drafts
<1>3. [m EXCEPT !.sent = Append(@, ev)] = [m EXCEPT !.sent = s]
  BY <1>1
<1>4. LET n == [m EXCEPT !.sent = s]
      IN  /\ n \in Drafts /\ n.sent = s /\ n.items = m.items
          /\ n.think = m.think /\ n.say = m.say
  BY <1>2 DEF Drafts
<1> QED BY <1>1, <1>3, <1>4

LEMMA ItemsTyped ==
    ASSUME NEW m \in Drafts, NEW items \in Seq(Items)
    PROVE  LET n == [m EXCEPT !.items = items]
           IN  /\ n \in Drafts /\ n.items = items /\ n.sent = m.sent
               /\ n.think = m.think /\ n.say = m.say
BY DEF Drafts

Fresh(kind, d) ==
    [kind |-> kind, choice |-> d.choice, pieces |-> 0,
     tool |-> IF kind = "call" THEN d.call.tool ELSE NoCall,
     named |-> FALSE, args |-> "none", status |-> "in_progress"]

LEMMA FreshTyped ==
    ASSUME NEW kind \in Kinds, NEW d \in Deltas, kind = "call" => d.call # NoCall
    PROVE  /\ Fresh(kind, d) \in Items
           /\ Fresh(kind, d).kind = kind /\ Fresh(kind, d).choice = d.choice
           /\ Fresh(kind, d).pieces = 0 /\ Fresh(kind, d).status = "in_progress"
<1>1. d.choice \in Choices /\ (kind = "call" => d.call.tool \in Tools)
  BY DeltaTyped DEF Calls
<1> QED BY <1>1 DEF Fresh, Items

LEMMA OpenGood ==
    ASSUME NEW m, NEW c, Good(m, c), NEW kind \in Kinds, NEW d \in Deltas,
           kind = "call" => d.call # NoCall
    PROVE  /\ Good(Open(m, kind, d), c)
           /\ Open(m, kind, d).items = Append(m.items, Fresh(kind, d))
           /\ Open(m, kind, d).think = m.think /\ Open(m, kind, d).say = m.say
<1> DEFINE i == Len(m.items) + 1
           ev == [Event("added", i) EXCEPT !.kind = kind]
           more == Append(m.items, Fresh(kind, d))
           opened == [m EXCEPT !.items = more, !.sent = Append(@, ev)]
<1>1. m \in Drafts /\ i \in Nat /\ m.items \in Seq(Items) /\ m.sent \in Seq(Events)
  BY DraftTyped DEF Good
<1>2. more \in Seq(Items)
  BY <1>1, FreshTyped, AppendProperties
<1>3. ev \in Events /\ Event("part", i) \in Events
  BY <1>1 DEF Event, Events, Names
<1>4. /\ opened \in Drafts /\ opened.sent = Append(m.sent, ev) /\ opened.items = more
      /\ opened.think = m.think /\ opened.say = m.say
  <2>1. PICK s : s = Append(m.sent, ev)
    OBVIOUS
  <2>2. PICK t : t = more
    OBVIOUS
  <2>3. s \in Seq(Events) /\ t \in Seq(Items)
    BY <1>1, <1>2, <1>3, <2>1, <2>2, AppendProperties
  <2>4. opened = [m EXCEPT !.items = t, !.sent = s]
    BY <2>1, <2>2
  <2>5. LET n == [m EXCEPT !.items = t, !.sent = s]
        IN  /\ n \in Drafts /\ n.sent = s /\ n.items = t /\ n.think = m.think /\ n.say = m.say
    BY <1>1, <2>3 DEF Drafts
  <2> QED BY <2>1, <2>2, <2>4, <2>5
<1>5. Open(m, kind, d) = IF kind = "call" THEN opened ELSE [opened EXCEPT !.sent = Append(@, Event("part", i))]
  BY DEF Open, Emit, Fresh
<1>6. /\ kind = "call" => Announced(more, Append(m.sent, ev), c)
      /\ kind # "call" => Announced(more, Append(Append(m.sent, ev), Event("part", i)), c)
  <2>1. Announced(m.items, m.sent, c)
    BY DEF Good
  <2>2. Fresh(kind, d) \in Items /\ Fresh(kind, d).kind = kind /\ Fresh(kind, d).pieces = 0
        /\ Fresh(kind, d).status = "in_progress"
    BY FreshTyped
  <2> QED BY <1>1, <2>1, <2>2, Adding
<1> HIDE DEF opened, more, ev, i
<1>7. CASE kind = "call"
  BY <1>4, <1>5, <1>6, <1>7 DEF Good, more
<1>8. CASE kind # "call"
  <2>1. LET n == [opened EXCEPT !.sent = Append(@, Event("part", i))]
        IN  /\ n \in Drafts /\ n.sent = Append(Append(m.sent, ev), Event("part", i)) /\ n.items = more
            /\ n.think = m.think /\ n.say = m.say
    BY <1>3, <1>4, SentTyped
  <2> QED BY <1>5, <1>6, <1>8, <2>1 DEF Good, more
<1> QED BY <1>7, <1>8

LEMMA ExtendGood ==
    ASSUME NEW m, NEW c, Good(m, c), NEW i \in DOMAIN m.items, m.items[i].status = "in_progress"
    PROVE  /\ Good(Extend(m, i), c)
           /\ Extend(m, i).items = [m.items EXCEPT ![i].pieces = @ + 1]
           /\ Extend(m, i).think = m.think /\ Extend(m, i).say = m.say
<1>1. m \in Drafts /\ m.items \in Seq(Items) /\ m.sent \in Seq(Events) /\ i \in Nat /\ m.items[i] \in Items
  BY DraftTyped DEF Good
<1>2. PICK more : more = [m.items EXCEPT ![i].pieces = @ + 1]
  OBVIOUS
<1>3. more \in Seq(Items)
  <2>1. PICK y \in Items : y = m.items[i]
    BY <1>1
  <2>2. PICK n \in Nat : n = y.pieces + 1
    BY DEF Items
  <2>3. PICK z \in Items : z = [y EXCEPT !.pieces = n]
    BY DEF Items
  <2>4. more = [m.items EXCEPT ![i] = z]
    BY <1>2, <2>1, <2>2, <2>3
  <2> QED BY <1>1, <2>4, ExceptSeq
<1>4. PICK ev \in Events : ev = Event("delta", i)
  BY <1>1, EventTyped DEF Names
<1>5. Announced(more, Append(m.sent, ev), c)
  BY <1>1, <1>2, <1>4, Extending DEF Good
<1>6. PICK n : n = [m EXCEPT !.items = more]
  OBVIOUS
<1>7. n \in Drafts /\ n.items = more /\ n.sent = m.sent /\ n.think = m.think /\ n.say = m.say
  BY <1>1, <1>3, <1>6, ItemsTyped
<1>8. Extend(m, i) = [n EXCEPT !.sent = Append(@, ev)]
  BY <1>2, <1>4, <1>6 DEF Extend, Emit
<1>9. /\ Extend(m, i) \in Drafts /\ Extend(m, i).sent = Append(m.sent, ev)
      /\ Extend(m, i).items = more /\ Extend(m, i).think = m.think /\ Extend(m, i).say = m.say
  BY <1>7, <1>8, SentTyped
<1> QED BY <1>2, <1>5, <1>9 DEF Good

LEMMA CloseGood ==
    ASSUME NEW m, NEW c, Good(m, c), NEW i \in DOMAIN m.items \cup {0},
           NEW status \in {"completed", "incomplete"}
    PROVE  LET n == Close(m, i, status)
           IN  /\ Good(n, c) /\ n.think = m.think /\ n.say = m.say
               /\ Len(n.items) = Len(m.items) /\ DOMAIN n.items = DOMAIN m.items
               /\ \A j \in DOMAIN m.items :
                     /\ n.items[j].kind = m.items[j].kind /\ n.items[j].choice = m.items[j].choice
                     /\ n.items[j].named = m.items[j].named /\ n.items[j].args = m.items[j].args
                     /\ n.items[j].status = IF j = i /\ m.items[j].status = "in_progress"
                                            THEN status ELSE m.items[j].status
<1>1. m \in Drafts /\ m.items \in Seq(Items) /\ m.sent \in Seq(Events)
  BY DraftTyped DEF Good
<1>2. CASE i = 0 \/ m.items[i].status # "in_progress"
  <2>1. Close(m, i, status) = m
    BY <1>2 DEF Close
  <2> QED BY <1>1, <1>2, <2>1, DraftTyped
<1>3. CASE ~(i = 0 \/ m.items[i].status # "in_progress")
  <2>1. i \in DOMAIN m.items /\ i \in Nat /\ i # 0 /\ m.items[i] \in Items /\ m.items[i].status = "in_progress"
    BY <1>1, <1>3, DraftTyped
  <2>2. PICK more : more = [m.items EXCEPT ![i].status = status]
    OBVIOUS
  <2>3. more \in Seq(Items)
    <3>1. PICK y \in Items : y = m.items[i]
      BY <2>1
    <3>2. PICK z \in Items : z = [y EXCEPT !.status = status]
      BY DEF Items
    <3>3. more = [m.items EXCEPT ![i] = z]
      BY <2>2, <3>1, <3>2
    <3> QED BY <1>1, <2>1, <3>3, ExceptSeq
  <2>4. PICK part \in Events : part = Event("part_done", i)
    BY <2>1, EventTyped DEF Names
  <2>5. PICK ev \in Events : ev = [Event("done", i) EXCEPT !.status = status]
    BY <2>1 DEF Event, Events, Names, Ends
  <2>6. PICK told : told = IF m.items[i].kind # "call" \/ status = "completed"
                           THEN [m EXCEPT !.sent = Append(@, part)] ELSE m
    OBVIOUS
  <2>7. /\ told \in Drafts /\ told.items = m.items /\ told.think = m.think /\ told.say = m.say
        /\ told.sent = IF m.items[i].kind # "call" \/ status = "completed"
                       THEN Append(m.sent, part) ELSE m.sent
    BY <1>1, <2>4, <2>6, SentTyped
  <2>8. Announced(more, Append(told.sent, ev), c)
    BY <1>1, <2>1, <2>2, <2>4, <2>5, <2>7, Closing DEF Good
  <2>9. Close(m, i, status) = [told EXCEPT !.items = more, !.sent = Append(@, ev)]
    <3>1. [told EXCEPT !.items[i].status = status, !.sent = Append(@, ev)]
             = [told EXCEPT !.items = [told.items EXCEPT ![i].status = status], !.sent = Append(@, ev)]
      OBVIOUS
    <3>2. Close(m, i, status) = [told EXCEPT !.items[i].status = status, !.sent = Append(@, ev)]
      BY <2>1, <2>4, <2>5, <2>6 DEF Close, Emit
    <3> QED BY <2>2, <2>7, <3>1, <3>2
  <2>10. PICK s : s = Append(told.sent, ev)
    OBVIOUS
  <2>11. s \in Seq(Events)
    BY <2>7, <2>10, AppendProperties DEF Drafts
  <2>12. Close(m, i, status) = [told EXCEPT !.items = more, !.sent = s]
    BY <2>9, <2>10
  <2>13. LET n == [told EXCEPT !.items = more, !.sent = s]
         IN  /\ n \in Drafts /\ n.items = more /\ n.sent = s /\ n.think = m.think /\ n.say = m.say
    BY <2>3, <2>7, <2>11 DEF Drafts
  <2>14. PICK n : n = Close(m, i, status)
    OBVIOUS
  <2>15. Good(n, c) /\ n.items = more /\ n.think = m.think /\ n.say = m.say
    BY <2>8, <2>10, <2>12, <2>13, <2>14 DEF Good
  <2>16. Len(more) = Len(m.items) /\ DOMAIN more = DOMAIN m.items
    <3>1. DOMAIN more = DOMAIN m.items
      BY <2>2
    <3>2. /\ DOMAIN m.items = 1..Len(m.items) /\ Len(m.items) \in Nat
          /\ DOMAIN more = 1..Len(more) /\ Len(more) \in Nat
      BY <1>1, <2>3, LenProperties
    <3> QED BY <3>1, <3>2
  <2>17. ASSUME NEW j \in DOMAIN m.items
         PROVE  /\ more[j].kind = m.items[j].kind /\ more[j].choice = m.items[j].choice
                /\ more[j].named = m.items[j].named /\ more[j].args = m.items[j].args
                /\ more[j].status = IF j = i THEN status ELSE m.items[j].status
    <3>1. m.items[j] \in Items
      BY <1>1, DraftTyped
    <3> QED BY <2>2, <3>1 DEF Items
  <2> QED BY <2>1, <2>14, <2>15, <2>16, <2>17
<1> QED BY <1>2, <1>3

\* Only what Ordered looks at matters to it.
LEMMA SameOrder ==
    ASSUME NEW m, NEW n, Ordered(m), DOMAIN n.items = DOMAIN m.items,
           n.think = m.think, n.say = m.say,
           \A i \in DOMAIN m.items : /\ n.items[i].kind = m.items[i].kind
                                     /\ n.items[i].choice = m.items[i].choice
                                     /\ n.items[i].status = m.items[i].status
    PROVE  Ordered(n)
<1>1. ASSUME NEW c \in Choices, OpenTool(m, c) PROVE OpenTool(n, c)
  BY <1>1 DEF OpenTool
<1>2. Current(n)
  BY DEF Ordered, Current
<1>3. ASSUME NEW c, OpenTool(m, c) PROVE OpenTool(n, c)
  BY <1>3 DEF OpenTool
<1>4. Tidy(n)
  BY <1>3 DEF Ordered, Tidy
<1> QED BY <1>2, <1>4 DEF Ordered

\* A new item of a choice, the others of which are closed unless they are calls.
LEMMA NewItem ==
    ASSUME NEW m \in Drafts, Ordered(m), NEW n \in Drafts, NEW c \in Choices,
           NEW i, i = Len(m.items) + 1, Len(n.items) = i,
           \A j \in DOMAIN m.items :
               /\ n.items[j].kind = m.items[j].kind /\ n.items[j].choice = m.items[j].choice
               /\ m.items[j].choice # c \/ m.items[j].kind = "call" =>
                     n.items[j].status = m.items[j].status
               /\ m.items[j].choice = c /\ m.items[j].kind # "call" =>
                     n.items[j].status = "completed",
           n.items[i].choice = c, n.items[i].status = "in_progress",
           n.items[i].kind = "reasoning" => \A j \in DOMAIN m.items : m.items[j].choice # c,
           \A b \in Choices \ {c} : n.think[b] = m.think[b] /\ n.say[b] = m.say[b],
           n.think[c] = (IF n.items[i].kind = "reasoning" THEN i ELSE 0),
           n.say[c] = (IF n.items[i].kind = "text" THEN i ELSE 0)
    PROVE  Ordered(n)
<1>1. /\ i \in Nat /\ i > 0 /\ DOMAIN m.items = 1..(i - 1) /\ DOMAIN n.items = 1..i
      /\ n.items[i].kind \in Kinds
      /\ \A j \in 1..(i - 1) : m.items[j] \in Items
  <2>1. i \in Nat /\ i > 0 /\ DOMAIN m.items = 1..(i - 1) /\ DOMAIN n.items = 1..i
    BY DraftTyped
  <2>2. n.items[i] \in Items /\ \A j \in 1..(i - 1) : m.items[j] \in Items
    BY <2>1, DraftTyped
  <2> QED BY <2>1, <2>2 DEF Items
<1>2. ASSUME NEW b \in Choices
      PROVE  /\ n.think[b] # 0 => /\ n.think[b] \in DOMAIN n.items
                                  /\ n.items[n.think[b]].kind = "reasoning"
                                  /\ n.items[n.think[b]].choice = b
                                  /\ n.items[n.think[b]].status = "in_progress"
             /\ n.say[b] # 0 => /\ n.say[b] \in DOMAIN n.items
                                /\ n.items[n.say[b]].kind = "text"
                                /\ n.items[n.say[b]].choice = b
                                /\ n.items[n.say[b]].status = "in_progress"
             /\ n.think[b] = 0 \/ n.say[b] = 0
  <2>1. CASE b = c
    BY <1>1, <2>1
  <2>2. CASE b # c
    <3>1. n.think[b] = m.think[b] /\ n.say[b] = m.say[b]
      BY <2>2
    <3>2. m.think[b] # 0 => /\ m.think[b] \in 1..(i - 1)
                            /\ m.items[m.think[b]].kind = "reasoning"
                            /\ m.items[m.think[b]].choice = b
                            /\ m.items[m.think[b]].status = "in_progress"
      BY <1>1 DEF Ordered, Current
    <3>3. m.say[b] # 0 => /\ m.say[b] \in 1..(i - 1)
                          /\ m.items[m.say[b]].kind = "text"
                          /\ m.items[m.say[b]].choice = b
                          /\ m.items[m.say[b]].status = "in_progress"
      BY <1>1 DEF Ordered, Current
    <3>4. m.think[b] = 0 \/ m.say[b] = 0
      BY DEF Ordered, Current
    <3>5. \A k \in 1..(i - 1) : k \in 1..i
      BY <1>1
    <3>6. ASSUME NEW k \in 1..(i - 1), m.items[k].choice = b
          PROVE  k \in DOMAIN n.items /\ n.items[k].kind = m.items[k].kind
                 /\ n.items[k].choice = b /\ n.items[k].status = m.items[k].status
      BY <1>1, <2>2, <3>5, <3>6
    <3>7. n.think[b] # 0 => /\ n.think[b] \in DOMAIN n.items
                            /\ n.items[n.think[b]].kind = "reasoning"
                            /\ n.items[n.think[b]].choice = b
                            /\ n.items[n.think[b]].status = "in_progress"
      <4>1. SUFFICES ASSUME n.think[b] # 0
                     PROVE  /\ n.think[b] \in DOMAIN n.items
                            /\ n.items[n.think[b]].kind = "reasoning"
                            /\ n.items[n.think[b]].choice = b
                            /\ n.items[n.think[b]].status = "in_progress"
        OBVIOUS
      <4>2. PICK k \in 1..(i - 1) : /\ k = n.think[b] /\ m.items[k].kind = "reasoning"
                                    /\ m.items[k].choice = b /\ m.items[k].status = "in_progress"
        BY <3>1, <3>2, <4>1
      <4> QED BY <3>6, <4>2
    <3>8. n.say[b] # 0 => /\ n.say[b] \in DOMAIN n.items
                          /\ n.items[n.say[b]].kind = "text"
                          /\ n.items[n.say[b]].choice = b
                          /\ n.items[n.say[b]].status = "in_progress"
      <4>1. SUFFICES ASSUME n.say[b] # 0
                     PROVE  /\ n.say[b] \in DOMAIN n.items
                            /\ n.items[n.say[b]].kind = "text"
                            /\ n.items[n.say[b]].choice = b
                            /\ n.items[n.say[b]].status = "in_progress"
        OBVIOUS
      <4>2. PICK k \in 1..(i - 1) : /\ k = n.say[b] /\ m.items[k].kind = "text"
                                    /\ m.items[k].choice = b /\ m.items[k].status = "in_progress"
        BY <3>1, <3>3, <4>1
      <4> QED BY <3>6, <4>2
    <3> QED BY <3>1, <3>4, <3>7, <3>8
  <2> QED BY <2>1, <2>2
<1>3. Current(n)
  BY <1>2 DEF Current
<1>4. n.think[c] # 0 \/ n.say[c] # 0 \/ OpenTool(n, c)
  <2>1. i \in DOMAIN n.items /\ i # 0
    BY <1>1
  <2> QED BY <1>1, <2>1 DEF OpenTool, Kinds
<1>5. ASSUME NEW j \in DOMAIN n.items
      PROVE  /\ n.items[j].status = "in_progress" =>
                   \/ n.items[j].kind = "call"
                   \/ j = n.think[n.items[j].choice] \/ j = n.say[n.items[j].choice]
             /\ n.items[j].kind = "call" => n.items[j].status = "in_progress"
             /\ n.items[j].status # "incomplete"
             /\ \/ n.think[n.items[j].choice] # 0 \/ n.say[n.items[j].choice] # 0
                \/ OpenTool(n, n.items[j].choice)
             /\ \A k \in DOMAIN n.items :
                   j < k /\ n.items[k].choice = n.items[j].choice => n.items[k].kind # "reasoning"
  <2>1. CASE j = i
    <3>1. \A k \in DOMAIN n.items : ~(j < k)
      BY <1>1, <2>1
    <3> QED BY <1>1, <1>4, <2>1, <3>1 DEF Kinds
  <2>2. CASE j # i
    <3>1. j \in DOMAIN m.items /\ j \in 1..(i - 1) /\ m.items[j] \in Items
      BY <1>1, <2>2
    <3>2. PICK b \in Choices : b = m.items[j].choice /\ b = n.items[j].choice
      BY <3>1 DEF Items
    <3>3. /\ m.items[j].status = "in_progress" =>
                m.items[j].kind = "call" \/ j = m.think[b] \/ j = m.say[b]
          /\ m.items[j].kind = "call" => m.items[j].status = "in_progress"
          /\ m.items[j].status # "incomplete"
          /\ m.think[b] # 0 \/ m.say[b] # 0 \/ OpenTool(m, b)
          /\ \A k \in DOMAIN m.items :
                j < k /\ m.items[k].choice = b => m.items[k].kind # "reasoning"
      BY <3>1, <3>2 DEF Ordered, Tidy
    <3>4. ASSUME NEW k \in DOMAIN n.items, j < k, n.items[k].choice = b
          PROVE  n.items[k].kind # "reasoning"
      <4>1. CASE k = i
        BY <3>1, <3>2, <3>4, <4>1
      <4>2. CASE k # i
        <5>1. k \in DOMAIN m.items
          BY <1>1, <4>2
        <5> QED BY <3>3, <3>4, <5>1
      <4> QED BY <4>1, <4>2
    <3>5. CASE b = c
      <4>1. m.items[j].kind # "call" => n.items[j].status = "completed"
        BY <3>1, <3>2, <3>5
      <4>2. m.items[j].kind = "call" => n.items[j].status = "in_progress"
        BY <3>1, <3>3
      <4>3. n.items[j].kind = m.items[j].kind
        BY <3>1
      <4>4. n.think[n.items[j].choice] # 0 \/ n.say[n.items[j].choice] # 0 \/ OpenTool(n, n.items[j].choice)
        BY <1>4, <3>2, <3>5
      <4> QED BY <3>2, <3>4, <4>1, <4>2, <4>3, <4>4
    <3>6. CASE b # c
      <4>1. n.think[b] = m.think[b] /\ n.say[b] = m.say[b]
        BY <3>6
      <4>2. OpenTool(m, b) => OpenTool(n, b)
        <5>1. SUFFICES ASSUME OpenTool(m, b) PROVE OpenTool(n, b)
          OBVIOUS
        <5>2. PICK k \in DOMAIN m.items : /\ m.items[k].kind = "call" /\ m.items[k].choice = b
                                          /\ m.items[k].status = "in_progress"
          BY <5>1 DEF OpenTool
        <5>3. k \in DOMAIN n.items
          BY <1>1
        <5> QED BY <3>6, <5>2, <5>3 DEF OpenTool
      <4> QED BY <3>1, <3>2, <3>3, <3>4, <3>6, <4>1, <4>2
    <3> QED BY <3>5, <3>6
  <2> QED BY <2>1, <2>2
<1>6. Tidy(n)
  BY <1>5 DEF Tidy
<1> QED BY <1>3, <1>6 DEF Ordered

\* Extending or naming an item changes nothing about its order.
LEMMA ExtendKeeps ==
    ASSUME NEW m, NEW c, Good(m, c), Ordered(m),
           NEW i \in DOMAIN m.items, m.items[i].status = "in_progress"
    PROVE  /\ Good(Extend(m, i), c) /\ Ordered(Extend(m, i))
           /\ Len(Extend(m, i).items) = Len(m.items) /\ DOMAIN Extend(m, i).items = DOMAIN m.items
           /\ Extend(m, i).think = m.think /\ Extend(m, i).say = m.say
<1>1. m \in Drafts
  BY DEF Good
<1>2. /\ Good(Extend(m, i), c)
      /\ Extend(m, i).items = [m.items EXCEPT ![i].pieces = @ + 1]
      /\ Extend(m, i).think = m.think /\ Extend(m, i).say = m.say
  BY ExtendGood
<1>3. DOMAIN Extend(m, i).items = DOMAIN m.items
  BY <1>2
<1>4. ASSUME NEW j \in DOMAIN m.items
      PROVE  /\ Extend(m, i).items[j].kind = m.items[j].kind
             /\ Extend(m, i).items[j].choice = m.items[j].choice
             /\ Extend(m, i).items[j].status = m.items[j].status
  <2>1. m.items[j] \in Items /\ m.items[i] \in Items
    BY <1>1, DraftTyped
  <2> QED BY <1>2, <2>1 DEF Items
<1>5. Ordered(Extend(m, i))
  BY <1>2, <1>3, <1>4, SameOrder
<1>6. Len(Extend(m, i).items) = Len(m.items)
  <2>1. Extend(m, i) \in Drafts
    BY <1>2 DEF Good
  <2>2. /\ DOMAIN m.items = 1..Len(m.items) /\ Len(m.items) \in Nat
        /\ DOMAIN Extend(m, i).items = 1..Len(Extend(m, i).items) /\ Len(Extend(m, i).items) \in Nat
    BY <1>1, <2>1, DraftTyped
  <2> QED BY <1>3, <2>2
<1> QED BY <1>2, <1>3, <1>5, <1>6

\* think and say are pointers no event tells of.
Thinking(m, b, i) == [m EXCEPT !.think[b] = i]
Saying(m, b, i) == [m EXCEPT !.say[b] = i]

LEMMA ThinkTyped ==
    ASSUME NEW m, NEW c, Good(m, c), NEW b \in Choices, NEW i \in Nat
    PROVE  /\ Good(Thinking(m, b, i), c)
           /\ Thinking(m, b, i).items = m.items /\ Thinking(m, b, i).say = m.say
           /\ Thinking(m, b, i).think = [m.think EXCEPT ![b] = i]
<1>1. m \in Drafts /\ Announced(m.items, m.sent, c)
  BY DEF Good
<1>2. PICK think : think = [m.think EXCEPT ![b] = i]
  OBVIOUS
<1>3. think \in [Choices -> Nat]
  BY <1>1, <1>2 DEF Drafts
<1>4. PICK n : n = Thinking(m, b, i)
  OBVIOUS
<1>5. n = [m EXCEPT !.think = think]
  BY <1>2, <1>4 DEF Thinking
<1>6. n \in Drafts /\ n.items = m.items /\ n.sent = m.sent /\ n.say = m.say /\ n.think = think
  BY <1>1, <1>3, <1>5 DEF Drafts
<1>7. Good(n, c)
  BY <1>1, <1>6 DEF Good
<1> QED BY <1>2, <1>4, <1>6, <1>7

LEMMA SayTyped ==
    ASSUME NEW m, NEW c, Good(m, c), NEW b \in Choices, NEW i \in Nat
    PROVE  /\ Good(Saying(m, b, i), c)
           /\ Saying(m, b, i).items = m.items /\ Saying(m, b, i).think = m.think
           /\ Saying(m, b, i).say = [m.say EXCEPT ![b] = i]
<1>1. m \in Drafts /\ Announced(m.items, m.sent, c)
  BY DEF Good
<1>2. PICK say : say = [m.say EXCEPT ![b] = i]
  OBVIOUS
<1>3. say \in [Choices -> Nat]
  BY <1>1, <1>2 DEF Drafts
<1>4. PICK n : n = Saying(m, b, i)
  OBVIOUS
<1>5. n = [m EXCEPT !.say = say]
  BY <1>2, <1>4 DEF Saying
<1>6. n \in Drafts /\ n.items = m.items /\ n.sent = m.sent /\ n.think = m.think /\ n.say = say
  BY <1>1, <1>3, <1>5 DEF Drafts
<1>7. Good(n, c)
  BY <1>1, <1>6 DEF Good
<1> QED BY <1>2, <1>4, <1>6, <1>7

LEMMA WithReasonKeeps ==
    ASSUME NEW m, NEW c, Good(m, c), Ordered(m), NEW d \in Deltas, ~OutOfOrder(m, d)
    PROVE  Good(WithReason(m, d), c) /\ Ordered(WithReason(m, d))
<1>1. m \in Drafts /\ d.choice \in Choices /\ d.reason \in BOOLEAN
  BY DeltaTyped DEF Good
<1>2. CASE ~d.reason
  BY <1>2 DEF WithReason
<1>3. CASE d.reason /\ m.think[d.choice] # 0
  <2>1. m.think[d.choice] \in DOMAIN m.items /\ m.items[m.think[d.choice]].status = "in_progress"
    BY <1>1, <1>3 DEF Ordered, Current
  <2> QED BY <1>3, <2>1, ExtendKeeps DEF WithReason
<1>4. CASE d.reason /\ m.think[d.choice] = 0
  <2>1. PICK i : i = Len(m.items) + 1
    OBVIOUS
  <2>2. PICK o : o = Open(m, "reasoning", d)
    OBVIOUS
  <2>3. Good(o, c) /\ o.items = Append(m.items, Fresh("reasoning", d)) /\ o.think = m.think /\ o.say = m.say
    BY <2>2, OpenGood DEF Kinds
  <2>4. PICK n : n = [o EXCEPT !.think[d.choice] = i]
    OBVIOUS
  <2>5. i \in Nat /\ DOMAIN m.items = 1..(i - 1) /\ m.items \in Seq(Items)
    BY <1>1, <2>1, DraftTyped
  <2>6. /\ Good(n, c) /\ n.items = o.items /\ n.say = m.say /\ n.think[d.choice] = i
        /\ \A e \in Choices \ {d.choice} : n.think[e] = m.think[e]
    <3>1. n = Thinking(o, d.choice, i)
      BY <2>4 DEF Thinking
    <3>2. Good(o, c) /\ o \in Drafts /\ d.choice \in Choices /\ i \in Nat
      BY <1>1, <2>3, <2>5 DEF Good
    <3>3. /\ Good(Thinking(o, d.choice, i), c)
          /\ Thinking(o, d.choice, i).items = o.items
          /\ Thinking(o, d.choice, i).say = o.say
          /\ Thinking(o, d.choice, i).think = [o.think EXCEPT ![d.choice] = i]
      BY <3>2, ThinkTyped
    <3>4. o.think \in [Choices -> Nat]
      BY <3>2, DraftTyped
    <3> QED BY <2>3, <3>1, <3>2, <3>3, <3>4
  <2>7. /\ Fresh("reasoning", d) \in Items /\ Fresh("reasoning", d).kind = "reasoning"
        /\ Fresh("reasoning", d).choice = d.choice /\ Fresh("reasoning", d).status = "in_progress"
    BY FreshTyped DEF Kinds
  <2>8. /\ Len(n.items) = i /\ n.items[i] = Fresh("reasoning", d)
        /\ \A j \in 1..(i - 1) : n.items[j] = m.items[j]
    BY <2>1, <2>3, <2>5, <2>6, <2>7, AppendProperties
  <2>9. \A j \in DOMAIN m.items : m.items[j].choice # d.choice
    <3>1. m.say[d.choice] = 0 /\ ~OpenTool(m, d.choice)
      BY <1>4 DEF OutOfOrder
    <3> QED BY <1>4, <3>1 DEF Ordered, Tidy
  <2>10. Ordered(n)
    <3>1. n \in Drafts
      BY <2>6 DEF Good
    <3>2. n.say[d.choice] = 0
      BY <1>4, <2>6 DEF OutOfOrder
    <3>3. /\ Len(n.items) = i /\ n.items[i].choice = d.choice /\ n.items[i].status = "in_progress"
          /\ n.items[i].kind = "reasoning"
      BY <2>7, <2>8
    <3>4. \A j \in DOMAIN m.items : n.items[j] = m.items[j] /\ m.items[j].choice # d.choice
      BY <2>5, <2>8, <2>9
    <3>5. n.think[d.choice] = i /\ \A e \in Choices \ {d.choice} : n.think[e] = m.think[e] /\ n.say[e] = m.say[e]
      BY <2>6
    <3> QED BY <1>1, <2>1, <3>1, <3>2, <3>3, <3>4, <3>5, NewItem
  <2>11. i \in DOMAIN n.items /\ n.items[i].status = "in_progress"
    <3>1. n \in Drafts
      BY <2>6 DEF Good
    <3>2. i > 0
      BY <1>1, <2>1, DraftTyped
    <3> QED BY <2>5, <2>7, <2>8, <3>1, <3>2, DraftTyped
  <2>12. WithReason(m, d) = Extend(n, i)
    BY <1>4, <2>1, <2>2, <2>4 DEF WithReason
  <2> QED BY <2>6, <2>10, <2>11, <2>12, ExtendKeeps
<1> QED BY <1>1, <1>2, <1>3, <1>4

LEMMA WithTextKeeps ==
    ASSUME NEW m, NEW c, Good(m, c), Ordered(m), NEW d \in Deltas
    PROVE  Good(WithText(m, d), c) /\ Ordered(WithText(m, d))
<1>1. m \in Drafts /\ d.choice \in Choices
  BY DeltaTyped DEF Good
<1>2. CASE ~HasText(m, d)
  BY <1>2 DEF WithText
<1>3. CASE HasText(m, d) /\ m.say[d.choice] # 0
  <2>1. m.say[d.choice] \in DOMAIN m.items /\ m.items[m.say[d.choice]].status = "in_progress"
    BY <1>1, <1>3 DEF Ordered, Current
  <2> QED BY <1>3, <2>1, ExtendKeeps DEF WithText
<1>4. CASE HasText(m, d) /\ m.say[d.choice] = 0
  <2>1. PICK i : i = Len(m.items) + 1
    OBVIOUS
  <2>2. i \in Nat /\ i > 0 /\ DOMAIN m.items = 1..(i - 1) /\ m.items \in Seq(Items)
    BY <1>1, <2>1, DraftTyped
  <2>3. m.think[d.choice] \in DOMAIN m.items \cup {0}
    BY <1>1 DEF Ordered, Current
  <2>4. PICK p : p = Close(m, m.think[d.choice], "completed")
    OBVIOUS
  <2>5. /\ Good(p, c) /\ p.think = m.think /\ p.say = m.say
        /\ Len(p.items) = Len(m.items) /\ DOMAIN p.items = DOMAIN m.items
        /\ \A j \in DOMAIN m.items :
              /\ p.items[j].kind = m.items[j].kind /\ p.items[j].choice = m.items[j].choice
              /\ p.items[j].status = IF j = m.think[d.choice] /\ m.items[j].status = "in_progress"
                                     THEN "completed" ELSE m.items[j].status
    BY <2>3, <2>4, CloseGood
  <2>6. PICK q : q = [p EXCEPT !.think[d.choice] = 0]
    OBVIOUS
  <2>7. /\ Good(q, c) /\ q.items = p.items /\ q.say = m.say /\ q.think[d.choice] = 0
        /\ \A e \in Choices \ {d.choice} : q.think[e] = m.think[e]
    <3>1. q = Thinking(p, d.choice, 0)
      BY <2>6 DEF Thinking
    <3>2. Good(p, c) /\ p \in Drafts /\ d.choice \in Choices /\ 0 \in Nat
      BY <1>1, <2>5 DEF Good
    <3>3. /\ Good(Thinking(p, d.choice, 0), c)
          /\ Thinking(p, d.choice, 0).items = p.items
          /\ Thinking(p, d.choice, 0).say = p.say
          /\ Thinking(p, d.choice, 0).think = [p.think EXCEPT ![d.choice] = 0]
      BY <3>2, ThinkTyped
    <3>4. p.think \in [Choices -> Nat]
      BY <3>2, DraftTyped
    <3> QED BY <2>5, <3>1, <3>2, <3>3, <3>4
  <2>8. PICK o : o = Open(q, "text", d)
    OBVIOUS
  <2>9. Good(o, c) /\ o.items = Append(q.items, Fresh("text", d)) /\ o.think = q.think /\ o.say = q.say
    BY <2>7, <2>8, OpenGood DEF Kinds
  <2>10. PICK n : n = [o EXCEPT !.say[d.choice] = i]
    OBVIOUS
  <2>11. /\ Good(n, c) /\ n.items = o.items /\ n.think = q.think /\ n.say[d.choice] = i
         /\ \A e \in Choices \ {d.choice} : n.say[e] = m.say[e]
    <3>1. n = Saying(o, d.choice, i)
      BY <2>10 DEF Saying
    <3>2. Good(o, c) /\ o \in Drafts /\ d.choice \in Choices /\ i \in Nat
      BY <1>1, <2>2, <2>9 DEF Good
    <3>3. /\ Good(Saying(o, d.choice, i), c)
          /\ Saying(o, d.choice, i).items = o.items
          /\ Saying(o, d.choice, i).think = o.think
          /\ Saying(o, d.choice, i).say = [o.say EXCEPT ![d.choice] = i]
      BY <3>2, SayTyped
    <3>4. o.say \in [Choices -> Nat]
      BY <3>2, DraftTyped
    <3> QED BY <2>7, <2>9, <3>1, <3>2, <3>3, <3>4
  <2>12. /\ Fresh("text", d) \in Items /\ Fresh("text", d).kind = "text"
         /\ Fresh("text", d).choice = d.choice /\ Fresh("text", d).status = "in_progress"
    BY FreshTyped DEF Kinds
  <2>13. /\ Len(n.items) = i /\ n.items[i] = Fresh("text", d)
         /\ \A j \in 1..(i - 1) : n.items[j] = p.items[j]
    <3>1. p.items \in Seq(Items)
      BY <2>5, DraftTyped DEF Good
    <3> QED BY <2>1, <2>2, <2>5, <2>7, <2>9, <2>11, <2>12, <3>1, AppendProperties
  <2>14. ASSUME NEW j \in DOMAIN m.items
         PROVE  /\ n.items[j].kind = m.items[j].kind /\ n.items[j].choice = m.items[j].choice
                /\ m.items[j].choice # d.choice \/ m.items[j].kind = "call" =>
                      n.items[j].status = m.items[j].status
                /\ m.items[j].choice = d.choice /\ m.items[j].kind # "call" =>
                      n.items[j].status = "completed"
    <3>1. n.items[j] = p.items[j] /\ m.items[j] \in Items
      BY <1>1, <2>2, <2>13, DraftTyped
    <3>2. j = m.think[d.choice] => m.items[j].kind = "reasoning" /\ m.items[j].choice = d.choice
      BY <1>1, <2>2 DEF Ordered, Current
    <3>3. /\ m.items[j].status \in {"in_progress", "completed"}
          /\ m.items[j].choice = d.choice /\ m.items[j].status = "in_progress" =>
                m.items[j].kind = "call" \/ j = m.think[d.choice]
      BY <1>4, <2>2, <3>1 DEF Ordered, Tidy, Items
    <3> QED BY <2>5, <3>1, <3>2, <3>3
  <2>15. Ordered(n)
    <3>1. n \in Drafts
      BY <2>11 DEF Good
    <3> QED BY <1>1, <2>1, <2>7, <2>11, <2>12, <2>13, <2>14, <3>1, NewItem
  <2>16. i \in DOMAIN n.items /\ n.items[i].status = "in_progress"
    <3>1. n \in Drafts
      BY <2>11 DEF Good
    <3> QED BY <2>2, <2>12, <2>13, <3>1, DraftTyped
  <2>17. WithText(m, d) = Extend(n, i)
    BY <1>4, <2>1, <2>4, <2>6, <2>8, <2>10 DEF WithText
  <2> QED BY <2>11, <2>15, <2>16, <2>17, ExtendKeeps
<1> QED BY <1>2, <1>3, <1>4

\* A call gets its name and more of its arguments.
Dubbed(m, i, named, args) == [m EXCEPT !.items[i].named = named, !.items[i].args = args]

LEMMA DubbedKeeps ==
    ASSUME NEW m, NEW c, Good(m, c), Ordered(m), NEW i \in DOMAIN m.items, NEW named \in BOOLEAN,
           NEW args \in {"none", "head", "whole", "broken"}
    PROVE  /\ Good(Dubbed(m, i, named, args), c) /\ Ordered(Dubbed(m, i, named, args))
           /\ DOMAIN Dubbed(m, i, named, args).items = DOMAIN m.items
           /\ Dubbed(m, i, named, args).items[i].status = m.items[i].status
<1>1. m \in Drafts /\ m.items \in Seq(Items) /\ Announced(m.items, m.sent, c) /\ m.items[i] \in Items
  BY DraftTyped DEF Good
<1>2. PICK y \in Items : y = m.items[i]
  BY <1>1
<1>3. PICK z \in Items : z = [y EXCEPT !.named = named, !.args = args]
  BY DEF Items
<1>4. z.kind = y.kind /\ z.choice = y.choice /\ z.pieces = y.pieces /\ z.status = y.status
  BY <1>3 DEF Items
<1>5. PICK items : items = [m.items EXCEPT ![i] = z]
  OBVIOUS
<1>6. items \in Seq(Items) /\ Len(items) = Len(m.items)
  BY <1>1, <1>5, ExceptSeq
<1>7. PICK n : n = Dubbed(m, i, named, args)
  OBVIOUS
<1>8. n = [m EXCEPT !.items = items]
  <2>1. Dubbed(m, i, named, args) =
           [m EXCEPT !.items = [m.items EXCEPT ![i] = [m.items[i] EXCEPT !.named = named, !.args = args]]]
    BY <1>1 DEF Dubbed, Drafts
  <2> QED BY <1>2, <1>3, <1>5, <1>7, <2>1
<1>9. n \in Drafts /\ n.items = items /\ n.sent = m.sent /\ n.think = m.think /\ n.say = m.say
  BY <1>1, <1>6, <1>8, ItemsTyped
<1>10. DOMAIN items = DOMAIN m.items
  BY <1>5
<1>11. ASSUME NEW j \in DOMAIN m.items
       PROVE  /\ items[j].kind = m.items[j].kind /\ items[j].choice = m.items[j].choice
              /\ items[j].pieces = m.items[j].pieces /\ items[j].status = m.items[j].status
  <2>1. CASE j = i
    BY <1>2, <1>4, <1>5, <2>1
  <2>2. CASE j # i
    BY <1>5, <2>2
  <2> QED BY <2>1, <2>2
<1>12. Announced(items, m.sent, c)
  BY <1>1, <1>6, <1>10, <1>11, Naming
<1>13. Good(n, c)
  BY <1>9, <1>12 DEF Good
<1>14. Ordered(n)
  BY <1>9, <1>10, <1>11, SameOrder
<1> QED BY <1>7, <1>9, <1>10, <1>11, <1>13, <1>14

LEMMA JoinedTyped ==
    ASSUME NEW args \in {"none", "head", "whole", "broken"}, NEW more \in {"no", "head", "tail", "object"}
    PROVE  Joined(args, more) \in {"none", "head", "whole", "broken"}
BY DEF Joined

\* The draft when the open items of choice c are closed.
Quieted(m, c) == [Close(Close(m, m.think[c], "completed"), m.say[c], "completed")
                     EXCEPT !.think[c] = 0, !.say[c] = 0]

\* The call i gets its delta.
Called(base, i, d) ==
    LET named == [base EXCEPT !.items[i].named = @ \/ d.call.named,
                              !.items[i].args = Joined(@, d.call.args)]
    IN  IF d.call.args = "no" THEN named ELSE Extend(named, i)

\* The item of a new call, after the open items of its choice are closed.
LEMMA CallOpened ==
    ASSUME NEW m, NEW c, Good(m, c), Ordered(m), NEW d \in Deltas, d.call # NoCall,
           NEW q, q = Quieted(m, d.choice)
    PROVE  /\ Good(Open(q, "call", d), c) /\ Ordered(Open(q, "call", d))
           /\ Len(m.items) + 1 \in DOMAIN Open(q, "call", d).items
           /\ Open(q, "call", d).items[Len(m.items) + 1].status = "in_progress"
<1>1. m \in Drafts /\ d.choice \in Choices
  BY DeltaTyped DEF Good
<1>2. PICK i : i = Len(m.items) + 1
  OBVIOUS
<1>3. i \in Nat /\ i > 0 /\ DOMAIN m.items = 1..(i - 1) /\ m.items \in Seq(Items)
  BY <1>1, <1>2, DraftTyped
<1>4. /\ m.think[d.choice] \in DOMAIN m.items \cup {0} /\ m.say[d.choice] \in DOMAIN m.items \cup {0}
      /\ m.think[d.choice] = 0 \/ m.say[d.choice] = 0
  BY <1>1 DEF Ordered, Current
<1>5. PICK p : p = Close(m, m.think[d.choice], "completed")
  OBVIOUS
<1>6. /\ Good(p, c) /\ p.think = m.think /\ p.say = m.say
      /\ Len(p.items) = Len(m.items) /\ DOMAIN p.items = DOMAIN m.items
      /\ \A j \in DOMAIN m.items :
            /\ p.items[j].kind = m.items[j].kind /\ p.items[j].choice = m.items[j].choice
            /\ p.items[j].status = IF j = m.think[d.choice] /\ m.items[j].status = "in_progress"
                                   THEN "completed" ELSE m.items[j].status
  BY <1>4, <1>5, CloseGood
<1>7. PICK r : r = Close(p, m.say[d.choice], "completed")
  OBVIOUS
<1>8. /\ Good(r, c) /\ r.think = m.think /\ r.say = m.say
      /\ Len(r.items) = Len(m.items) /\ DOMAIN r.items = DOMAIN m.items
      /\ \A j \in DOMAIN m.items :
            /\ r.items[j].kind = m.items[j].kind /\ r.items[j].choice = m.items[j].choice
            /\ r.items[j].status = IF j = m.say[d.choice] /\ p.items[j].status = "in_progress"
                                   THEN "completed" ELSE p.items[j].status
  <2>1. m.say[d.choice] \in DOMAIN p.items \cup {0}
    BY <1>4, <1>6
  <2>2. /\ Good(r, c) /\ r.think = p.think /\ r.say = p.say
        /\ Len(r.items) = Len(p.items) /\ DOMAIN r.items = DOMAIN p.items
        /\ \A j \in DOMAIN p.items :
              /\ r.items[j].kind = p.items[j].kind /\ r.items[j].choice = p.items[j].choice
              /\ r.items[j].status = IF j = m.say[d.choice] /\ p.items[j].status = "in_progress"
                                     THEN "completed" ELSE p.items[j].status
    BY <1>6, <1>7, <2>1, CloseGood
  <2> QED BY <1>6, <2>2
<1>9. PICK t : t = Thinking(r, d.choice, 0)
  OBVIOUS
<1>10. Good(t, c) /\ t.items = r.items /\ t.say = m.say /\ t.think = [m.think EXCEPT ![d.choice] = 0]
  <2>1. Good(r, c) /\ d.choice \in Choices /\ 0 \in Nat
    BY <1>1, <1>8
  <2>2. /\ Good(Thinking(r, d.choice, 0), c) /\ Thinking(r, d.choice, 0).items = r.items
        /\ Thinking(r, d.choice, 0).say = r.say
        /\ Thinking(r, d.choice, 0).think = [r.think EXCEPT ![d.choice] = 0]
    BY <2>1, ThinkTyped
  <2> QED BY <1>8, <1>9, <2>2
<1>11. q = Saying(t, d.choice, 0)
  BY <1>5, <1>7, <1>9 DEF Saying, Thinking, Quieted
<1>12. Good(q, c) /\ q.items = r.items /\ q.think = t.think /\ q.say = [m.say EXCEPT ![d.choice] = 0]
  <2>1. Good(t, c) /\ d.choice \in Choices /\ 0 \in Nat
    BY <1>1, <1>10
  <2>2. /\ Good(Saying(t, d.choice, 0), c) /\ Saying(t, d.choice, 0).items = t.items
        /\ Saying(t, d.choice, 0).think = t.think
        /\ Saying(t, d.choice, 0).say = [t.say EXCEPT ![d.choice] = 0]
    BY <2>1, SayTyped
  <2> QED BY <1>10, <1>11, <2>2
<1>13. PICK n : n = Open(q, "call", d)
  OBVIOUS
<1>14. Good(n, c) /\ n.items = Append(q.items, Fresh("call", d)) /\ n.think = q.think /\ n.say = q.say
  <2>1. "call" \in Kinds /\ Good(q, c) /\ d \in Deltas /\ d.call # NoCall
    BY <1>12 DEF Kinds
  <2>2. /\ Good(Open(q, "call", d), c) /\ Open(q, "call", d).items = Append(q.items, Fresh("call", d))
        /\ Open(q, "call", d).think = q.think /\ Open(q, "call", d).say = q.say
    BY <2>1, OpenGood
  <2> QED BY <1>13, <2>2
<1>15. /\ Fresh("call", d) \in Items /\ Fresh("call", d).kind = "call"
       /\ Fresh("call", d).choice = d.choice /\ Fresh("call", d).status = "in_progress"
  BY FreshTyped DEF Kinds
<1>16. /\ Len(n.items) = i /\ n.items[i] = Fresh("call", d)
       /\ \A j \in 1..(i - 1) : n.items[j] = r.items[j]
  <2>1. r.items \in Seq(Items)
    BY <1>8, DraftTyped DEF Good
  <2> QED BY <1>2, <1>3, <1>8, <1>12, <1>14, <1>15, <2>1, AppendProperties
<1>17. ASSUME NEW j \in DOMAIN m.items
       PROVE  /\ n.items[j].kind = m.items[j].kind /\ n.items[j].choice = m.items[j].choice
              /\ m.items[j].choice # d.choice \/ m.items[j].kind = "call" =>
                    n.items[j].status = m.items[j].status
              /\ m.items[j].choice = d.choice /\ m.items[j].kind # "call" =>
                    n.items[j].status = "completed"
  <2>1. n.items[j] = r.items[j] /\ m.items[j] \in Items
    BY <1>1, <1>3, <1>16, DraftTyped
  <2>2. /\ j = m.think[d.choice] => m.items[j].kind = "reasoning" /\ m.items[j].choice = d.choice
        /\ j = m.say[d.choice] => m.items[j].kind = "text" /\ m.items[j].choice = d.choice
    BY <1>1, <1>3 DEF Ordered, Current
  <2>3. /\ m.items[j].status \in {"in_progress", "completed"}
        /\ m.items[j].choice = d.choice /\ m.items[j].status = "in_progress" =>
              m.items[j].kind = "call" \/ j = m.think[d.choice] \/ j = m.say[d.choice]
    BY <1>3, <2>1 DEF Ordered, Tidy, Items
  <2>4. /\ p.items[j].status = IF j = m.think[d.choice] /\ m.items[j].status = "in_progress"
                               THEN "completed" ELSE m.items[j].status
        /\ r.items[j].status = IF j = m.say[d.choice] /\ p.items[j].status = "in_progress"
                               THEN "completed" ELSE p.items[j].status
        /\ r.items[j].kind = m.items[j].kind /\ r.items[j].choice = m.items[j].choice
    BY <1>6, <1>8
  <2> QED BY <2>1, <2>2, <2>3, <2>4
<1>18. Ordered(n)
  <2>1. n \in Drafts /\ m.think \in [Choices -> Nat] /\ m.say \in [Choices -> Nat]
    BY <1>1, <1>14, DraftTyped DEF Good
  <2>2. /\ n.think[d.choice] = 0 /\ n.say[d.choice] = 0
        /\ \A b \in Choices \ {d.choice} : n.think[b] = m.think[b] /\ n.say[b] = m.say[b]
    BY <1>1, <1>10, <1>12, <1>14, <2>1
  <2>3. n.items[i].choice = d.choice /\ n.items[i].status = "in_progress" /\ n.items[i].kind = "call"
    BY <1>15, <1>16
  <2> QED BY <1>1, <1>2, <1>16, <1>17, <2>1, <2>2, <2>3, NewItem
<1>19. i \in DOMAIN n.items
  <2>1. n \in Drafts
    BY <1>14 DEF Good
  <2> QED BY <1>3, <1>16, <2>1, DraftTyped
<1> QED BY <1>2, <1>13, <1>14, <1>15, <1>16, <1>18, <1>19

LEMMA WithCallKeeps ==
    ASSUME NEW m, NEW c, Good(m, c), Ordered(m), NEW d \in Deltas
    PROVE  Good(WithCall(m, d), c) /\ Ordered(WithCall(m, d))
<1>1. m \in Drafts /\ d.choice \in Choices
  BY DeltaTyped DEF Good
<1>2. CASE d.call = NoCall
  BY <1>2 DEF WithCall
<1>3. CASE d.call # NoCall
  <2>1. d.call.named \in BOOLEAN /\ d.call.args \in {"no", "head", "tail", "object"}
    BY <1>3, DeltaTyped DEF Calls
  <2>2. PICK old : old = CallItem(m, d)
    OBVIOUS
  <2>3. PICK q : q = Quieted(m, d.choice)
    OBVIOUS
  <2>4. PICK b : b = IF old # 0 THEN m ELSE Open(q, "call", d)
    OBVIOUS
  <2>5. PICK i : i = IF old # 0 THEN old ELSE Len(m.items) + 1
    OBVIOUS
  <2>6. Good(b, c) /\ Ordered(b) /\ i \in DOMAIN b.items /\ b.items[i].status = "in_progress"
    <3>1. CASE old = 0
      <4>1. b = Open(q, "call", d) /\ i = Len(m.items) + 1
        BY <2>4, <2>5, <3>1
      <4> QED BY <1>3, <2>3, <4>1, CallOpened
    <3>2. CASE old # 0
      <4>1. old \in {j \in DOMAIN m.items : /\ m.items[j].kind = "call"
                                            /\ m.items[j].choice = d.choice
                                            /\ m.items[j].tool = d.call.tool}
        BY <2>2, <3>2 DEF CallItem
      <4>2. old \in DOMAIN m.items /\ m.items[old].status = "in_progress"
        BY <4>1 DEF Ordered, Tidy
      <4> QED BY <2>4, <2>5, <3>2, <4>2
    <3> QED BY <3>1, <3>2
  <2>7. b.items[i] \in Items
    BY <2>6, DraftTyped DEF Good
  <2>8. PICK named \in BOOLEAN : named = (b.items[i].named \/ d.call.named)
    OBVIOUS
  <2>9. PICK args \in {"none", "head", "whole", "broken"} : args = Joined(b.items[i].args, d.call.args)
    <3>1. b.items[i].args \in {"none", "head", "whole", "broken"}
      BY <2>7 DEF Items
    <3> QED BY <2>1, <3>1, JoinedTyped
  <2>10. PICK n : n = Dubbed(b, i, named, args)
    OBVIOUS
  <2>11. /\ Good(n, c) /\ Ordered(n) /\ i \in DOMAIN n.items /\ n.items[i].status = "in_progress"
    BY <2>6, <2>10, DubbedKeeps
  <2>12. n = [b EXCEPT !.items[i].named = @ \/ d.call.named,
                       !.items[i].args = Joined(@, d.call.args)]
    BY <2>6, <2>7, <2>8, <2>9, <2>10 DEF Dubbed, Items, Good, Drafts
  <2>13. WithCall(m, d) = IF d.call.args = "no" THEN n ELSE Extend(n, i)
    <3>1. WithCall(m, d) =
            Called(IF CallItem(m, d) # 0 THEN m ELSE Open(Quieted(m, d.choice), "call", d),
                   IF CallItem(m, d) # 0 THEN CallItem(m, d) ELSE Len(m.items) + 1, d)
      BY <1>3, Zenon DEF WithCall, Called, Quieted
    <3>2. WithCall(m, d) = Called(b, i, d)
      BY <2>2, <2>3, <2>4, <2>5, <3>1
    <3> QED BY <2>12, <3>2, Zenon DEF Called
  <2>14. Good(Extend(n, i), c) /\ Ordered(Extend(n, i))
    BY <2>11, ExtendKeeps
  <2> QED BY <2>11, <2>13, <2>14
<1> QED BY <1>2, <1>3

\* What a chunk makes of the draft.
LEMMA ConsumeKeeps ==
    ASSUME NEW m, NEW c, Good(m, c), Ordered(m), NEW d \in Deltas, ~OutOfOrder(m, d)
    PROVE  /\ Good(WithCall(WithText(WithReason(m, d), d), d), c)
           /\ Ordered(WithCall(WithText(WithReason(m, d), d), d))
<1>1. Good(WithReason(m, d), c) /\ Ordered(WithReason(m, d))
  BY WithReasonKeeps
<1>2. Good(WithText(WithReason(m, d), d), c) /\ Ordered(WithText(WithReason(m, d), d))
  BY <1>1, WithTextKeeps
<1> QED BY <1>2, WithCallKeeps

----------------------------------------------------------------------------
(* Responses: the invariant                                                *)

\* The reasoning of a choice comes first, and one of its items is open.
Apart(items) ==
    \A i, j \in DOMAIN items :
        i < j /\ items[i].choice = items[j].choice =>
            /\ items[j].kind # "reasoning"
            /\ ~ \A k \in {i, j} : items[k].kind # "call" /\ items[k].status = "in_progress"

Usable(items, status) ==
    status = "completed" =>
        /\ items # <<>>
        /\ \A i \in DOMAIN items : /\ items[i].status # "incomplete"
                                   /\ items[i].kind = "call" =>
                                         items[i].named /\ items[i].args = "whole"

Shut(items) == \A i \in DOMAIN items : items[i].status # "in_progress"

Pointed(m) == \A c \in Choices : m.think[c] <= Len(m.items) /\ m.say[c] <= Len(m.items)

\* The terminal event is on its way, after everything else.
Concluded ==
    /\ made \in Drafts /\ Shut(made.items)
    /\ \E d \in Clients : /\ d.step = outcome /\ Path(client, made.sent, d)
                          /\ Matches(d, made.items)

Underway ==
    /\ made \in Drafts /\ client \in Clients /\ client.step \in Early
    /\ Apart(made.items) /\ Usable(made.items, outcome) /\ Pointed(made)

\* The whole response is with the client.
Delivered ==
    /\ made \in Drafts /\ client \in Clients /\ outcome \in Ends /\ client.step = outcome
    /\ made.sent = <<>> /\ Matches(client, made.items) /\ Shut(made.items)
    /\ Apart(made.items) /\ Usable(made.items, outcome) /\ Pointed(made)

\* An answer that was no stream.
Converted ==
    /\ client = NewClient /\ outcome \in Ends \cup {"error"}
    /\ made.think = NothingMade.think /\ made.say = NothingMade.say /\ Len(made.items) \in Nat
    /\ DOMAIN made.items = 1..Len(made.items)
    /\ \A i \in DOMAIN made.items : made.items[i].status = "completed"
    /\ outcome = "completed" => made.items # <<>>

Telling ==
    /\ phase = "waiting" => made = NothingMade /\ client = NewClient /\ outcome = "none"
    /\ phase = "streaming" => outcome = "none" /\ Good(made, client) /\ Ordered(made)
    /\ phase = "ending" => outcome \in Ends /\ (Good(made, client) \/ Concluded)
    /\ phase \in {"streaming", "ending", "gone"} => Underway
    /\ phase = "over" => Converted \/ Delivered

Counted ==
    /\ phase \in {"waiting", "streaming", "ending", "over", "gone"}
    /\ finished \in [Choices -> Finishes \cup {"unseen"}]
    /\ productive \subseteq Seen
    /\ outcome \in {"none", "completed", "incomplete", "failed", "error"}
    /\ cut \in BOOLEAN /\ events \in Nat

\* The hop behind a response that has come to its end is over.
Linked ==
    /\ phase = "streaming" => reply = "stream"
    /\ phase \in {"ending", "over", "gone"} => at = "ended" /\ mail = "none"

BridgeInv == Telling /\ Counted
IInv == HopInv /\ Linked /\ BridgeInv

----------------------------------------------------------------------------

LEMMA HeardTyped ==
    ASSUME NEW d \in Clients, NEW ev \in Events, Allowed(d, ev)
    PROVE  /\ Heard(d, ev) \in Clients
           /\ ev.e = "terminal" => Heard(d, ev).step = ev.status /\ ev.status \in Ends
                                   /\ Heard(d, ev).items = d.items
           /\ ev.e # "terminal" => Heard(d, ev).step \in Early
<1>1. CASE ev.e \in {"part", "delta", "part_done", "done"}
  <2>1. Heard(d, ev) \in Clients /\ Heard(d, ev).step = d.step
    BY <1>1, HeardOfItem
  <2>2. d.step = "open"
    BY <1>1 DEF Allowed
  <2> QED BY <1>1, <2>1, <2>2 DEF Early
<1>2. CASE ev.e = "added"
  <2>1. d.step = "open" /\ ev.kind \in Kinds
    BY <1>2 DEF Allowed
  <2>2. Heard(d, ev) \in Clients /\ Heard(d, ev).step = d.step
    BY <1>2, <2>1, HeardAdded
  <2> QED BY <1>2, <2>1, <2>2 DEF Early
<1>3. CASE ev.e \in {"created", "in_progress"}
  BY <1>3 DEF Heard, Clients, Early
<1>4. CASE ev.e = "terminal"
  <2>1. ev.status \in Ends
    BY <1>4 DEF Allowed
  <2>2. Heard(d, ev) = [d EXCEPT !.step = ev.status]
    BY <1>4 DEF Heard
  <2> QED BY <1>4, <2>1, <2>2 DEF Clients
<1> QED BY <1>1, <1>2, <1>3, <1>4 DEF Events, Names

\* Nothing follows a terminal event.
LEMMA DeadEnd ==
    ASSUME NEW d \in Clients, d.step \in Ends, NEW s \in Seq(Events), NEW e, Path(d, s, e)
    PROVE  s = <<>> /\ e = d
<1>1. \A ev : ~Allowed(d, ev)
  BY DEF Allowed, Ends
<1>2. s = <<>>
  BY <1>1, PathFirst
<1> QED BY <1>2, PathNothing

LEMMA OrderedApart ==
    ASSUME NEW m \in Drafts, Ordered(m)
    PROVE  Apart(m.items) /\ Pointed(m)
<1>1. DOMAIN m.items = 1..Len(m.items) /\ Len(m.items) \in Nat
      /\ \A i \in DOMAIN m.items : m.items[i] \in Items
  BY DraftTyped
<1>2. Pointed(m)
  BY <1>1 DEF Ordered, Current, Pointed
<1>3. ASSUME NEW i \in DOMAIN m.items, NEW j \in DOMAIN m.items, i < j,
             m.items[i].choice = m.items[j].choice
      PROVE  /\ m.items[j].kind # "reasoning"
             /\ ~ \A k \in {i, j} : m.items[k].kind # "call" /\ m.items[k].status = "in_progress"
  <2>1. PICK c \in Choices : c = m.items[i].choice /\ c = m.items[j].choice
    BY <1>1, <1>3 DEF Items
  <2>2. m.items[j].kind # "reasoning"
    BY <1>3 DEF Ordered, Tidy
  <2>3. SUFFICES ASSUME m.items[i].kind # "call", m.items[i].status = "in_progress",
                        m.items[j].kind # "call", m.items[j].status = "in_progress"
                 PROVE  FALSE
    BY <2>2
  <2>4. (i = m.think[c] \/ i = m.say[c]) /\ (j = m.think[c] \/ j = m.say[c])
    BY <2>1, <2>3 DEF Ordered, Tidy
  <2>5. m.think[c] = 0 \/ m.say[c] = 0
    BY DEF Ordered, Current
  <2> QED BY <1>1, <1>3, <2>4, <2>5
<1> QED BY <1>2, <1>3 DEF Apart

LEMMA StatusSettled ==
    ASSUME NEW m, NEW done \in BOOLEAN, NEW error \in BOOLEAN
    PROVE  /\ TerminalStatus(m, done, error) \in Ends
           /\ TerminalStatus(m, done, error) = "completed" => m.items # <<>> /\ ~InvalidCall(m)
           /\ error => TerminalStatus(m, done, error) = "failed"
BY DEF TerminalStatus, Ends

\* The draft of a stream whose status is settled.
LEMMA FinishKeeps ==
    ASSUME made \in Drafts, Ordered(made), NEW status \in Ends,
           status = "completed" => made.items # <<>> /\ ~InvalidCall(made)
    PROVE  Usable(made.items, status)
BY DEF Ordered, Tidy, InvalidCall, Usable

----------------------------------------------------------------------------

LEMMA StartKeeps == ASSUME BridgeInv, Start PROVE BridgeInv'
<1>1. made = NothingMade /\ client = NewClient /\ outcome = "none" /\ phase' = "streaming"
      /\ made' = Emit(Emit(NothingMade, "created", 0), "in_progress", 0)
      /\ client' = NewClient /\ outcome' = "none"
  BY DEF BridgeInv, Telling, Start
<1>2. PICK a \in Events : a = Event("created", 0) /\ a.e = "created"
  BY EventTyped DEF Names
<1>3. PICK b \in Events : b = Event("in_progress", 0) /\ b.e = "in_progress"
  BY EventTyped DEF Names
<1>4. <<>> \in Seq(Events) /\ <<>> \in Seq(Items) /\ <<>> \in Seq(Shown)
  OBVIOUS
<1>5. NothingMade \in Drafts
  BY <1>4 DEF NothingMade, Drafts
<1>6. PICK m \in Drafts : /\ m = Emit(NothingMade, "created", 0) /\ m.sent = Append(<<>>, a)
                          /\ m.items = <<>> /\ m.think = NothingMade.think /\ m.say = NothingMade.say
  <2>1. Emit(NothingMade, "created", 0) = [NothingMade EXCEPT !.sent = Append(@, a)]
    BY <1>2 DEF Emit
  <2>2. NothingMade.sent = <<>> /\ NothingMade.items = <<>>
    BY DEF NothingMade
  <2>3. LET n == [NothingMade EXCEPT !.sent = Append(@, a)]
        IN  /\ n \in Drafts /\ n.sent = Append(NothingMade.sent, a) /\ n.items = NothingMade.items
            /\ n.think = NothingMade.think /\ n.say = NothingMade.say
    BY <1>5, SentTyped
  <2> QED BY <2>1, <2>2, <2>3
<1>7. PICK n \in Drafts : /\ n = made' /\ n.sent = Append(m.sent, b)
                          /\ n.items = <<>> /\ n.think = NothingMade.think /\ n.say = NothingMade.say
  <2>1. made' = [m EXCEPT !.sent = Append(@, b)]
    BY <1>1, <1>3, <1>6 DEF Emit
  <2>2. LET n == [m EXCEPT !.sent = Append(@, b)]
        IN  /\ n \in Drafts /\ n.sent = Append(m.sent, b) /\ n.items = m.items
            /\ n.think = m.think /\ n.say = m.say
    BY SentTyped
  <2> QED BY <1>6, <2>1, <2>2
<1>8. PICK c \in Clients : c = NewClient /\ c.step = "start" /\ c.items = <<>>
  <2>1. NewClient \in Clients
    BY <1>4 DEF NewClient, Clients, Early
  <2> QED BY <2>1 DEF NewClient
<1>9. PICK d \in Clients : d = Heard(c, a) /\ d.step = "created" /\ d.items = <<>> /\ Allowed(c, a)
  <2>1. Heard(c, a) = [c EXCEPT !.step = "created"]
    BY <1>2 DEF Heard
  <2>2. [c EXCEPT !.step = "created"] \in Clients
    BY <1>8 DEF Clients, Early
  <2>3. [c EXCEPT !.step = "created"].step = "created" /\ [c EXCEPT !.step = "created"].items = <<>>
    BY <1>8 DEF Clients
  <2>4. Allowed(c, a)
    BY <1>2, <1>8 DEF Allowed
  <2> QED BY <2>1, <2>2, <2>3, <2>4
<1>10. PICK e \in Clients : e = Heard(d, b) /\ e.step = "open" /\ e.items = <<>> /\ Allowed(d, b)
  <2>1. Heard(d, b) = [d EXCEPT !.step = "open"]
    BY <1>3 DEF Heard
  <2>2. [d EXCEPT !.step = "open"] \in Clients
    BY <1>9 DEF Clients, Early
  <2>3. [d EXCEPT !.step = "open"].step = "open" /\ [d EXCEPT !.step = "open"].items = <<>>
    BY <1>9 DEF Clients
  <2>4. Allowed(d, b)
    BY <1>3, <1>9 DEF Allowed
  <2> QED BY <2>1, <2>2, <2>3, <2>4
<1>11. Path(c, m.sent, d)
  <2>1. Path(c, <<>>, c)
    BY PathNil
  <2> QED BY <1>4, <1>6, <1>9, <2>1, PathMore
<1>12. Path(c, n.sent, e)
  <2>1. m.sent \in Seq(Events)
    BY DraftTyped
  <2> QED BY <1>7, <1>10, <1>11, <2>1, PathMore
<1>13. Matches(e, n.items)
  BY <1>7, <1>10 DEF Matches
<1>14. Good(n, c)
  BY <1>10, <1>12, <1>13 DEF Good, Announced
<1>15. Ordered(n)
  BY <1>7 DEF Ordered, Current, Tidy, NothingMade
<1>16. Underway'
  <2>1. Apart(n.items) /\ Pointed(n)
    BY <1>15, OrderedApart
  <2>2. Usable(n.items, "none")
    BY DEF Usable
  <2> QED BY <1>1, <1>7, <1>8, <2>1, <2>2 DEF Underway, Early
<1>17. Telling'
  BY <1>1, <1>7, <1>8, <1>14, <1>15, <1>16 DEF Telling
<1>18. Counted'
  BY DEF BridgeInv, Counted, Start, Seen
<1> QED BY <1>17, <1>18 DEF BridgeInv

\* What a whole answer has to say is finite.
LEMMA WholeTyped ==
    ASSUME NEW a \in Answers
    PROVE  /\ Cardinality(Outputs(a)) \in Nat
           /\ Outputs(a) # {} => Cardinality(Outputs(a)) # 0
           /\ Len(Whole(a)) = Cardinality(Outputs(a)) /\ DOMAIN Whole(a) = 1..Len(Whole(a))
           /\ \A i \in DOMAIN Whole(a) : Whole(a)[i].status = "completed"
<1>1. DOMAIN a = 1..Len(a) /\ Len(a) \in Nat
  BY BridgeAssumption, LenProperties
<1>2. IsFiniteSet(DOMAIN a)
  BY <1>1, FS_Interval
<1>3. IsFiniteSet(Kinds)
  <2>1. IsFiniteSet({}) /\ Kinds = (({} \cup {"reasoning"}) \cup {"text"}) \cup {"call"}
    BY FS_EmptySet DEF Kinds
  <2> QED BY <2>1, FS_AddElement
<1>4. IsFiniteSet((DOMAIN a) \X Kinds)
  BY <1>2, <1>3, FS_Product
<1>5. Outputs(a) \subseteq (DOMAIN a) \X Kinds
  BY DEF Outputs
<1>6. IsFiniteSet(Outputs(a))
  BY <1>4, <1>5, FS_Subset
<1>7. PICK n \in Nat : n = Cardinality(Outputs(a)) /\ (Outputs(a) # {} => n # 0)
  BY <1>6, FS_CardinalityType, FS_EmptySet
<1>8. DOMAIN Whole(a) = 1..n
  BY <1>7 DEF Whole
<1>9. \A i \in 1..n : Whole(a)[i].status = "completed"
  BY <1>7 DEF Whole
<1>10. Len(Whole(a)) = n
  <2>1. PICK w : w = Whole(a)
    OBVIOUS
  <2>2. w \in Seq({w[i] : i \in 1..n})
    <3>1. w = [i \in 1..n |-> w[i]]
      BY <1>7, <2>1 DEF Whole
    <3> QED BY <3>1
  <2> QED BY <1>8, <2>1, <2>2
<1> QED BY <1>7, <1>8, <1>9, <1>10

LEMMA ConvertKeeps ==
    ASSUME BridgeInv, NEW a \in Answers, Convert(a)
    PROVE  BridgeInv'
<1>1. made = NothingMade /\ client = NewClient /\ phase' = "over" /\ client' = NewClient
      /\ made' = [made EXCEPT !.items = Whole(a)]
  BY DEF BridgeInv, Telling, Convert
<1>2. outcome' \in Ends /\ (outcome' = "completed" => Outputs(a) # {})
  BY DEF Convert, Ends
<1>3. made'.items = Whole(a) /\ made'.think = NothingMade.think /\ made'.say = NothingMade.say
  BY <1>1 DEF NothingMade
<1>4. outcome' = "completed" => Whole(a) # <<>>
  BY <1>2, WholeTyped
<1>5. Converted'
  BY <1>1, <1>2, <1>3, <1>4, WholeTyped DEF Converted
<1>6. Counted'
  BY <1>1, <1>2 DEF BridgeInv, Counted, Convert, Seen, Ends
<1> QED BY <1>1, <1>5, <1>6 DEF BridgeInv, Telling

LEMMA RefuseKeeps == ASSUME BridgeInv, Refuse PROVE BridgeInv'
<1>1. made' = NothingMade /\ client' = NewClient /\ phase' = "over" /\ outcome' = "error"
  BY DEF BridgeInv, Telling, Refuse
<1>2. NothingMade.items = <<>>
  BY DEF NothingMade
<1>3. Converted'
  BY <1>1, <1>2 DEF Converted
<1>4. Counted'
  BY DEF BridgeInv, Counted, Refuse, Seen
<1> QED BY <1>1, <1>3, <1>4 DEF BridgeInv, Telling

LEMMA PieceKeeps == ASSUME BridgeInv, Piece PROVE BridgeInv'
<1>1. Telling'
  BY DEF BridgeInv, Telling, Underway, Concluded, Delivered, Converted, Piece
<1>2. Counted'
  BY DEF BridgeInv, Counted, Piece, Seen
<1> QED BY <1>1, <1>2 DEF BridgeInv

LEMMA LeaveKeeps == ASSUME BridgeInv, Leave PROVE BridgeInv'
<1>1. Underway'
  BY DEF BridgeInv, Telling, Underway, Leave
<1>2. Telling'
  BY <1>1 DEF Telling, Leave
<1>3. Counted'
  BY DEF BridgeInv, Counted, Leave, Seen
<1> QED BY <1>2, <1>3 DEF BridgeInv

LEMMA FinishInv ==
    ASSUME BridgeInv, phase = "streaming", phase' = "ending", UNCHANGED <<made, client>>,
           NEW done \in BOOLEAN, NEW error \in BOOLEAN,
           outcome' = TerminalStatus(made, done, error)
    PROVE  Telling'
<1>1. Good(made, client) /\ Ordered(made) /\ Underway /\ made \in Drafts
  BY DEF BridgeInv, Telling, Good
<1>2. /\ outcome' \in Ends
      /\ outcome' = "completed" => made.items # <<>> /\ ~InvalidCall(made)
  BY StatusSettled
<1>3. Usable(made.items, outcome')
  BY <1>1, <1>2, FinishKeeps
<1>4. Good(made, client)' /\ Underway'
  BY <1>1, <1>3 DEF Underway, Good
<1> QED BY <1>2, <1>4 DEF Telling

LEMMA ConsumeInv ==
    ASSUME BridgeInv, NEW d \in Deltas, Consume(d)
    PROVE  BridgeInv'
<1>1. phase = "streaming" /\ client' = client /\ outcome = "none"
      /\ Good(made, client) /\ Ordered(made) /\ Underway
  BY DEF BridgeInv, Telling, Consume, Reading
<1>2. d.choice \in Choices /\ d.finish \in Finishes
  BY DeltaTyped
<1>3. /\ finished' \in [Choices -> Finishes \cup {"unseen"}] /\ finished'[d.choice] # "unseen"
      /\ Seen \subseteq Seen'
  <2>1. PICK f : f = IF d.finish # "no" THEN d.finish
                     ELSE IF finished[d.choice] = "unseen" THEN "no" ELSE finished[d.choice]
    OBVIOUS
  <2>2. finished \in [Choices -> Finishes \cup {"unseen"}]
    BY DEF BridgeInv, Counted
  <2>3. f \in Finishes /\ f # "unseen" /\ f \in Finishes \cup {"unseen"}
    <3>1. finished[d.choice] \in Finishes \cup {"unseen"}
      BY <1>2, <2>2
    <3> QED BY <1>2, <2>1, <3>1 DEF Finishes
  <2>4. finished' = [finished EXCEPT ![d.choice] = f]
    BY <2>1 DEF Consume
  <2> QED BY <1>2, <2>2, <2>3, <2>4 DEF Seen
<1>e. events' \in Nat /\ cut' = FALSE
  BY DEF BridgeInv, Counted, Consume
<1>4. CASE OutOfOrder(made, d)
  <2>1. /\ phase' = "ending" /\ outcome' = TerminalStatus(made, FALSE, TRUE)
        /\ made' = made /\ productive' = productive
    BY <1>4 DEF Consume, Finish
  <2>2. Telling'
    BY <1>1, <2>1, FinishInv
  <2>3. outcome' \in Ends
    BY <2>1, StatusSettled
  <2>4. Counted'
    <3>1. productive' \subseteq Seen'
      BY <1>3, <2>1 DEF BridgeInv, Counted
    <3> QED BY <1>3, <1>e, <2>1, <2>3, <3>1 DEF Counted, Ends
  <2> QED BY <2>2, <2>4 DEF BridgeInv
<1>5. CASE ~OutOfOrder(made, d)
  <2>1. /\ phase' = "streaming" /\ outcome' = "none"
        /\ made' = WithCall(WithText(WithReason(made, d), d), d)
        /\ productive' \subseteq productive \cup {d.choice}
    BY <1>1, <1>5 DEF Consume
  <2>2. PICK m : m = made'
    OBVIOUS
  <2>3. Good(m, client) /\ Ordered(m)
    BY <1>1, <1>5, <2>1, <2>2, ConsumeKeeps
  <2>4. m \in Drafts /\ Apart(m.items) /\ Pointed(m) /\ Usable(m.items, "none")
    BY <2>3, OrderedApart DEF Good, Usable
  <2>5. Good(made, client)' /\ Ordered(made)' /\ Underway'
    BY <1>1, <2>1, <2>2, <2>3, <2>4 DEF Underway
  <2>6. Telling'
    BY <2>1, <2>5 DEF Telling
  <2>7. Counted'
    <3>1. productive' \subseteq Seen'
      BY <1>2, <1>3, <2>1 DEF BridgeInv, Counted, Seen
    <3> QED BY <1>3, <1>e, <2>1, <3>1 DEF Counted
  <2> QED BY <2>6, <2>7 DEF BridgeInv
<1> QED BY <1>4, <1>5

LEMMA EndInv ==
    ASSUME BridgeInv, NEW how, EndOfStream(how)
    PROVE  BridgeInv'
<1>1. /\ phase = "streaming" /\ phase' = "ending" /\ made' = made /\ client' = client
      /\ UNCHANGED <<finished, productive, cut, events>>
  BY DEF EndOfStream, Reading, Finish
<1>2. PICK done \in BOOLEAN : done = (how = "done")
  OBVIOUS
<1>3. PICK error \in BOOLEAN : error = (how = "error" \/ (how = "end" /\ cut))
  OBVIOUS
<1>4. outcome' = TerminalStatus(made, done, error)
  BY <1>2, <1>3 DEF EndOfStream, Finish
<1>5. Telling'
  BY <1>1, <1>4, FinishInv
<1>6. Counted'
  BY <1>1, <1>4, StatusSettled DEF BridgeInv, Counted, Seen, Ends
<1> QED BY <1>5, <1>6 DEF BridgeInv

\* The next event is always allowed, and a terminal event is the last.
LEMMA SendInv ==
    ASSUME BridgeInv, Send
    PROVE  BridgeInv' /\ Allowed(client, Head(made.sent)) /\ Head(made.sent) \in Events
<1>1. /\ phase \in {"streaming", "ending"} /\ made.sent # <<>> /\ Underway /\ made \in Drafts
      /\ client \in Clients /\ client.step \in Early
      /\ made.sent \in Seq(Events) /\ made.items \in Seq(Items)
  BY DraftTyped DEF BridgeInv, Telling, Underway, Send
<1>2. PICK ev \in Events : ev = Head(made.sent)
  BY <1>1, HeadTailProperties
<1>3. PICK s \in Seq(Events) : s = Tail(made.sent)
  BY <1>1, HeadTailProperties
<1>4. PICK d \in Clients :
         /\ Path(client, made.sent, d) /\ Matches(d, made.items)
         /\ \/ d.step = "open"
            \/ d.step = outcome /\ outcome \in Ends /\ Shut(made.items) /\ phase = "ending"
         /\ phase = "streaming" => d.step = "open"
  <2>1. CASE Good(made, client)
    BY <2>1 DEF Good, Announced
  <2>2. CASE ~Good(made, client)
    <3>1. phase = "ending" /\ Concluded /\ outcome \in Ends
      BY <1>1, <2>2 DEF BridgeInv, Telling
    <3> QED BY <3>1 DEF Concluded
  <2> QED BY <2>1, <2>2
<1>5. PICK c : c = Heard(client, ev)
  OBVIOUS
<1>6. Allowed(client, ev) /\ Path(c, s, d)
  BY <1>1, <1>2, <1>3, <1>4, <1>5, PathFirst
<1>7. /\ c \in Clients
      /\ ev.e = "terminal" => c.step = ev.status /\ ev.status \in Ends /\ c.items = client.items
      /\ ev.e # "terminal" => c.step \in Early
  BY <1>1, <1>5, <1>6, HeardTyped
<1>8. PICK m : m = [made EXCEPT !.sent = s]
  OBVIOUS
<1>9. m \in Drafts /\ m.sent = s /\ m.items = made.items /\ m.think = made.think /\ m.say = made.say
  BY <1>1, <1>8 DEF Drafts
<1>10. client' = c /\ made' = m /\ outcome' = outcome
       /\ phase' = (IF ev.e = "terminal" THEN "over" ELSE phase)
  BY <1>2, <1>3, <1>5, <1>8 DEF Send
<1>11. Pointed(m) /\ Apart(m.items) /\ Usable(m.items, outcome)
  BY <1>1, <1>9 DEF Underway, Pointed
<1>12. CASE ev.e = "terminal"
  <2>1. s = <<>> /\ d = c
    BY <1>6, <1>7, <1>12, DeadEnd
  <2>2. d.step = outcome /\ outcome \in Ends /\ Shut(made.items)
    BY <1>4, <1>7, <1>12, <2>1 DEF Ends
  <2>3. Delivered'
    BY <1>4, <1>7, <1>9, <1>10, <1>11, <2>1, <2>2 DEF Delivered
  <2>4. Telling'
    BY <1>10, <1>12, <2>3 DEF Telling
  <2>5. Counted'
    BY <1>10, <1>12 DEF BridgeInv, Counted, Send, Seen
  <2> QED BY <1>2, <1>6, <2>4, <2>5 DEF BridgeInv
<1>13. CASE ev.e # "terminal"
  <2>1. phase' = phase
    BY <1>10, <1>13
  <2>2. Underway'
    BY <1>7, <1>9, <1>10, <1>11, <1>13 DEF Underway
  <2>3. d.step = "open" => Good(m, c)
    BY <1>4, <1>6, <1>9 DEF Good, Announced
  <2>4. d.step # "open" => Concluded' /\ phase = "ending" /\ outcome \in Ends
    BY <1>4, <1>6, <1>9, <1>10 DEF Concluded
  <2>5. phase = "streaming" => outcome = "none" /\ Ordered(m)
    <3>1. phase = "streaming" => outcome = "none" /\ Ordered(made)
      BY DEF BridgeInv, Telling
    <3> QED BY <1>9, <3>1, SameOrder
  <2>6. phase = "ending" => outcome \in Ends
    BY DEF BridgeInv, Telling
  <2>7. Telling'
    BY <1>1, <1>4, <1>10, <2>1, <2>2, <2>3, <2>4, <2>5, <2>6 DEF Telling
  <2>8. Counted'
    BY <2>1 DEF BridgeInv, Counted, Send, Seen
  <2> QED BY <1>2, <1>6, <2>7, <2>8 DEF BridgeInv
<1> QED BY <1>12, <1>13

LEMMA EndItemInv == ASSUME BridgeInv, EndItem PROVE BridgeInv'
<1>1. /\ phase = "ending" /\ made.sent = <<>> /\ Underway /\ made \in Drafts
      /\ client \in Clients /\ client.step \in Early /\ outcome \in Ends
      /\ Apart(made.items) /\ Usable(made.items, outcome) /\ Pointed(made)
  BY DEF BridgeInv, Telling, Underway, EndItem
<1>2. UNCHANGED <<phase, finished, productive, cut, outcome, events, client>>
  BY DEF EndItem
<1>3. Good(made, client)
  <2>1. SUFFICES ASSUME Concluded PROVE FALSE
    BY <1>1 DEF BridgeInv, Telling
  <2>2. client.step = outcome
    BY <1>1, <2>1, PathNothing DEF Concluded
  <2> QED BY <1>1, <2>2 DEF Early, Ends
<1>4. /\ DOMAIN made.items = 1..Len(made.items) /\ Len(made.items) \in Nat
      /\ \A i \in DOMAIN made.items : made.items[i] \in Items
  BY <1>1, DraftTyped
<1>5. Counted'
  BY <1>2 DEF BridgeInv, Counted, Seen
<1>6. CASE OpenItems = {} /\ made' = [made EXCEPT !.sent = <<Terminal(outcome)>>]
  <2>1. client.step = "open" /\ Matches(client, made.items) /\ Path(client, <<>>, client)
    BY <1>1, <1>3, PathNothing DEF Good, Announced
  <2>2. Shut(made.items)
    BY <1>6 DEF Shut, OpenItems
  <2>3. PICK ev \in Events : ev = Terminal(outcome) /\ ev.e = "terminal" /\ ev.status = outcome
    BY <1>1, EventTyped
  <2>4. DOMAIN client.items = DOMAIN made.items
    <3>1. client.items \in Seq(Shown)
      BY <1>1 DEF Clients
    <3> QED BY <1>4, <2>1, <3>1, LenProperties DEF Matches
  <2>5. Allowed(client, ev)
    <3>1. ASSUME NEW i \in DOMAIN client.items
          PROVE  client.items[i].status # "open" /\ (ev.status = "completed" => client.items[i].status = "completed")
      <4>1. client.items[i].status = made.items[i].status /\ made.items[i].status # "in_progress"
        BY <2>1, <2>2, <2>4 DEF Matches, Alike, Shut
      <4>2. made.items[i].status \in {"in_progress", "completed", "incomplete"}
        BY <1>4, <2>4 DEF Items
      <4>3. outcome = "completed" => made.items[i].status # "incomplete"
        BY <1>1, <2>4 DEF Usable
      <4> QED BY <2>3, <4>1, <4>2, <4>3
    <3> QED BY <1>1, <2>1, <2>3, <3>1 DEF Allowed
  <2>6. PICK d \in Clients : d = Heard(client, ev) /\ d.step = outcome /\ d.items = client.items
    BY <1>1, <2>3, <2>5, HeardTyped
  <2>7. PICK s \in Seq(Events) : s = Append(<<>>, ev) /\ s = <<ev>>
    <3>1. <<ev>> \in Seq(Events) /\ Append(<<>>, ev) = <<ev>>
      BY AppendProperties
    <3> QED BY <3>1
  <2>8. Path(client, s, d)
    <3>1. <<>> \in Seq(Events)
      OBVIOUS
    <3> QED BY <2>1, <2>5, <2>6, <2>7, <3>1, PathMore
  <2>9. PICK m : m = [made EXCEPT !.sent = s]
    OBVIOUS
  <2>10. m \in Drafts /\ m.sent = s /\ m.items = made.items /\ m.think = made.think /\ m.say = made.say
    BY <1>1, <2>9 DEF Drafts
  <2>11. made' = m
    BY <1>6, <2>3, <2>7, <2>9
  <2>12. Concluded'
    BY <1>2, <2>1, <2>2, <2>6, <2>8, <2>10, <2>11 DEF Concluded, Matches
  <2>13. Underway'
    BY <1>1, <1>2, <2>10, <2>11 DEF Underway, Pointed
  <2>14. Telling'
    BY <1>1, <1>2, <2>12, <2>13 DEF Telling
  <2> QED BY <1>5, <2>14 DEF BridgeInv
<1>7. ASSUME NEW i \in OpenItems, made' = Close(made, i, ClosedAs) PROVE BridgeInv'
  <2>1. i \in DOMAIN made.items /\ i \in DOMAIN made.items \cup {0} /\ made.items[i].status = "in_progress"
    BY <1>7 DEF OpenItems
  <2>2. ClosedAs \in {"completed", "incomplete"} /\ (outcome = "completed" => ClosedAs = "completed")
    BY DEF ClosedAs
  <2>3. PICK n : n = Close(made, i, ClosedAs)
    OBVIOUS
  <2>4. PICK status \in {"completed", "incomplete"} : status = ClosedAs
    BY <2>2
  <2>5. /\ Good(n, client) /\ n.think = made.think /\ n.say = made.say
        /\ Len(n.items) = Len(made.items) /\ DOMAIN n.items = DOMAIN made.items
        /\ \A j \in DOMAIN made.items :
              /\ n.items[j].kind = made.items[j].kind /\ n.items[j].choice = made.items[j].choice
              /\ n.items[j].named = made.items[j].named /\ n.items[j].args = made.items[j].args
              /\ n.items[j].status = IF j = i /\ made.items[j].status = "in_progress"
                                     THEN status ELSE made.items[j].status
    BY <1>3, <2>1, <2>3, <2>4, CloseGood
  <2>6. n \in Drafts /\ Pointed(n)
    BY <1>1, <2>5 DEF Good, Pointed
  <2>7. Apart(n.items)
    <3>1. \A j \in DOMAIN made.items : n.items[j].status = "in_progress" => made.items[j].status = "in_progress"
      BY <2>4, <2>5
    <3> QED BY <1>1, <2>5, <3>1 DEF Apart
  <2>8. Usable(n.items, outcome)
    <3>1. SUFFICES ASSUME outcome = "completed"
                   PROVE  /\ n.items # <<>>
                          /\ \A j \in DOMAIN n.items :
                                /\ n.items[j].status # "incomplete"
                                /\ n.items[j].kind = "call" => n.items[j].named /\ n.items[j].args = "whole"
      BY DEF Usable
    <3>2. n.items # <<>>
      BY <2>1, <2>5
    <3>3. \A j \in DOMAIN made.items :
              /\ made.items[j].status # "incomplete"
              /\ made.items[j].kind = "call" => made.items[j].named /\ made.items[j].args = "whole"
      BY <1>1, <3>1 DEF Usable
    <3> QED BY <2>2, <2>4, <2>5, <3>1, <3>2, <3>3
  <2>9. made' = n
    BY <1>7, <2>3
  <2>10. Underway'
    BY <1>1, <1>2, <2>6, <2>7, <2>8, <2>9 DEF Underway
  <2>11. Good(made, client)'
    BY <1>2, <2>5, <2>9
  <2>12. Telling'
    BY <1>1, <1>2, <2>10, <2>11 DEF Telling
  <2> QED BY <1>5, <2>12 DEF BridgeInv
<1> QED BY <1>6, <1>7 DEF EndItem

----------------------------------------------------------------------------
(* The two together                                                        *)

\* A stream once returned stays the reply of the hop.
LEMMA ReplyStays == ASSUME HopInv, reply = "stream", RecoveryStep PROVE reply' = "stream"
<1>1. at \notin {"sizing", "calling"}
  BY DEF HopInv, Outward
<1> QED BY <1>1 DEF RecoveryStep, Call, Streamed, Flush, Retry, Prepare, Answered, GuardError, GuardChunk,
           Relay, GuardEnd, RelayEnd, Retried

LEMMA InitInv == Init => IInv
<1> SUFFICES ASSUME Init PROVE IInv
  OBVIOUS
<1>1. HopInv /\ Linked
  BY HopInitInv DEF Init, BridgeInit, Linked
<1>2. Telling /\ Counted
  BY DEF Init, BridgeInit, Telling, Counted, Seen
<1> QED BY <1>1, <1>2 DEF IInv, BridgeInv

\* What a step does to the bridge and to the hop behind it.
LEMMA StepInv == IInv /\ [Next]_vars => IInv'
<1> SUFFICES ASSUME IInv, [Next]_vars PROVE IInv'
  OBVIOUS
<1> USE DEF IInv
<1>1. CASE TakeReply
  <2>1. HopInv'
    BY <1>1, HopStep DEF TakeReply
  <2>2. CASE reply = "stream"
    <3>1. Start
      BY <1>1, <2>2 DEF TakeReply
    <3>2. BridgeInv'
      BY <3>1, StartKeeps
    <3>3. Linked'
      BY <1>1, <2>2, <3>1 DEF Linked, TakeReply, Start, recovery
    <3> QED BY <2>1, <3>2, <3>3
  <2>3. CASE reply # "stream"
    <3>1. at = "ended" /\ mail = "none" /\ UNCHANGED recovery
      BY <1>1, <2>3 DEF TakeReply, HopInv, Outward
    <3>2. (\E a \in Answers : Convert(a)) \/ Refuse
      BY <1>1, <2>3 DEF TakeReply
    <3>3. BridgeInv' /\ phase' = "over"
      BY <3>2, ConvertKeeps, RefuseKeeps DEF Convert, Refuse
    <3>4. Linked'
      BY <3>1, <3>3 DEF Linked, recovery
    <3> QED BY <2>1, <3>3, <3>4
  <2> QED BY <2>2, <2>3
<1>2. CASE TakeChunk
  <2>1. HopInv'
    BY <1>2, HopStep DEF TakeChunk, TakenLast
  <2>2. phase = "streaming" /\ reply = "stream" /\ reply' = "stream"
    BY <1>2 DEF TakeChunk, Consume, Piece, EndOfStream, Reading, Linked, Taken, TakenLast, Abandon
  <2>3. \/ Taken /\ phase' = phase
        \/ Abandon
    BY <1>2 DEF TakeChunk, TakenLast, Consume, Piece
  <2>4. Linked'
    BY <2>2, <2>3 DEF Linked, Abandon
  <2>5. BridgeInv'
    BY <1>2, ConsumeInv, PieceKeeps, EndInv DEF TakeChunk
  <2> QED BY <2>1, <2>4, <2>5
<1>3. CASE HangUp
  <2>1. HopInv'
    BY <1>3, HopStep DEF HangUp
  <2>2. Linked'
    BY <1>3 DEF HangUp, Linked, Leave, Abandon
  <2>3. BridgeInv'
    BY <1>3, LeaveKeeps DEF HangUp
  <2> QED BY <2>1, <2>2, <2>3
<1>4. CASE Below
  <2>1. HopInv' /\ RecoveryStep /\ UNCHANGED bridge
    BY <1>4, HopStep DEF Below
  <2>2. phase \notin {"ending", "over", "gone"}
    BY <2>1, OverIsOver DEF Linked
  <2>3. Linked'
    BY <2>1, <2>2, ReplyStays DEF Linked, bridge
  <2>4. BridgeInv'
    BY <2>1 DEF BridgeInv, Telling, Counted, Underway, Concluded, Delivered, Converted, Seen, bridge
  <2> QED BY <2>1, <2>3, <2>4
<1>5. CASE Speak
  <2>1. HopInv'
    BY <1>5, HopStep DEF Speak
  <2>2. UNCHANGED recovery /\ (Send \/ EndItem)
    BY <1>5 DEF Speak
  <2>3. BridgeInv' 
    BY <2>2, SendInv, EndItemInv
  <2>4. Linked'
    <3>1. phase = "ending" \/ phase = "streaming"
      BY <2>2 DEF Send, EndItem
    <3>2. phase' = "over" => phase = "ending"
      <4>1. CASE EndItem
        BY <4>1 DEF EndItem
      <4>2. CASE Send
        <5>1. SUFFICES ASSUME phase = "streaming", phase' = "over" PROVE FALSE
          BY <3>1
        <5>2. BridgeInv' /\ outcome' = "none" /\ client'.step # "start"
          <6>1. Allowed(client, Head(made.sent)) /\ Head(made.sent).e = "terminal" /\ client \in Clients
                /\ Head(made.sent) \in Events
            BY <4>2, <5>1, SendInv DEF Send, BridgeInv, Telling, Underway
          <6>2. client'.step \in Ends
            BY <4>2, <6>1, HeardTyped DEF Send
          <6>3. outcome' = "none"
            BY <4>2, <5>1 DEF Send, BridgeInv, Telling
          <6> QED BY <2>3, <6>2, <6>3 DEF Ends
        <5> QED BY <5>1, <5>2 DEF BridgeInv, Telling, Converted, Delivered, NewClient, Ends
      <4> QED BY <2>2, <4>1, <4>2
    <3>3. phase' \in {phase, "over"}
      BY <2>2 DEF Send, EndItem
    <3> QED BY <2>2, <3>1, <3>2, <3>3 DEF Linked, recovery
  <2> QED BY <2>1, <2>3, <2>4
<1>6. CASE UNCHANGED vars
  <2>1. UNCHANGED recovery /\ UNCHANGED bridge
    BY <1>6 DEF vars
  <2>2. HopInv'
    BY <2>1, HopStep
  <2>3. Linked'
    BY <2>1 DEF Linked, recovery, bridge
  <2>4. BridgeInv'
    BY <2>1 DEF BridgeInv, Telling, Counted, Underway, Concluded, Delivered, Converted, Seen, bridge
  <2> QED BY <2>2, <2>3, <2>4
<1> QED BY <1>1, <1>2, <1>3, <1>4, <1>5, <1>6 DEF Next

LEMMA WholeFollows == IInv => ResponseIsWhole
<1> SUFFICES ASSUME IInv PROVE ResponseIsWhole
  OBVIOUS
<1>1. Telling /\ Counted
  BY DEF IInv, BridgeInv
<1>2. CASE phase = "waiting"
  <2>1. made = NothingMade /\ client = NewClient /\ outcome = "none"
    BY <1>1, <1>2 DEF Telling
  <2>2. /\ made.items = <<>> /\ Len(made.items) = 0 /\ client.step = "start"
        /\ \A c \in Choices : made.think[c] = 0 /\ made.say[c] = 0
    BY <2>1 DEF NothingMade, NewClient
  <2>3. BridgeTypeOK
    BY <1>1, <2>2 DEF Counted, BridgeTypeOK
  <2> QED BY <2>1, <2>2, <2>3 DEF ResponseIsWhole, ClientHasAll, CompletedIsUsable, ReasoningFirst
<1>3. CASE phase \in {"streaming", "ending", "gone"}
  <2>1. Underway
    BY <1>1, <1>3 DEF Telling
  <2>2. /\ made.think \in [Choices -> Nat] /\ made.say \in [Choices -> Nat] /\ Len(made.items) \in Nat
        /\ Pointed(made)
    BY <2>1, DraftTyped DEF Underway
  <2>3. BridgeTypeOK
    BY <1>1, <2>2 DEF Counted, BridgeTypeOK, Pointed
  <2>4. client.step # outcome
    BY <1>1, <2>1 DEF Underway, Early, Counted
  <2>5. CompletedIsUsable
    BY <1>3, <2>1 DEF Underway, Usable, CompletedIsUsable
  <2>6. ReasoningFirst
    BY <2>1 DEF Underway, Apart, ReasoningFirst
  <2> QED BY <2>3, <2>4, <2>5, <2>6 DEF ResponseIsWhole, ClientHasAll
<1>4. CASE phase = "over" /\ Converted
  <2>1. client.step = "start" /\ outcome # "start"
    BY <1>4 DEF Converted, NewClient, Ends
  <2>2. \A c \in Choices : made.think[c] = 0 /\ made.say[c] = 0
    BY <1>4 DEF Converted, NothingMade
  <2>3. BridgeTypeOK
    BY <1>1, <1>4, <2>2 DEF Counted, BridgeTypeOK, Converted
  <2> QED BY <1>4, <2>1, <2>3 DEF ResponseIsWhole, ClientHasAll, CompletedIsUsable, ReasoningFirst, Converted
<1>5. CASE phase = "over" /\ Delivered
  <2>1. /\ made \in Drafts /\ client \in Clients /\ Matches(client, made.items) /\ Shut(made.items)
        /\ Apart(made.items) /\ Usable(made.items, outcome) /\ Pointed(made)
    BY <1>5 DEF Delivered
  <2>2. /\ made.think \in [Choices -> Nat] /\ made.say \in [Choices -> Nat] /\ Len(made.items) \in Nat
        /\ \A i \in DOMAIN made.items : made.items[i] \in Items
    BY <2>1, DraftTyped
  <2>3. BridgeTypeOK
    BY <1>1, <2>1, <2>2 DEF Counted, BridgeTypeOK, Pointed
  <2>4. ClientHasAll
    BY <2>1 DEF Matches, Alike, Shut, ClientHasAll
  <2>5. CompletedIsUsable
    BY <2>1, <2>2 DEF Usable, Shut, Items, CompletedIsUsable
  <2>6. ReasoningFirst
    BY <2>1 DEF Apart, ReasoningFirst
  <2> QED BY <2>3, <2>4, <2>5, <2>6 DEF ResponseIsWhole
<1> QED BY <1>1, <1>2, <1>3, <1>4, <1>5 DEF Telling, Counted

LEMMA InvisibleFollows == IInv => GuardIsInvisible
<1>1. IInv => RecoveryTypeOK /\ OneSlotAtATime /\ GuardKeepsOrder
  BY HopSafe DEF IInv
<1>2. IInv => NothingLeftOpen
  BY DEF IInv, Linked, HopInv, Slots, NothingLeftOpen
<1> QED BY <1>1, <1>2 DEF GuardIsInvisible

\* The hop calls again only with less of the prompt.
LEMMA ShorterStep ==
    ASSUME IInv, [Next]_vars, calls' > calls, calls > 0
    PROVE  calls = 1 /\ Size(prompt') < Size(prompt) /\ prompt'.newest = prompt.newest
<1>1. calls \in 0..2 /\ prompt \in [old : Nat, newest : Nat \ {0}]
  BY DEF IInv, HopInv, HopTyped
<1>2. RecoveryStep
  <2>1. ~(Taken \/ Abandon \/ UNCHANGED recovery)
    BY <1>1 DEF Taken, Abandon, recovery, hop
  <2> QED BY <2>1 DEF Next, TakeReply, TakeChunk, TakenLast, HangUp, Below, Speak, vars
<1>3. Retry
  BY <1>1, <1>2 DEF RecoveryStep, Call, Streamed, Flush, Prepare, Answered, GuardError, GuardChunk,
     Relay, GuardEnd, RelayEnd, Retried, hop
<1>4. calls = 1
  BY <1>3 DEF Retry, IInv, HopInv, Slots
<1>5. prompt' = Halved(prompt) /\ Halved(prompt) # prompt
  BY <1>1, <1>3 DEF Retry
<1> QED BY <1>1, <1>4, <1>5, HalvedPrompt

----------------------------------------------------------------------------
(* The events keep to the protocol                                         *)

\* How far the client of a response has come, in the terms of the protocol.
Stage == IF phase = "gone" THEN "left" ELSE client.step

\* An allowed event is a step of the protocol.
LEMMA HeardIsStep ==
    ASSUME client \in Clients, NEW ev \in Events, Allowed(client, ev), client' = Heard(client, ev),
           phase # "gone", phase' # "gone"
    PROVE  Protocol!Next
<1>1. client.items \in Seq(Shown) /\ Stage = client.step /\ Stage' = client'.step
      /\ client' \in Clients
  BY HeardTyped DEF Clients, Stage
<1>2. CASE ev.e = "created"
  <2>1. Stage = "start" /\ Stage' = "created" /\ client'.items = client.items
    BY <1>1, <1>2 DEF Allowed, Heard, Clients
  <2> QED BY <2>1 DEF Protocol!Next, Protocol!Create, Stage
<1>3. CASE ev.e = "in_progress"
  <2>1. Stage = "created" /\ Stage' = "open" /\ client'.items = client.items
    BY <1>1, <1>3 DEF Allowed, Heard, Clients
  <2> QED BY <2>1 DEF Protocol!Next, Protocol!Progress, Stage
<1>4. CASE ev.e = "added"
  <2>1. client.step = "open" /\ ev.kind \in {"reasoning", "text", "call"}
    BY <1>4 DEF Allowed, Kinds
  <2>2. /\ client'.step = client.step
        /\ client'.items = Append(client.items, [kind |-> ev.kind, part |-> "none", pieces |-> 0,
                                                 status |-> "open"])
    BY <1>4, <2>1, HeardAdded DEF Kinds
  <2>3. Protocol!Add(ev.kind)
    BY <1>1, <2>1, <2>2 DEF Protocol!Add, Stage
  <2> QED BY <2>1, <2>3 DEF Protocol!Next
<1>5. CASE ev.e \in {"part", "delta", "part_done", "done"}
  <2>1. client.step = "open" /\ ev.i \in DOMAIN client.items /\ client.items[ev.i].status = "open"
    BY <1>5 DEF Allowed
  <2>2. client'.step = client.step
    BY <1>5, HeardOfItem
  <2>3. Protocol!Live(ev.i)
    BY <1>1, <2>1 DEF Protocol!Live, Stage
  <2>4. Stage' = Stage
    BY <1>1, <2>2
  <2>5. CASE ev.e = "part"
    <3>1. client'.items = [client.items EXCEPT ![ev.i].part = "open"]
      BY <2>5 DEF Heard, Clients
    <3>2. Protocol!OpenPart(ev.i)
      BY <2>3, <2>4, <2>5, <3>1 DEF Allowed, Protocol!OpenPart, Stage
    <3> QED BY <2>1, <3>2 DEF Protocol!Next
  <2>6. CASE ev.e = "delta"
    <3>1. client'.items = [client.items EXCEPT ![ev.i].pieces = @ + 1]
      BY <2>6 DEF Heard, Clients
    <3>2. Protocol!Delta(ev.i)
      BY <2>3, <2>4, <2>6, <3>1 DEF Allowed, Growing, Protocol!Delta, Protocol!Growing, Stage
    <3> QED BY <2>1, <3>2 DEF Protocol!Next
  <2>7. CASE ev.e = "part_done"
    <3>1. client'.items = [client.items EXCEPT ![ev.i].part = "closed"]
      BY <2>7 DEF Heard, Clients
    <3>2. Protocol!ClosePart(ev.i)
      BY <2>3, <2>4, <2>7, <3>1 DEF Allowed, Growing, Protocol!ClosePart, Protocol!Growing, Stage
    <3> QED BY <2>1, <3>2 DEF Protocol!Next
  <2>8. CASE ev.e = "done"
    <3>1. client'.items = [client.items EXCEPT ![ev.i].status = ev.status]
      BY <2>8 DEF Heard, Clients
    <3>2. ev.status \in {"completed", "incomplete"}
      BY <2>8 DEF Allowed
    <3>3. Protocol!Done(ev.i, ev.status)
      BY <2>3, <2>4, <2>8, <3>1 DEF Allowed, Protocol!Done, Stage
    <3> QED BY <2>1, <3>2, <3>3 DEF Protocol!Next, Protocol!Statuses
  <2> QED BY <1>5, <2>5, <2>6, <2>7, <2>8
<1>6. CASE ev.e = "terminal"
  <2>1. /\ client'.step = ev.status /\ ev.status \in {"completed", "incomplete", "failed"}
        /\ client'.items = client.items
    BY <1>6, HeardTyped DEF Ends
  <2>2. Protocol!End(ev.status)
    BY <1>1, <1>6, <2>1 DEF Allowed, Protocol!End, Stage
  <2> QED BY <2>1, <2>2 DEF Protocol!Next
<1> QED BY <1>2, <1>3, <1>4, <1>5, <1>6 DEF Events, Names

LEMMA EventStep == IInv /\ [Next]_vars => [Protocol!Next]_Protocol!vars
<1> SUFFICES ASSUME IInv, [Next]_vars PROVE [Protocol!Next]_Protocol!vars
  OBVIOUS
<1>1. CASE Send
  <2>1. phase \in {"streaming", "ending"} /\ BridgeInv /\ client' = Heard(client, Head(made.sent))
        /\ phase' # "gone"
    BY <1>1 DEF Send, IInv
  <2>2. client \in Clients
    BY <2>1 DEF BridgeInv, Telling, Underway
  <2>3. Allowed(client, Head(made.sent)) /\ Head(made.sent) \in Events
    BY <1>1, <2>1, SendInv
  <2> QED BY <2>1, <2>2, <2>3, HeardIsStep
<1>2. CASE Leave
  <2>1. phase # "gone" /\ phase' = "gone" /\ client' = client /\ client.step \in Early
    BY <1>2 DEF Leave, IInv, BridgeInv, Telling, Underway
  <2>2. Protocol!Leave
    BY <2>1 DEF Protocol!Leave, Early
  <2> QED BY <2>2 DEF Protocol!Next
<1>3. CASE ~Send /\ ~Leave
  <2>1. client' = client /\ (phase' = phase \/ (phase' # "gone" /\ phase # "gone"))
    BY <1>3 DEF Next, TakeReply, TakeChunk, HangUp, Below, Speak, Start, Convert, Refuse, Consume,
       Reading, Finish, Piece, EndOfStream, EndItem, vars, bridge
  <2> QED BY <2>1 DEF Protocol!vars
<1> QED BY <1>1, <1>2, <1>3

----------------------------------------------------------------------------
(* Theorems                                                                *)

\* In every reachable state the slots, the buffer of the guard, the draft of the
\* response and what the client has heard of it agree (IInv).
THEOREM Inductive == Spec => []IInv
<1>1. Init => IInv
  BY InitInv
<1>2. IInv /\ [Next]_vars => IInv'
  BY StepInv
<1> QED BY <1>1, <1>2, PTL DEF Spec

\* Whatever prompts, budgets, chunks and errors there are: a context retry never
\* shows above the guard, and no slot outlives its answer (_guard_stream_chunks
\* in context_budget.py).
THEOREM RetryIsInvisible == Spec => []GuardIsInvisible
<1>1. IInv => GuardIsInvisible
  BY InvisibleFollows
<1> QED BY <1>1, Inductive, PTL

\* However many choices and deltas an upstream sends: the client has put together
\* the whole output when the terminal event comes, a completed response can be
\* acted on, and reasoning comes before what it is about
\* (_chat_stream_to_responses_stream, chat_response_to_responses).
THEOREM ResponseHeardWhole == Spec => []ResponseIsWhole
<1>1. IInv => ResponseIsWhole
  BY WholeFollows
<1> QED BY <1>1, Inductive, PTL

\* A refused prompt is asked for once more at most, shorter and with its newest
\* turn (recovery_payload in context_budget.py).
THEOREM RetryIsShorter == Spec => RetriesShorter
<1>1. IInv /\ [Next]_vars =>
        [calls' > calls /\ calls > 0 =>
            /\ calls = 1
            /\ Size(prompt') < Size(prompt) /\ prompt'.newest = prompt.newest]_recovery
  BY ShorterStep
<1> QED BY <1>1, Inductive, PTL DEF Spec, RetriesShorter

\* The events the bridge sends implement the protocol of Responses streams
\* (ResponseEvents), for every choice, delta and answer.
THEOREM EventsKeepProtocol == Spec => EventSpec
<1>1. Init => Protocol!Init
  BY DEF Init, BridgeInit, NewClient, Protocol!Init
<1>2. IInv /\ [Next]_vars => [Protocol!Next]_Protocol!vars
  BY EventStep
<1> QED BY <1>1, <1>2, Inductive, PTL DEF Spec, EventSpec, Protocol!Spec
=============================================================================
