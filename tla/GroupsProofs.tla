----------------------------- MODULE GroupsProofs -----------------------------
(***************************************************************************)
(* Proofs about Groups: its type invariant, that rosters stay among the    *)
(* founders and keep their owner, that no text is twice in a history, that *)
(* each member's texts are in order for whoever never polled twice at      *)
(* once, and that the rosters of such members converge to those who were   *)
(* not removed as long as one member decides, one decision after the       *)
(* other, for any accounts, tasks and bounds.                              *)
(***************************************************************************)
EXTENDS Groups, SequenceTheorems, TLAPS

(***************************************************************************)
(* A task that is at work on an envelope has one: what TypeOK has to say   *)
(* of batches for its steps to be defined.                                 *)
(***************************************************************************)
Busy == \A a \in Account, t \in Task : task[a][t] # Idle => task[a][t].batch # <<>>

TypeInv == TypeOK /\ Busy

(* A sequence that is not empty has a first element and a tail of its type. *)
LEMMA HeadAndTail ==
  ASSUME NEW S, NEW s \in Seq(S), s # <<>>
  PROVE  s[1] \in S /\ Tail(s) \in Seq(S)
  OBVIOUS

LEMMA IdleType == Idle \in Activation /\ Idle.op = "none" /\ Idle.step = "idle"
BY DEF Idle, Activation

(* A task that does something is not idle. *)
LEMMA AtWork ==
  ASSUME NEW r, r = Idle
  PROVE  r.step = "idle" /\ r.op = "none"
  BY DEF Idle

(* Setting one task of one account keeps the type of all. *)
LEMMA SetTask ==
  ASSUME TypeInv, NEW a \in Account, NEW t \in Task, NEW r \in Activation,
         r = Idle \/ r.batch # <<>>,
         task' = [task EXCEPT ![a][t] = r]
  PROVE  task' \in [Account -> [Task -> Activation]] /\ Busy'
<1> USE DEF TypeInv, TypeOK
<1>1. task' \in [Account -> [Task -> Activation]]
  OBVIOUS
<1>2. ASSUME NEW b \in Account, NEW u \in Task, task'[b][u] # Idle
      PROVE  task'[b][u].batch # <<>>
  <2>1. CASE b = a /\ u = t
    BY <1>2, <2>1
  <2>2. CASE ~(b = a /\ u = t)
    <3>1. task'[b][u] = task[b][u]
      BY <2>2
    <3> QED BY <1>2, <3>1 DEF Busy
  <2> QED BY <2>1, <2>2
<1> QED BY <1>1, <1>2 DEF Busy

(* Changing a step, the recipients left or the history read keeps a task's type. *)
LEMMA SetFields ==
  ASSUME TypeInv, NEW a \in Account, NEW t \in Task, task[a][t] # Idle,
         NEW s \in {"idle", "save", "send", "append", "handle", "overwrite", "read"},
         NEW to \in SUBSET Account, NEW seen \in Seq(Entry),
         task' = [task EXCEPT ![a][t] = [task[a][t] EXCEPT !.step = s, !.to = to, !.seen = seen]]
  PROVE  task' \in [Account -> [Task -> Activation]] /\ Busy'
<1> DEFINE r == [task[a][t] EXCEPT !.step = s, !.to = to, !.seen = seen]
<1>1. task[a][t] \in Activation /\ task[a][t].batch # <<>>
  BY DEF TypeInv, TypeOK, Busy
<1>2. r \in Activation /\ r.batch # <<>>
  BY <1>1 DEF Activation
<1> QED BY <1>2, SetTask

(* The loop of poll goes on with the tail of a batch that is not empty. *)
LEMMA NextEnvelopeType ==
  ASSUME TypeInv, NEW a \in Account, NEW t \in Task, task[a][t] # Idle, NextEnvelope(a, t)
  PROVE  task' \in [Account -> [Task -> Activation]] /\ Busy'
<1> DEFINE rest == Tail(task[a][t].batch)
           r == IF rest = <<>> THEN Idle ELSE Poll(rest)
<1>1. rest \in Seq(Envelope)
  <2>1. task[a][t].batch \in Seq(Envelope) /\ task[a][t].batch # <<>>
    BY DEF TypeInv, TypeOK, Busy, Activation
  <2> QED BY <2>1, HeadAndTail
<1>2. r \in Activation /\ (r = Idle \/ r.batch # <<>>)
  BY <1>1, IdleType DEF Poll, Idle, Activation
<1>3. task' = [task EXCEPT ![a][t] = r]
  BY DEF NextEnvelope
<1> QED BY <1>2, <1>3, SetTask

LEMMA FinishType ==
  ASSUME TypeInv, NEW a \in Account, NEW t \in Task, Finish(a, t)
  PROVE  task' \in [Account -> [Task -> Activation]] /\ Busy'
  BY SetTask, IdleType DEF Finish

LEMMA GotoType ==
  ASSUME TypeInv, NEW a \in Account, NEW t \in Task, task[a][t] # Idle,
         NEW s \in {"idle", "save", "send", "append", "handle", "overwrite", "read"}, Goto(a, t, s)
  PROVE  task' \in [Account -> [Task -> Activation]] /\ Busy'
<1> DEFINE r == [task[a][t] EXCEPT !.step = s]
<1>1. task[a][t] \in Activation /\ task[a][t].batch # <<>>
  BY DEF TypeInv, TypeOK, Busy
<1>2. r \in Activation /\ r.batch # <<>>
  BY <1>1 DEF Activation
<1>3. task' = [task EXCEPT ![a][t] = r]
  BY DEF Goto, TypeInv, TypeOK
<1> QED BY <1>2, <1>3, SetTask

(* A call starts with one envelope of its own. *)
LEMMA StartType ==
  ASSUME TypeInv, NEW a \in Account, NEW t \in Task,
         NEW o \in {"create", "remove", "text"}, NEW s \in {"save", "send"},
         NEW e \in Envelope, NEW to \in SUBSET Account,
         Start(a, t, FanOut(o, s, e, to))
  PROVE  task' \in [Account -> [Task -> Activation]] /\ Busy'
<1>1. <<e>> \in Seq(Envelope) /\ <<e>> # <<>> /\ <<>> \in Seq(Entry)
  OBVIOUS
<1>2. FanOut(o, s, e, to) \in Activation /\ FanOut(o, s, e, to).batch # <<>>
  BY <1>1 DEF FanOut, Activation
<1> QED BY <1>2, SetTask DEF Start

(* What a task appends to the history it read is an entry. *)
LEMMA LoggedType ==
  ASSUME TypeInv, NEW a \in Account, NEW t \in Task, task[a][t] # Idle
  PROVE  Logged(task[a][t]) \in Seq(Entry)
<1>1. task[a][t].batch \in Seq(Envelope) /\ task[a][t].batch # <<>> /\ task[a][t].seen \in Seq(Entry)
  BY DEF TypeInv, TypeOK, Busy, Activation
<1>2. task[a][t].batch[1] \in Envelope
  BY <1>1, HeadAndTail
<1>3. [from |-> task[a][t].batch[1].from, id |-> task[a][t].batch[1].id] \in Entry
  BY <1>2 DEF Envelope, Entry
<1> QED BY <1>1, <1>3 DEF Logged

(* The envelope a task is working on. *)
LEMMA EnvelopeType ==
  ASSUME TypeInv, NEW a \in Account, NEW t \in Task, task[a][t] # Idle
  PROVE  task[a][t].batch[1] \in Envelope
<1>1. task[a][t].batch \in Seq(Envelope) /\ task[a][t].batch # <<>>
  BY DEF TypeInv, TypeOK, Busy, Activation
<1> QED BY <1>1, HeadAndTail

-----------------------------------------------------------------------------
(* The steps of user calls keep every type. *)
LEMMA UserType ==
  ASSUME TypeInv, NEW a \in Account, NEW t \in UserTask, UserStarts(a, t) \/ UserGoesOn(a, t)
  PROVE  TypeInv'
<1> USE DEF TypeInv, TypeOK, counters, races, stores
<1> t \in Task
  BY DEF Task
<1>1. CASE CreateGroup(a, t)
  <2>1. PICK others \in (SUBSET (Account \ {a})) \ {{}} :
          /\ Start(a, t, FanOut("create", "send", Invite(a, {a} \cup others), others))
          /\ roster' = [roster EXCEPT ![a] = {a} \cup others]
          /\ founders' = {a} \cup others
    BY <1>1 DEF CreateGroup
  <2>2. Invite(a, {a} \cup others) \in Envelope
    BY DEF Invite, Envelope
  <2>3. task' \in [Account -> [Task -> Activation]] /\ Busy'
    BY <2>1, <2>2, StartType
  <2>4. roster' \in [Account -> SUBSET Account] /\ founders' \in SUBSET Account
    BY <2>1
  <2> QED BY <1>1, <2>3, <2>4 DEF CreateGroup
<1>2. CASE RemoveLoad(a, t)
  <2>1. PICK m \in founders \ {a} :
          Start(a, t, FanOut("remove", "save", Update(a, roster[a] \ {m}), (roster[a] \ {m}) \ {a}))
    BY <1>2 DEF RemoveLoad, Removes
  <2>2. Update(a, roster[a] \ {m}) \in Envelope
    BY DEF Update, Envelope
  <2>3. task' \in [Account -> [Task -> Activation]] /\ Busy'
    BY <2>1, <2>2, StartType
  <2> QED BY <1>2, <2>3 DEF RemoveLoad, Removes
<1>3. CASE TextLoad(a, t)
  <2>1. Text(a) \in Envelope
    BY DEF Text, Envelope
  <2>2. task' \in [Account -> [Task -> Activation]] /\ Busy'
    BY <1>3, <2>1, StartType DEF TextLoad
  <2> QED BY <1>3, <2>2 DEF TextLoad
<1>4. CASE RemoveSave(a, t)
  <2>1. task[a][t] # Idle
    BY <1>4, AtWork DEF RemoveSave
  <2>2. task' \in [Account -> [Task -> Activation]] /\ Busy'
    BY <1>4, <2>1, GotoType DEF RemoveSave
  <2>3. task[a][t].batch[1].roster \in SUBSET Account
    BY <2>1, EnvelopeType DEF Envelope
  <2> QED BY <1>4, <2>2, <2>3 DEF RemoveSave
<1>5. CASE Send(a, t)
  <2>1. task[a][t] # Idle /\ task[a][t] \in Activation
    BY <1>5, AtWork DEF Send
  <2>2. PICK m \in task[a][t].to :
          /\ queue' = [queue EXCEPT ![m] = Append(@, task[a][t].batch[1])]
          /\ task' = [task EXCEPT ![a][t].to = @ \ {m}]
    BY <1>5 DEF Send
  <2>3. task[a][t].batch[1] \in Envelope
    BY <2>1, EnvelopeType
  <2>4. m \in Account /\ queue' \in [Account -> Seq(Envelope)]
    BY <2>1, <2>2, <2>3 DEF Activation
  <2> DEFINE r == [task[a][t] EXCEPT !.to = task[a][t].to \ {m}]
  <2>5. r \in Activation /\ r.batch # <<>>
    BY <2>1 DEF Busy, Activation
  <2>6. task' = [task EXCEPT ![a][t] = r]
    BY <2>2
  <2>7. task' \in [Account -> [Task -> Activation]] /\ Busy'
    BY <2>5, <2>6, SetTask
  <2> QED BY <1>5, <2>4, <2>7 DEF Send
<1>6. CASE FanOutEnds(a, t)
  <2>1. task' \in [Account -> [Task -> Activation]] /\ Busy'
    BY <1>6, FinishType DEF FanOutEnds
  <2> QED BY <1>6, <2>1 DEF FanOutEnds
<1>7. CASE TextRead(a, t)
  <2>1. task[a][t] # Idle /\ task[a][t] \in Activation
    BY <1>7, AtWork DEF TextRead
  <2> DEFINE r == [task[a][t] EXCEPT !.step = "append", !.seen = log[a]]
  <2>2. r \in Activation /\ r.batch # <<>>
    BY <2>1 DEF Busy, Activation
  <2>3. task' = [task EXCEPT ![a][t] = r]
    BY <1>7 DEF TextRead
  <2>4. task' \in [Account -> [Task -> Activation]] /\ Busy'
    BY <2>2, <2>3, SetTask
  <2> QED BY <1>7, <2>4 DEF TextRead
<1>8. CASE TextWrite(a, t)
  <2>1. task[a][t] # Idle
    BY <1>8, AtWork DEF TextWrite
  <2>2. log' \in [Account -> Seq(Entry)]
    BY <1>8, <2>1, LoggedType DEF TextWrite
  <2>3. task' \in [Account -> [Task -> Activation]] /\ Busy'
    BY <1>8, FinishType DEF TextWrite
  <2> QED BY <1>8, <2>2, <2>3 DEF TextWrite
<1> QED BY <1>1, <1>2, <1>3, <1>4, <1>5, <1>6, <1>7, <1>8 DEF UserStarts, UserGoesOn

(* The steps of polls keep every type. *)
LEMMA PollType ==
  ASSUME TypeInv, NEW a \in Account, NEW t \in PollTask, PollFetch(a, t) \/ PollGoesOn(a, t)
  PROVE  TypeInv'
<1> USE DEF TypeInv, TypeOK, counters, races, stores
<1> t \in Task
  BY DEF Task
<1>1. CASE PollFetch(a, t)
  <2>1. Poll(queue[a]) \in Activation /\ Poll(queue[a]).batch # <<>>
    BY <1>1, IdleType DEF PollFetch, Fetches, Poll, Idle, Activation
  <2>2. task' \in [Account -> [Task -> Activation]] /\ Busy'
    BY <1>1, <2>1, SetTask DEF PollFetch, Fetches, Start
  <2>3. queue' \in [Account -> Seq(Envelope)]
    BY <1>1 DEF PollFetch, Fetches
  <2> QED BY <1>1, <2>2, <2>3 DEF PollFetch, Fetches
<1>2. CASE HandleInvite(a, t) \/ HandleUpdate(a, t)
  <2>1. task[a][t] # Idle
    BY <1>2, AtWork DEF HandleInvite, HandleUpdate, Handling
  <2>2. task' \in [Account -> [Task -> Activation]] /\ Busy'
    BY <1>2, <2>1, NextEnvelopeType DEF HandleInvite, HandleUpdate
  <2>3. task[a][t].batch[1].roster \in SUBSET Account
    BY <2>1, EnvelopeType DEF Envelope
  <2>4. roster' \in [Account -> SUBSET Account]
    BY <1>2, <2>3 DEF HandleInvite, HandleUpdate
  <2> QED BY <1>2, <2>2, <2>4 DEF HandleInvite, HandleUpdate
<1>3. CASE HandleCheck(a, t)
  <2>1. task[a][t] # Idle
    BY <1>3, AtWork DEF HandleCheck, Handling
  <2>2. task' \in [Account -> [Task -> Activation]] /\ Busy'
    <3>1. CASE NextEnvelope(a, t)
      BY <2>1, <3>1, NextEnvelopeType
    <3>2. CASE Goto(a, t, "overwrite") \/ Goto(a, t, "read")
      BY <2>1, <3>2, GotoType
    <3> QED BY <1>3, <3>1, <3>2 DEF HandleCheck
  <2> QED BY <1>3, <2>2 DEF HandleCheck
<1>4. CASE HandleRead(a, t)
  <2>1. task[a][t] # Idle /\ task[a][t] \in Activation
    BY <1>4, AtWork DEF HandleRead, Handling
  <2> DEFINE r == [task[a][t] EXCEPT !.step = "append", !.seen = log[a]]
  <2>2. r \in Activation /\ r.batch # <<>>
    BY <2>1 DEF Busy, Activation
  <2>3. task' = [task EXCEPT ![a][t] = r]
    BY <1>4 DEF HandleRead
  <2>4. task' \in [Account -> [Task -> Activation]] /\ Busy'
    BY <2>2, <2>3, SetTask
  <2> QED BY <1>4, <2>4 DEF HandleRead
<1>5. CASE HandleWrite(a, t)
  <2>1. task[a][t] # Idle
    BY <1>5, AtWork DEF HandleWrite, Handling
  <2>2. log' \in [Account -> Seq(Entry)]
    BY <1>5, <2>1, LoggedType DEF HandleWrite
  <2>3. task' \in [Account -> [Task -> Activation]] /\ Busy'
    BY <1>5, <2>1, NextEnvelopeType DEF HandleWrite
  <2> QED BY <1>5, <2>2, <2>3 DEF HandleWrite
<1> QED BY <1>1, <1>2, <1>3, <1>4, <1>5 DEF PollGoesOn

LEMMA FailType ==
  ASSUME TypeInv, NEW a \in Account, NEW t \in Task, Fail(a, t)
  PROVE  TypeInv'
<1>1. task' \in [Account -> [Task -> Activation]] /\ Busy'
  BY FinishType DEF Fail
<1> QED BY <1>1 DEF Fail, TypeInv, TypeOK, stores, races

LEMMA TypeInit == Init => TypeInv
<1>1. Init => Busy
  BY DEF Init, Busy
<1>2. Init => TypeOK
  BY IdleType DEF Init, TypeOK
<1> QED BY <1>1, <1>2 DEF TypeInv

LEMMA TypeNext == TypeInv /\ [Next]_vars => TypeInv'
<1> SUFFICES ASSUME TypeInv, [Next]_vars PROVE TypeInv'
  OBVIOUS
<1>1. CASE Next
  BY <1>1, UserType, PollType, FailType DEF Next
<1>2. CASE UNCHANGED vars
  BY <1>2 DEF vars, stores, counters, races, TypeInv, TypeOK, Busy
<1> QED BY <1>1, <1>2

LEMMA TypeInvariant == Spec => []TypeInv
BY TypeInit, TypeNext, PTL DEF Spec

(* Every store, queue, task and counter of the clients keeps its type, whatever *)
(* tasks of theirs are interleaved and fail.                                    *)
THEOREM TypeCorrect == Spec => []TypeOK
<1>1. TypeInv => TypeOK
  BY DEF TypeInv
<1> QED BY <1>1, TypeInvariant, PTL

-----------------------------------------------------------------------------
(***************************************************************************)
(* OwnRoster needs to know where rosters come from: every envelope that    *)
(* carries one, queued, being handled or being sent, lists the member it   *)
(* is for.                                                                 *)
(***************************************************************************)
Bears(e, m) == e.kind # "text" => m \in e.roster /\ e.roster \subseteq founders

OwnTask(a, r) ==
  /\ r.op = "poll" =>
       /\ r.step \in {"handle", "overwrite", "read", "append"}
       /\ \A i \in DOMAIN r.batch : Bears(r.batch[i], a)
  /\ r.op \in {"create", "remove"} =>
       /\ a \in r.batch[1].roster /\ r.batch[1].roster \subseteq founders
       /\ r.to \subseteq r.batch[1].roster
  /\ r.op = "text" => r.batch[1].kind = "text"
  /\ r.step = "save" => r.op = "remove"
  /\ r.op = "none" => r = Idle

OwnInv ==
  /\ OwnRoster
  /\ \A m \in Account : \A i \in DOMAIN queue[m] : Bears(queue[m][i], m)
  /\ \A a \in Account, t \in Task : OwnTask(a, task[a][t])

LEMMA OwnIdle == ASSUME NEW a \in Account PROVE OwnTask(a, Idle)
BY DEF OwnTask, Idle

LEMMA OwnInit == Init => OwnInv
BY OwnIdle DEF Init, OwnInv, OwnRoster

(* A step of one task that leaves founders alone disturbs only that task. *)
LEMMA OwnTaskStep ==
  ASSUME TypeInv, OwnInv, NEW a \in Account, NEW t \in Task, NEW r,
         task' = [task EXCEPT ![a][t] = r], OwnTask(a, r), UNCHANGED founders
  PROVE  (\A b \in Account, u \in Task : OwnTask(b, task[b][u]))'
<1> SUFFICES ASSUME NEW b \in Account, NEW u \in Task
             PROVE  OwnTask(b, task[b][u])'
  OBVIOUS
<1>1. task'[b][u] = IF b = a /\ u = t THEN r ELSE task[b][u]
  BY DEF TypeInv, TypeOK
<1>2. OwnTask(b, task'[b][u])
  BY <1>1 DEF OwnInv
<1> QED BY <1>2 DEF OwnTask, Bears

(* The rest of a batch bears what the batch does. *)
LEMMA OwnTail ==
  ASSUME TypeInv, OwnInv, NEW a \in Account, NEW t \in Task, task[a][t].op = "poll",
         NextEnvelope(a, t), UNCHANGED founders
  PROVE  (\A b \in Account, u \in Task : OwnTask(b, task[b][u]))'
<1> DEFINE batch == task[a][t].batch
           rest == Tail(batch)
           r == IF rest = <<>> THEN Idle ELSE Poll(rest)
<1>1. task[a][t] # Idle
  BY AtWork
<1>2. batch \in Seq(Envelope) /\ batch # <<>> /\ \A i \in DOMAIN batch : Bears(batch[i], a)
  BY <1>1 DEF TypeInv, TypeOK, Busy, Activation, OwnInv, OwnTask
<1>3. \A i \in DOMAIN rest : Bears(rest[i], a)
  <2>1. \A i \in DOMAIN rest : i + 1 \in DOMAIN batch /\ rest[i] = batch[i + 1]
    BY <1>2
  <2> QED BY <1>2, <2>1
<1>4. OwnTask(a, r)
  <2>1. CASE rest = <<>>
    BY <2>1, OwnIdle
  <2>2. CASE rest # <<>>
    BY <2>2, <1>3 DEF Poll, Idle, OwnTask
  <2> QED BY <2>1, <2>2
<1>5. task' = [task EXCEPT ![a][t] = r]
  BY DEF NextEnvelope
<1> QED BY <1>4, <1>5, OwnTaskStep

LEMMA OwnFinish ==
  ASSUME TypeInv, OwnInv, NEW a \in Account, NEW t \in Task, Finish(a, t), UNCHANGED founders
  PROVE  (\A b \in Account, u \in Task : OwnTask(b, task[b][u]))'
  BY OwnTaskStep, OwnIdle DEF Finish

(* A step that leaves the queues and founders alone keeps what queues bear. *)
LEMMA OwnQueue ==
  ASSUME OwnInv, UNCHANGED <<queue, founders>>
  PROVE  (\A m \in Account : \A i \in DOMAIN queue[m] : Bears(queue[m][i], m))'
  BY DEF OwnInv, Bears

(* Before the group exists no roster and no envelope with one exists. *)
LEMMA OwnCreate ==
  ASSUME TypeInv, OwnInv, NEW a \in Account, NEW t \in UserTask, CreateGroup(a, t)
  PROVE  OwnInv'
<1> t \in Task
  BY DEF Task
<1>1. PICK others \in (SUBSET (Account \ {a})) \ {{}} :
        /\ Start(a, t, FanOut("create", "send", Invite(a, {a} \cup others), others))
        /\ roster' = [roster EXCEPT ![a] = {a} \cup others]
        /\ founders' = {a} \cup others
  BY DEF CreateGroup
<1> DEFINE r == FanOut("create", "send", Invite(a, {a} \cup others), others)
<1>2. founders = {} /\ queue' = queue
  BY DEF CreateGroup
<1>3. OwnRoster'
  <2>1. \A b \in Account : roster[b] = {}
    BY <1>2 DEF OwnInv, OwnRoster
  <2>2. roster' \in [Account -> SUBSET Account]
    BY <1>1 DEF TypeInv, TypeOK
  <2> QED BY <2>1, <2>2, <1>1 DEF OwnRoster, TypeInv, TypeOK
<1>4. (\A m \in Account : \A i \in DOMAIN queue[m] : Bears(queue[m][i], m))'
  <2>1. \A m \in Account : \A i \in DOMAIN queue[m] : queue[m][i].kind = "text"
    BY <1>2 DEF OwnInv, Bears
  <2> QED BY <1>2, <2>1 DEF Bears
<1>5. \A b \in Account, u \in Task : task[b][u].op \notin {"create", "remove"}
  BY <1>2 DEF OwnInv, OwnTask
<1>6. (\A b \in Account, u \in Task : OwnTask(b, task[b][u]))'
  <2> SUFFICES ASSUME NEW b \in Account, NEW u \in Task
               PROVE  OwnTask(b, task[b][u])'
    OBVIOUS
  <2>1. task'[b][u] = IF b = a /\ u = t THEN r ELSE task[b][u]
    BY <1>1 DEF Start, TypeInv, TypeOK
  <2>2. CASE b = a /\ u = t
    BY <2>1, <2>2, <1>1 DEF FanOut, Invite, OwnTask
  <2>3. CASE ~(b = a /\ u = t)
    <3>1. OwnTask(b, task[b][u]) /\ task'[b][u] = task[b][u]
      BY <2>1, <2>3 DEF OwnInv
    <3>2. task[b][u].op = "poll" =>
            \A i \in DOMAIN task[b][u].batch : task[b][u].batch[i].kind = "text"
      BY <3>1, <1>2 DEF OwnTask, Bears
    <3> QED BY <3>1, <3>2, <1>5 DEF OwnTask, Bears
  <2> QED BY <2>2, <2>3
<1> QED BY <1>3, <1>4, <1>6 DEF OwnInv

LEMMA OwnUser ==
  ASSUME TypeInv, OwnInv, NEW a \in Account, NEW t \in UserTask, UserStarts(a, t) \/ UserGoesOn(a, t)
  PROVE  OwnInv'
<1> USE DEF counters, races, stores
<1> t \in Task
  BY DEF Task
<1>1. CASE CreateGroup(a, t)
  BY <1>1, OwnCreate
<1>2. CASE RemoveLoad(a, t)
  <2>1. PICK m \in founders \ {a} :
          Start(a, t, FanOut("remove", "save", Update(a, roster[a] \ {m}), (roster[a] \ {m}) \ {a}))
    BY <1>2 DEF RemoveLoad, Removes
  <2>2. a \in roster[a] \ {m} /\ roster[a] \ {m} \subseteq founders
    BY <1>2 DEF RemoveLoad, Removes, OwnInv, OwnRoster
  <2>3. OwnTask(a, FanOut("remove", "save", Update(a, roster[a] \ {m}), (roster[a] \ {m}) \ {a}))
    BY <2>2 DEF OwnTask, FanOut, Update
  <2>4. (\A b \in Account, u \in Task : OwnTask(b, task[b][u]))'
    BY <1>2, <2>1, <2>3, OwnTaskStep DEF RemoveLoad, Removes, Start
  <2> QED BY <1>2, <2>4, OwnQueue DEF RemoveLoad, Removes, OwnInv, OwnRoster
<1>3. CASE TextLoad(a, t)
  <2>1. OwnTask(a, FanOut("text", "send", Text(a), roster[a] \ {a}))
    BY DEF OwnTask, FanOut, Text
  <2>2. (\A b \in Account, u \in Task : OwnTask(b, task[b][u]))'
    BY <1>3, <2>1, OwnTaskStep DEF TextLoad, Start
  <2> QED BY <1>3, <2>2, OwnQueue DEF TextLoad, OwnInv, OwnRoster
<1>4. CASE RemoveSave(a, t)
  <2> DEFINE r == [task[a][t] EXCEPT !.step = "send"]
  <2>1. task[a][t].step = "save" /\ OwnTask(a, task[a][t]) /\ task[a][t] \in Activation
    BY <1>4 DEF RemoveSave, OwnInv, TypeInv, TypeOK
  <2>2. OwnTask(a, r)
    BY <2>1 DEF OwnTask, Activation
  <2>3. (\A b \in Account, u \in Task : OwnTask(b, task[b][u]))'
    BY <1>4, <2>2, OwnTaskStep DEF RemoveSave, Goto, TypeInv, TypeOK
  <2>4. OwnRoster'
    BY <1>4, <2>1 DEF RemoveSave, OwnTask, OwnInv, OwnRoster, TypeInv, TypeOK
  <2> QED BY <1>4, <2>3, <2>4, OwnQueue DEF RemoveSave, OwnInv
<1>5. CASE Send(a, t)
  <2> DEFINE e == task[a][t].batch[1]
  <2>1. PICK m \in task[a][t].to :
          /\ queue' = [queue EXCEPT ![m] = Append(@, e)]
          /\ task' = [task EXCEPT ![a][t].to = @ \ {m}]
    BY <1>5 DEF Send
  <2> DEFINE r == [task[a][t] EXCEPT !.to = task[a][t].to \ {m}]
  <2>2. OwnTask(a, task[a][t]) /\ task[a][t] \in Activation /\ task[a][t].step = "send"
    BY <1>5 DEF Send, OwnInv, TypeInv, TypeOK
  <2>3. task[a][t].op \in {"create", "remove", "text"}
    BY <2>2 DEF OwnTask, Activation, Idle
  <2>4. m \in Account /\ Bears(e, m)
    BY <2>2, <2>3 DEF OwnTask, Bears, Activation
  <2>5. OwnTask(a, r)
    BY <2>2 DEF OwnTask, Activation, Idle
  <2>6. task' = [task EXCEPT ![a][t] = r]
    BY <2>1 DEF TypeInv, TypeOK
  <2>7. (\A b \in Account, u \in Task : OwnTask(b, task[b][u]))'
    BY <1>5, <2>5, <2>6, OwnTaskStep DEF Send
  <2>8. (\A n \in Account : \A i \in DOMAIN queue[n] : Bears(queue[n][i], n))'
    <3> SUFFICES ASSUME NEW n \in Account, NEW i \in DOMAIN queue'[n]
                 PROVE  Bears(queue[n][i], n)'
      OBVIOUS
    <3>1. queue \in [Account -> Seq(Envelope)] /\ e \in Envelope
      BY <1>5, <2>2, AtWork, EnvelopeType DEF TypeInv, TypeOK
    <3>2. Bears(queue'[n][i], n)
      <4>1. CASE n = m
        <5>1. i \in 1 .. Len(queue[m]) + 1 /\ queue'[m] = Append(queue[m], e)
          BY <2>1, <2>4, <3>1, <4>1
        <5>2. CASE i = Len(queue[m]) + 1
          BY <2>4, <3>1, <4>1, <5>1, <5>2
        <5>3. CASE i \in DOMAIN queue[m]
          BY <2>4, <3>1, <4>1, <5>1, <5>3 DEF OwnInv
        <5> QED BY <5>1, <5>2, <5>3, <2>4, <3>1
      <4>2. CASE n # m
        BY <2>1, <3>1, <4>2 DEF OwnInv
      <4> QED BY <4>1, <4>2
    <3> QED BY <3>2, <1>5 DEF Send, Bears
  <2> QED BY <1>5, <2>7, <2>8 DEF Send, OwnInv, OwnRoster
<1>6. CASE FanOutEnds(a, t)
  BY <1>6, OwnFinish, OwnQueue DEF FanOutEnds, OwnInv, OwnRoster
<1>7. CASE TextRead(a, t)
  <2> DEFINE r == [task[a][t] EXCEPT !.step = "append", !.seen = log[a]]
  <2>1. task[a][t].op = "text" /\ OwnTask(a, task[a][t]) /\ task[a][t] \in Activation
    BY <1>7 DEF TextRead, OwnInv, TypeInv, TypeOK
  <2>2. OwnTask(a, r)
    BY <2>1 DEF OwnTask, Activation
  <2>3. task' = [task EXCEPT ![a][t] = r]
    BY <1>7 DEF TextRead, TypeInv, TypeOK
  <2>4. (\A b \in Account, u \in Task : OwnTask(b, task[b][u]))'
    BY <1>7, <2>2, <2>3, OwnTaskStep DEF TextRead
  <2> QED BY <1>7, <2>4, OwnQueue DEF TextRead, OwnInv, OwnRoster
<1>8. CASE TextWrite(a, t)
  BY <1>8, OwnFinish, OwnQueue DEF TextWrite, OwnInv, OwnRoster
<1> QED BY <1>1, <1>2, <1>3, <1>4, <1>5, <1>6, <1>7, <1>8 DEF UserStarts, UserGoesOn

LEMMA OwnPoll ==
  ASSUME TypeInv, OwnInv, NEW a \in Account, NEW t \in PollTask, PollFetch(a, t) \/ PollGoesOn(a, t)
  PROVE  OwnInv'
<1> USE DEF counters, races, stores
<1> t \in Task
  BY DEF Task
<1>1. CASE PollFetch(a, t)
  <2>1. OwnTask(a, Poll(queue[a]))
    BY DEF OwnInv, OwnTask, Poll, Idle
  <2>2. (\A b \in Account, u \in Task : OwnTask(b, task[b][u]))'
    BY <1>1, <2>1, OwnTaskStep DEF PollFetch, Fetches, Start
  <2>3. (\A n \in Account : \A i \in DOMAIN queue[n] : Bears(queue[n][i], n))'
    <3> SUFFICES ASSUME NEW n \in Account, NEW i \in DOMAIN queue'[n]
                 PROVE  Bears(queue[n][i], n)'
      OBVIOUS
    <3>1. n # a /\ queue'[n] = queue[n]
      BY <1>1 DEF PollFetch, Fetches, TypeInv, TypeOK
    <3> QED BY <3>1, <1>1 DEF PollFetch, Fetches, OwnInv, Bears
  <2> QED BY <1>1, <2>2, <2>3 DEF PollFetch, Fetches, OwnInv, OwnRoster
<1>2. CASE HandleInvite(a, t) \/ HandleUpdate(a, t)
  <2> DEFINE e == task[a][t].batch[1]
  <2>1. task[a][t].op = "poll" /\ e.kind \in {"invite", "update"} /\ task[a][t] # Idle
    BY <1>2, AtWork DEF HandleInvite, HandleUpdate, Handling, Idle
  <2>2. a \in e.roster /\ e.roster \subseteq founders
    <3>1. 1 \in DOMAIN task[a][t].batch
      BY <2>1 DEF TypeInv, TypeOK, Busy, Activation
    <3> QED BY <2>1, <3>1 DEF OwnInv, OwnTask, Bears
  <2>3. OwnRoster'
    BY <1>2, <2>2 DEF HandleInvite, HandleUpdate, OwnInv, OwnRoster, TypeInv, TypeOK
  <2>4. (\A b \in Account, u \in Task : OwnTask(b, task[b][u]))'
    BY <1>2, <2>1, OwnTail DEF HandleInvite, HandleUpdate
  <2> QED BY <1>2, <2>3, <2>4, OwnQueue DEF HandleInvite, HandleUpdate, OwnInv
<1>3. CASE HandleCheck(a, t)
  <2>1. task[a][t].op = "poll" /\ OwnTask(a, task[a][t]) /\ task[a][t] \in Activation
    BY <1>3 DEF HandleCheck, Handling, OwnInv, TypeInv, TypeOK
  <2>2. (\A b \in Account, u \in Task : OwnTask(b, task[b][u]))'
    <3>1. CASE NextEnvelope(a, t)
      BY <1>3, <2>1, <3>1, OwnTail DEF HandleCheck
    <3>2. ASSUME NEW s \in {"overwrite", "read"}, Goto(a, t, s)
          PROVE  (\A b \in Account, u \in Task : OwnTask(b, task[b][u]))'
      <4> DEFINE r == [task[a][t] EXCEPT !.step = s]
      <4>1. OwnTask(a, r)
        BY <2>1 DEF OwnTask, Activation
      <4>2. task' = [task EXCEPT ![a][t] = r]
        BY <3>2 DEF Goto, TypeInv, TypeOK
      <4> QED BY <1>3, <4>1, <4>2, OwnTaskStep DEF HandleCheck
    <3> QED BY <1>3, <3>1, <3>2 DEF HandleCheck
  <2> QED BY <1>3, <2>2, OwnQueue DEF HandleCheck, OwnInv, OwnRoster
<1>4. CASE HandleRead(a, t)
  <2> DEFINE r == [task[a][t] EXCEPT !.step = "append", !.seen = log[a]]
  <2>1. task[a][t].op = "poll" /\ OwnTask(a, task[a][t]) /\ task[a][t] \in Activation
    BY <1>4 DEF HandleRead, Handling, OwnInv, TypeInv, TypeOK
  <2>2. OwnTask(a, r)
    BY <2>1 DEF OwnTask, Activation
  <2>3. task' = [task EXCEPT ![a][t] = r]
    BY <1>4 DEF HandleRead, TypeInv, TypeOK
  <2>4. (\A b \in Account, u \in Task : OwnTask(b, task[b][u]))'
    BY <1>4, <2>2, <2>3, OwnTaskStep DEF HandleRead
  <2> QED BY <1>4, <2>4, OwnQueue DEF HandleRead, OwnInv, OwnRoster
<1>5. CASE HandleWrite(a, t)
  <2>1. task[a][t].op = "poll"
    BY <1>5 DEF HandleWrite, Handling
  <2> QED BY <1>5, <2>1, OwnTail, OwnQueue DEF HandleWrite, OwnInv, OwnRoster
<1> QED BY <1>1, <1>2, <1>3, <1>4, <1>5 DEF PollGoesOn

LEMMA OwnNext == TypeInv /\ OwnInv /\ [Next]_vars => OwnInv'
<1> SUFFICES ASSUME TypeInv, OwnInv, [Next]_vars PROVE OwnInv'
  OBVIOUS
<1>1. CASE Next
  <2>1. ASSUME NEW a \in Account, NEW t \in Task, Fail(a, t)
        PROVE  OwnInv'
    BY <2>1, OwnFinish, OwnQueue DEF Fail, OwnInv, OwnRoster, stores
  <2> QED BY <1>1, <2>1, OwnUser, OwnPoll DEF Next
<1>2. CASE UNCHANGED vars
  BY <1>2 DEF vars, stores, counters, races, OwnInv, OwnRoster, OwnTask, Bears
<1> QED BY <1>1, <1>2

LEMMA OwnInvariant == Spec => []OwnInv
BY TypeInvariant, OwnInit, OwnNext, PTL DEF Spec

(* A client's roster lists itself and founding members only: no interleaving of *)
(* invites, updates and removals adds anyone or tells a member of its removal.  *)
THEOREM RostersOwn == Spec => []OwnRoster
<1>1. OwnInv => OwnRoster
  BY DEF OwnInv
<1> QED BY <1>1, OwnInvariant, PTL

-----------------------------------------------------------------------------
(* What is shown of a text, wherever it is *)
EntryOf(e) == [from |-> e.from, id |-> e.id]
IsText(e) == e.kind = "text"

(* Of two texts for member m, the one that comes first: they differ, and come  *)
(* in the order of their numbers if one member sent both and m is one of W, the *)
(* members that run one poll at a time.                                         *)
Precedes(W, m, x, y) == x # y /\ (m \in W /\ x.from = y.from => x.id < y.id)
Before(W, m, X, Y) == \A x \in X : \A y \in Y : Precedes(W, m, x, y)

Ordered(W, m, l) == \A i, j \in DOMAIN l : i < j => Precedes(W, m, l[i], l[j])
Lined(W, m, s) ==
  \A i, j \in DOMAIN s :
    i < j /\ IsText(s[i]) /\ IsText(s[j]) => Precedes(W, m, EntryOf(s[i]), EntryOf(s[j]))

(* Where the texts for member m are *)
Entries(l) == {l[i] : i \in DOMAIN l}
Carried(s) == {EntryOf(s[i]) : i \in {j \in DOMAIN s : IsText(s[j])}}
Polling(m, t) == task[m][t].op = "poll"
Texting(a, t) == task[a][t].op = "text"
InQueue(m) == Carried(queue[m])
InBatch(m, t) == IF Polling(m, t) THEN Carried(task[m][t].batch) ELSE {}
Due(m, a, t) ==
  IF Texting(a, t) /\ (m = a \/ m \in task[a][t].to) THEN {EntryOf(task[a][t].batch[1])} ELSE {}
Shown(m) == Entries(log[m]) \cup UNION {Entries(task[m][t].seen) : t \in Task}

(* A member sends one text at a time, under a number of its own, and to others; *)
(* and until its polls overlap it has one of them.                              *)
Rostering(r) == r.op \in {"create", "remove"}
SenderInv ==
  \A a \in Account :
    /\ \A t \in Task : Rostering(task[a][t]) => ~IsText(task[a][t].batch[1])
    /\ \A t, u \in Task : Texting(a, t) /\ Texting(a, u) => t = u
    /\ \A t \in Task : Texting(a, t) =>
         /\ task[a][t].batch[1].kind = "text" /\ task[a][t].batch[1].from = a
         /\ task[a][t].batch[1].id <= texts
         /\ a \notin task[a][t].to
    /\ \A t \in Task : Polling(a, t) => t \in PollTask
    /\ a \notin overlapped => \A t, u \in Task : Polling(a, t) /\ Polling(a, u) => t = u

(* The texts for member m, each in one place, and in order on their way *)
Placed(W, m) ==
  /\ Before(W, m, Shown(m), InQueue(m))
  /\ \A t \in Task : Before(W, m, Shown(m), InBatch(m, t)) /\ Before(W, m, InBatch(m, t), InQueue(m))
  /\ \A t, u \in Task : t # u => InBatch(m, t) \cap InBatch(m, u) = {}
  /\ \A a \in Account : \A u \in Task :
       /\ Before(W, m, Shown(m), Due(m, a, u)) /\ Before(W, m, InQueue(m), Due(m, a, u))
       /\ \A t \in Task : Before(W, m, InBatch(m, t), Due(m, a, u))

(* ... as each store, queue and task has them *)
Sorted(W, m) ==
  /\ Lined(W, m, queue[m]) /\ Ordered(W, m, log[m])
  /\ \A t \in Task :
       Ordered(W, m, task[m][t].seen) /\ (Polling(m, t) => Lined(W, m, task[m][t].batch))

(* Numbers that were given; and nobody's texts are on their way back to them *)
Numbered(m) ==
  /\ \A x \in Shown(m) : x.id \in 0 .. texts
  /\ \A x \in InQueue(m) : x.id \in 0 .. texts /\ x.from # m
  /\ \A t \in Task : \A x \in InBatch(m, t) : x.id \in 0 .. texts /\ x.from # m

TextInv(W) ==
  SenderInv /\ \A m \in Account : Placed(W, m) /\ Sorted(W, m) /\ Numbered(m)

-----------------------------------------------------------------------------
(* Sequences of entries and of envelopes *)

LEMMA AppendEntry ==
  ASSUME NEW W, NEW m, NEW l \in Seq(Entry), NEW x \in Entry, Ordered(W, m, l), Before(W, m, Entries(l), {x})
  PROVE  Ordered(W, m, Append(l, x)) /\ Entries(Append(l, x)) = Entries(l) \cup {x}
<1> DEFINE k == Append(l, x)
<1>1. /\ DOMAIN k = 1 .. Len(l) + 1 /\ DOMAIN l = 1 .. Len(l) /\ Len(l) \in Nat
      /\ k[Len(l) + 1] = x /\ \A i \in DOMAIN l : k[i] = l[i]
  OBVIOUS
<1> HIDE DEF k
<1>2. \A i \in DOMAIN k : i \in DOMAIN l \/ i = Len(l) + 1
  BY <1>1
<1>3. Entries(k) = Entries(l) \cup {x}
  BY <1>1, <1>2 DEF Entries
<1>4. ASSUME NEW i \in DOMAIN k, NEW j \in DOMAIN k, i < j PROVE Precedes(W, m, k[i], k[j])
  <2>1. i \in DOMAIN l
    BY <1>1, <1>2, <1>4
  <2>2. CASE j \in DOMAIN l
    BY <1>1, <1>4, <2>1, <2>2 DEF Ordered
  <2>3. CASE j = Len(l) + 1
    BY <1>1, <2>1, <2>3 DEF Before, Entries
  <2> QED
    BY <1>2, <2>2, <2>3
<1> QED
  BY <1>3, <1>4 DEF Ordered, k

LEMMA AppendEnvelope ==
  ASSUME NEW W, NEW m, NEW s \in Seq(Envelope), NEW e \in Envelope, Lined(W, m, s),
         IsText(e) => Before(W, m, Carried(s), {EntryOf(e)})
  PROVE  /\ Lined(W, m, Append(s, e))
         /\ Carried(Append(s, e)) = Carried(s) \cup (IF IsText(e) THEN {EntryOf(e)} ELSE {})
<1> DEFINE k == Append(s, e)
<1>1. /\ DOMAIN k = 1 .. Len(s) + 1 /\ DOMAIN s = 1 .. Len(s) /\ Len(s) \in Nat
      /\ k[Len(s) + 1] = e /\ \A i \in DOMAIN s : k[i] = s[i]
  OBVIOUS
<1> HIDE DEF k
<1>2. \A i \in DOMAIN k : i \in DOMAIN s \/ i = Len(s) + 1
  BY <1>1
<1>3. Carried(k) = Carried(s) \cup (IF IsText(e) THEN {EntryOf(e)} ELSE {})
  BY <1>1, <1>2 DEF Carried
<1>4. ASSUME NEW i \in DOMAIN k, NEW j \in DOMAIN k, i < j, IsText(k[i]), IsText(k[j])
      PROVE  Precedes(W, m, EntryOf(k[i]), EntryOf(k[j]))
  <2>1. i \in DOMAIN s
    BY <1>1, <1>2, <1>4
  <2>2. CASE j \in DOMAIN s
    BY <1>1, <1>4, <2>1, <2>2 DEF Lined
  <2>3. CASE j = Len(s) + 1
    BY <1>1, <1>4, <2>1, <2>3 DEF Before, Carried
  <2> QED
    BY <1>2, <2>2, <2>3
<1> QED
  BY <1>3, <1>4 DEF Lined, k

LEMMA TailEnvelope ==
  ASSUME NEW W, NEW m, NEW s \in Seq(Envelope), s # <<>>, Lined(W, m, s)
  PROVE  /\ Lined(W, m, Tail(s)) /\ Carried(Tail(s)) \subseteq Carried(s)
         /\ IsText(s[1]) =>
              EntryOf(s[1]) \in Carried(s) /\ Before(W, m, {EntryOf(s[1])}, Carried(Tail(s)))
<1> DEFINE k == Tail(s)
<1>1. /\ DOMAIN s = 1 .. Len(s) /\ Len(s) \in Nat /\ 1 \in DOMAIN s /\ DOMAIN k \subseteq Nat \ {0}
      /\ \A i \in DOMAIN k : i + 1 \in DOMAIN s /\ k[i] = s[i + 1]
  OBVIOUS
<1> HIDE DEF k
<1>2. Carried(k) \subseteq Carried(s)
  BY <1>1 DEF Carried
<1>3. Lined(W, m, k)
  <2> SUFFICES ASSUME NEW i \in DOMAIN k, NEW j \in DOMAIN k, i < j, IsText(k[i]), IsText(k[j])
               PROVE  Precedes(W, m, EntryOf(k[i]), EntryOf(k[j]))
    BY DEF Lined
  <2>1. i + 1 < j + 1 /\ i + 1 \in DOMAIN s /\ j + 1 \in DOMAIN s /\ k[i] = s[i + 1] /\ k[j] = s[j + 1]
    BY <1>1
  <2> QED
    BY <2>1 DEF Lined
<1>4. ASSUME IsText(s[1]) PROVE Before(W, m, {EntryOf(s[1])}, Carried(k))
  <2> SUFFICES ASSUME NEW j \in DOMAIN k, IsText(k[j])
               PROVE  Precedes(W, m, EntryOf(s[1]), EntryOf(k[j]))
    BY DEF Before, Carried
  <2>1. 1 < j + 1 /\ j + 1 \in DOMAIN s /\ k[j] = s[j + 1]
    BY <1>1
  <2> QED
    BY <1>1, <1>4, <2>1 DEF Lined
<1>5. IsText(s[1]) => EntryOf(s[1]) \in Carried(s)
  BY <1>1 DEF Carried
<1> QED
  BY <1>2, <1>3, <1>4, <1>5 DEF k

LEMMA EmptySequence ==
  /\ Carried(<<>>) = {} /\ Entries(<<>>) = {}
  /\ \A W, m : Lined(W, m, <<>>) /\ Ordered(W, m, <<>>)
  BY DEF Carried, Lined, Entries, Ordered

LEMMA BeforeMore ==
  ASSUME NEW W, NEW m, NEW X, NEW Y, NEW x, Before(W, m, X, Y), \A y \in X : Precedes(W, m, y, x),
         NEW V \in SUBSET X, NEW Z \in SUBSET (Y \cup {x})
  PROVE  Before(W, m, V, Z)
  BY DEF Before

-----------------------------------------------------------------------------
(* What moves when one task changes *)

Becomes(a, t, r) == task' = [task EXCEPT ![a][t] = r]

LEMMA OtherTask ==
  ASSUME TypeInv, NEW a \in Account, NEW t \in Task, NEW r, Becomes(a, t, r)
  PROVE  /\ task'[a][t] = r
         /\ \A b \in Account, u \in Task : ~(b = a /\ u = t) => task'[b][u] = task[b][u]
  BY DEF TypeInv, TypeOK, Becomes

LEMMA OtherPlaces ==
  ASSUME TypeInv, NEW a \in Account, NEW t \in Task, NEW r, Becomes(a, t, r)
  PROVE  /\ \A m \in Account, u \in Task : ~(m = a /\ u = t) => InBatch(m, u)' = InBatch(m, u)
         /\ \A m \in Account, b \in Account, u \in Task :
              ~(b = a /\ u = t) => Due(m, b, u)' = Due(m, b, u)
         /\ InBatch(a, t)' = IF r.op = "poll" THEN Carried(r.batch) ELSE {}
         /\ \A m \in Account :
              Due(m, a, t)' = IF r.op = "text" /\ (m = a \/ m \in r.to)
                                THEN {EntryOf(r.batch[1])} ELSE {}
<1>1. /\ task'[a][t] = r
      /\ \A b \in Account, u \in Task : ~(b = a /\ u = t) => task'[b][u] = task[b][u]
  BY OtherTask
<1>2. ASSUME NEW m \in Account, NEW u \in Task, ~(m = a /\ u = t)
      PROVE  InBatch(m, u)' = InBatch(m, u)
  BY <1>1, <1>2 DEF InBatch, Polling
<1>3. ASSUME NEW m \in Account, NEW b \in Account, NEW u \in Task, ~(b = a /\ u = t)
      PROVE  Due(m, b, u)' = Due(m, b, u)
  BY <1>1, <1>3 DEF Due, Texting
<1>4. InBatch(a, t)' = IF r.op = "poll" THEN Carried(r.batch) ELSE {}
  BY <1>1 DEF InBatch, Polling
<1>5. ASSUME NEW m \in Account
      PROVE  Due(m, a, t)' = IF r.op = "text" /\ (m = a \/ m \in r.to)
                               THEN {EntryOf(r.batch[1])} ELSE {}
  BY <1>1 DEF Due, Texting
<1> QED
  BY <1>2, <1>3, <1>4, <1>5

(* The history that one task of m has read and the one stored *)
LEMMA ShownAre ==
  ASSUME NEW m \in Account, NEW x
  PROVE  x \in Shown(m) <=> x \in Entries(log[m]) \/ \E t \in Task : x \in Entries(task[m][t].seen)
  BY DEF Shown

LEMMA ShownStep ==
  ASSUME TypeInv, NEW a \in Account, NEW t \in Task, NEW r, Becomes(a, t, r)
  PROVE  /\ \A m \in Account : m # a /\ log'[m] = log[m] => Shown(m)' = Shown(m)
         /\ Shown(a)' \subseteq Entries(log'[a]) \cup Entries(r.seen) \cup Shown(a)
<1>1. /\ task'[a][t] = r
      /\ \A b \in Account, u \in Task : ~(b = a /\ u = t) => task'[b][u] = task[b][u]
  BY OtherTask
<1>2. ASSUME NEW m \in Account, m # a, log'[m] = log[m] PROVE Shown(m)' = Shown(m)
  BY <1>1, <1>2 DEF Shown
<1>3. Shown(a)' \subseteq Entries(log'[a]) \cup Entries(r.seen) \cup Shown(a)
  BY <1>1 DEF Shown
<1> QED
  BY <1>2, <1>3

(* The text a task sends, while it sends it *)
LEMMA TextingFacts ==
  ASSUME TypeInv, SenderInv, NEW a \in Account, NEW t \in Task, Texting(a, t)
  PROVE  /\ task[a][t].batch[1] \in Envelope /\ IsText(task[a][t].batch[1])
         /\ task[a][t].batch[1].from = a /\ task[a][t].batch[1].id <= texts
         /\ a \notin task[a][t].to
<1>1. task[a][t] # Idle
  BY AtWork DEF Texting
<1> QED
  BY <1>1, EnvelopeType DEF SenderInv, IsText

LEMMA SenderKept ==
  ASSUME TypeInv, SenderInv, NEW a \in Account, NEW t \in Task, NEW r, Becomes(a, t, r),
         texts' \in Nat, texts <= texts',
         overlapped \subseteq overlapped',
         r.op = "poll" => /\ t \in PollTask
                          /\ a \in overlapped' \/ \A u \in Task : u # t => ~Polling(a, u),
         Rostering(r) => ~IsText(r.batch[1]),
         r.op = "text" => /\ r.batch[1].kind = "text" /\ r.batch[1].from = a
                          /\ r.batch[1].id <= texts' /\ a \notin r.to
                          /\ \A u \in Task : u # t => ~Texting(a, u)
  PROVE  SenderInv'
<1>1. /\ task'[a][t] = r
      /\ \A b \in Account, u \in Task : ~(b = a /\ u = t) => task'[b][u] = task[b][u]
  BY OtherTask
<1>2. ASSUME NEW b \in Account, NEW u \in Task, task'[b][u].op = "text"
      PROVE  /\ task'[b][u].batch[1].kind = "text" /\ task'[b][u].batch[1].from = b
             /\ task'[b][u].batch[1].id <= texts' /\ b \notin task'[b][u].to
  <2>1. CASE b = a /\ u = t
    BY <1>1, <1>2, <2>1
  <2>2. CASE ~(b = a /\ u = t)
    <3>1. task'[b][u] = task[b][u] /\ Texting(b, u)
      BY <1>1, <1>2, <2>2 DEF Texting
    <3>2. /\ task[b][u].batch[1] \in Envelope /\ IsText(task[b][u].batch[1])
          /\ task[b][u].batch[1].from = b /\ task[b][u].batch[1].id <= texts
          /\ b \notin task[b][u].to
      BY <3>1, TextingFacts
    <3>3. task[b][u].batch[1].id \in Nat /\ texts \in Nat
      BY <3>2 DEF Envelope, TypeInv, TypeOK
    <3> QED
      BY <3>1, <3>2, <3>3 DEF IsText
  <2> QED
    BY <2>1, <2>2
<1>3. ASSUME NEW b \in Account, NEW u \in Task, NEW v \in Task,
             task'[b][u].op = "text", task'[b][v].op = "text"
      PROVE  u = v
  BY <1>1, <1>3 DEF SenderInv, Texting
<1>4. ASSUME NEW b \in Account, NEW u \in Task, task'[b][u].op = "poll" PROVE u \in PollTask
  BY <1>1, <1>4 DEF SenderInv, Polling
<1>5. ASSUME NEW b \in Account, NEW u \in Task, Rostering(task'[b][u])
      PROVE  ~IsText(task'[b][u].batch[1])
  BY <1>1, <1>5 DEF SenderInv
<1>6. ASSUME NEW b \in Account \ overlapped', NEW u \in Task, NEW v \in Task,
             task'[b][u].op = "poll", task'[b][v].op = "poll"
      PROVE  u = v
  BY <1>1, <1>6 DEF SenderInv, Polling
<1> QED
  BY <1>2, <1>3, <1>4, <1>5, <1>6 DEF SenderInv, Texting, Polling

(* Fewer texts are on their way to m, and those in X are shown, which come      *)
(* before the texts that still are.                                             *)
LEMMA PlacedLess ==
  ASSUME NEW W, NEW m \in Account, Placed(W, m), NEW X,
         Shown(m)' \subseteq Shown(m) \cup X,
         InQueue(m)' \subseteq InQueue(m),
         \A t \in Task : InBatch(m, t)' \subseteq InBatch(m, t),
         \A a \in Account : \A u \in Task : Due(m, a, u)' \subseteq Due(m, a, u),
         Before(W, m, X, InQueue(m)'),
         \A t \in Task : Before(W, m, X, InBatch(m, t)'),
         \A a \in Account : \A u \in Task : Before(W, m, X, Due(m, a, u)')
  PROVE  Placed(W, m)'
<1>1. Before(W, m, Shown(m)', InQueue(m)')
  BY DEF Placed, Before
<1>2. ASSUME NEW t \in Task
      PROVE  Before(W, m, Shown(m)', InBatch(m, t)') /\ Before(W, m, InBatch(m, t)', InQueue(m)')
  BY DEF Placed, Before
<1>3. ASSUME NEW t \in Task, NEW u \in Task, t # u
      PROVE  InBatch(m, t)' \cap InBatch(m, u)' = {}
  BY <1>3 DEF Placed
<1>4. ASSUME NEW a \in Account, NEW u \in Task
      PROVE  /\ Before(W, m, Shown(m)', Due(m, a, u)') /\ Before(W, m, InQueue(m)', Due(m, a, u)')
             /\ \A t \in Task : Before(W, m, InBatch(m, t)', Due(m, a, u)')
  BY DEF Placed, Before
<1> QED
  BY <1>1, <1>2, <1>3, <1>4 DEF Placed

(* A step of one task that sends nothing new: it may go on in its batch, and    *)
(* put into its member's history what it read and the texts in X.               *)
LEMMA TextStep ==
  ASSUME NEW W, TypeInv, TextInv(W), NEW a \in Account, NEW t \in Task, NEW r, Becomes(a, t, r), NEW X,
         UNCHANGED <<texts, overlapped>>,
         \A m \in Account : InQueue(m)' = InQueue(m) /\ Lined(W, m, queue'[m]),
         \A m \in Account : m # a => log'[m] = log[m],
         Entries(log'[a]) \subseteq Shown(a) \cup X, Ordered(W, a, log'[a]),
         Entries(r.seen) \subseteq Shown(a), Ordered(W, a, r.seen),
         r.op = "poll" => /\ Polling(a, t) /\ Lined(W, a, r.batch)
                          /\ Carried(r.batch) \subseteq Carried(task[a][t].batch),
         r.op = "text" => /\ Texting(a, t) /\ r.to \subseteq task[a][t].to
                          /\ r.batch = task[a][t].batch,
         Rostering(r) => ~IsText(r.batch[1]),
         \A x \in X : x.id \in 0 .. texts,
         Before(W, a, X, InQueue(a)),
         \A u \in Task : Before(W, a, X, InBatch(a, u)'),
         \A b \in Account : \A u \in Task : Before(W, a, X, Due(a, b, u)')
  PROVE  TextInv(W)'
<1>1. SenderInv'
  <2>1. r.op = "poll" =>
          t \in PollTask /\ (a \in overlapped' \/ \A u \in Task : u # t => ~Polling(a, u))
    BY DEF TextInv, SenderInv
  <2>2. r.op = "text" =>
          /\ r.batch[1].kind = "text" /\ r.batch[1].from = a
          /\ r.batch[1].id <= texts' /\ a \notin r.to
          /\ \A u \in Task : u # t => ~Texting(a, u)
    BY DEF TextInv, SenderInv
  <2>3. texts \in Nat
    BY DEF TypeInv, TypeOK
  <2> QED
    BY <2>1, <2>2, <2>3, SenderKept DEF TextInv
<1>2. ASSUME NEW m \in Account, NEW u \in Task PROVE InBatch(m, u)' \subseteq InBatch(m, u)
  <2>1. CASE m = a /\ u = t
    BY <2>1, OtherPlaces DEF InBatch
  <2>2. CASE ~(m = a /\ u = t)
    BY <2>2, OtherPlaces
  <2> QED
    BY <2>1, <2>2
<1>3. ASSUME NEW m \in Account, NEW b \in Account, NEW u \in Task
      PROVE  Due(m, b, u)' \subseteq Due(m, b, u)
  <2>1. CASE b = a /\ u = t
    <3>1. Due(m, a, t)' = IF r.op = "text" /\ (m = a \/ m \in r.to)
                            THEN {EntryOf(r.batch[1])} ELSE {}
      BY OtherPlaces
    <3> QED
      BY <2>1, <3>1 DEF Due
  <2>2. CASE ~(b = a /\ u = t)
    BY <2>2, OtherPlaces
  <2> QED
    BY <2>1, <2>2
<1>4. /\ \A m \in Account : m # a => Shown(m)' = Shown(m)
      /\ Shown(a)' \subseteq Shown(a) \cup X
  BY ShownStep
<1>5. ASSUME NEW m \in Account PROVE Placed(W, m)'
  <2>1. CASE m = a
    BY <1>2, <1>3, <1>4, <2>1, PlacedLess DEF TextInv
  <2>2. CASE m # a
    <3>1. \A S : Before(W, m, {}, S)
      BY DEF Before
    <3>2. Shown(m)' \subseteq Shown(m) \cup {} /\ Placed(W, m)
      BY <1>4, <2>2 DEF TextInv
    <3> QED
      BY <1>2, <1>3, <3>1, <3>2, PlacedLess
  <2> QED
    BY <2>1, <2>2
<1>6. ASSUME NEW m \in Account PROVE Sorted(W, m)'
  <2>1. /\ task'[a][t] = r
        /\ \A b \in Account, u \in Task : ~(b = a /\ u = t) => task'[b][u] = task[b][u]
    BY OtherTask
  <2>2. ASSUME NEW u \in Task
        PROVE  Ordered(W, m, task'[m][u].seen) /\ (Polling(m, u)' => Lined(W, m, task'[m][u].batch))
    <3>1. CASE m = a /\ u = t
      BY <2>1, <3>1 DEF Polling
    <3>2. CASE ~(m = a /\ u = t)
      BY <2>1, <3>2 DEF TextInv, Sorted, Polling
    <3> QED
      BY <3>1, <3>2
  <2>3. Lined(W, m, queue'[m]) /\ Ordered(W, m, log'[m])
    BY DEF TextInv, Sorted
  <2> QED
    BY <2>2, <2>3 DEF Sorted
<1>7. ASSUME NEW m \in Account PROVE Numbered(m)'
  BY <1>2, <1>4 DEF TextInv, Numbered
<1> QED
  BY <1>1, <1>5, <1>6, <1>7 DEF TextInv

(* ... and shows nothing new either *)
LEMMA QuietStep ==
  ASSUME NEW W, TypeInv, TextInv(W), NEW a \in Account, NEW t \in Task, NEW r, Becomes(a, t, r),
         UNCHANGED <<texts, log, overlapped>>,
         \A m \in Account : InQueue(m)' = InQueue(m) /\ Lined(W, m, queue'[m]),
         r.seen = <<>> \/ r.seen = log[a] \/ r.seen = task[a][t].seen,
         r.op = "poll" => /\ Polling(a, t) /\ Lined(W, a, r.batch)
                          /\ Carried(r.batch) \subseteq Carried(task[a][t].batch),
         r.op = "text" => /\ Texting(a, t) /\ r.to \subseteq task[a][t].to
                          /\ r.batch = task[a][t].batch,
         Rostering(r) => ~IsText(r.batch[1])
  PROVE  TextInv(W)'
<1>1. Entries(log[a]) \subseteq Shown(a) /\ Entries(task[a][t].seen) \subseteq Shown(a)
  BY DEF Shown
<1>2. Ordered(W, a, log[a]) /\ Ordered(W, a, task[a][t].seen)
  BY DEF TextInv, Sorted
<1>3. Entries(r.seen) \subseteq Shown(a) /\ Ordered(W, a, r.seen)
  BY <1>1, <1>2, EmptySequence
<1>4. \A S : Before(W, a, {}, S)
  BY DEF Before
<1>5. Entries(log'[a]) \subseteq Shown(a) \cup {} /\ Ordered(W, a, log'[a])
  BY <1>1, <1>2
<1>6. \A m \in Account : m # a => log'[m] = log[m]
  OBVIOUS
<1> QED
  BY <1>3, <1>4, <1>5, <1>6, TextStep

LEMMA QueuesStay ==
  ASSUME NEW W, TextInv(W), queue' = queue
  PROVE  \A m \in Account : InQueue(m)' = InQueue(m) /\ Lined(W, m, queue'[m])
  BY DEF TextInv, Sorted, InQueue

-----------------------------------------------------------------------------
(* A text is numbered *)

LEMMA NumberText ==
  ASSUME NEW W, TypeInv, TextInv(W), NEW a \in Account, NEW t \in UserTask, TextLoad(a, t)
  PROVE  TextInv(W)'
<1> DEFINE x == EntryOf(Text(a))
           r == FanOut("text", "send", Text(a), roster[a] \ {a})
<1>0. /\ t \in Task /\ texts \in Nat /\ texts' = texts + 1
      /\ UNCHANGED <<log, queue, overlapped>>
  BY DEF Task, TypeInv, TypeOK, TextLoad, stores, races
<1>1. Becomes(a, t, r) /\ task[a][t] = Idle
  BY DEF TextLoad, Start, Becomes
<1>2. /\ r.op = "text" /\ r.seen = <<>> /\ r.batch[1] = Text(a) /\ r.to = roster[a] \ {a}
      /\ Text(a).kind = "text" /\ Text(a).from = a /\ Text(a).id = texts + 1
      /\ x.id = texts + 1 /\ x.from = a
  BY DEF FanOut, Text, EntryOf
<1>3. \A u \in Task : ~Texting(a, u)
  BY DEF TextLoad, Sending, Texting
<1> HIDE DEF r, x
<1>4. SenderInv'
  BY <1>0, <1>1, <1>2, <1>3, SenderKept DEF TextInv, Rostering
<1>5. \A m, y : y.id \in 0 .. texts => Precedes(W, m, y, x)
  <2>1. ASSUME NEW y, y.id \in 0 .. texts PROVE y.id < x.id
    BY <1>0, <1>2, <2>1
  <2> QED
    BY <1>0, <1>2, <2>1 DEF Precedes
<1>6. \A m \in Account, u \in Task : InBatch(m, u)' \subseteq InBatch(m, u)
  BY <1>0, <1>1, <1>2, OtherPlaces
<1>7. \A m \in Account, b \in Account, u \in Task :
        Due(m, b, u)' \subseteq Due(m, b, u) \cup {x}
  <2>1. r.batch[1] = Text(a) => EntryOf(r.batch[1]) = x
    BY DEF x
  <2> QED
    BY <1>0, <1>1, <1>2, <2>1, OtherPlaces
<1>8. \A m \in Account : Shown(m)' \subseteq Shown(m) /\ InQueue(m)' = InQueue(m)
  <2>1. Entries(log'[a]) \subseteq Shown(a) /\ Entries(r.seen) = {}
    BY <1>0, <1>2, EmptySequence DEF Shown
  <2>2. \A m \in Account : InQueue(m)' = InQueue(m)
    BY <1>0, QueuesStay
  <2> QED
    BY <1>0, <1>1, <2>1, <2>2, ShownStep
<1>9. ASSUME NEW m \in Account PROVE Placed(W, m)'
  <2>1. Placed(W, m) /\ Numbered(m)
    BY DEF TextInv
  <2>2. /\ \A y \in Shown(m) : Precedes(W, m, y, x)
        /\ \A y \in InQueue(m) : Precedes(W, m, y, x)
        /\ \A u \in Task : \A y \in InBatch(m, u) : Precedes(W, m, y, x)
    BY <1>5, <2>1 DEF Numbered
  <2>3. /\ Before(W, m, Shown(m)', InQueue(m)')
        /\ \A u \in Task : /\ Before(W, m, Shown(m)', InBatch(m, u)')
                           /\ Before(W, m, InBatch(m, u)', InQueue(m)')
    BY <1>6, <1>8, <2>1 DEF Placed, Before
  <2>4. \A u, v \in Task : u # v => InBatch(m, u)' \cap InBatch(m, v)' = {}
    BY <1>6, <2>1 DEF Placed
  <2>5. ASSUME NEW b \in Account, NEW u \in Task
        PROVE  /\ Before(W, m, Shown(m)', Due(m, b, u)') /\ Before(W, m, InQueue(m)', Due(m, b, u)')
               /\ \A v \in Task : Before(W, m, InBatch(m, v)', Due(m, b, u)')
    <3>1. /\ Before(W, m, Shown(m), Due(m, b, u)) /\ Before(W, m, InQueue(m), Due(m, b, u))
          /\ \A v \in Task : Before(W, m, InBatch(m, v), Due(m, b, u))
      BY <2>1 DEF Placed
    <3>2. Due(m, b, u)' \subseteq Due(m, b, u) \cup {x}
      BY <1>7
    <3>3. Before(W, m, Shown(m)', Due(m, b, u)')
      <4>1. Shown(m)' \in SUBSET Shown(m) /\ \A y \in Shown(m) : Precedes(W, m, y, x)
        BY <1>8, <2>2
      <4> QED
        BY <3>1, <3>2, <4>1, BeforeMore
    <3>4. Before(W, m, InQueue(m)', Due(m, b, u)')
      <4>1. InQueue(m)' = InQueue(m)
        BY <1>8
      <4>2. \A y \in InQueue(m) : Precedes(W, m, y, x)
        BY <2>2
      <4>3. Before(W, m, InQueue(m), Due(m, b, u)')
        BY <3>1, <3>2, <4>2, BeforeMore
      <4> QED
        BY <4>1, <4>3
    <3>5. ASSUME NEW v \in Task PROVE Before(W, m, InBatch(m, v)', Due(m, b, u)')
      <4>1. InBatch(m, v)' \in SUBSET InBatch(m, v)
        BY <1>6
      <4>2. \A y \in InBatch(m, v) : Precedes(W, m, y, x)
        BY <2>2
      <4>3. Before(W, m, InBatch(m, v), Due(m, b, u))
        BY <3>1
      <4> QED
        BY <3>2, <4>1, <4>2, <4>3, BeforeMore
    <3> QED
      BY <3>3, <3>4, <3>5
  <2> QED
    BY <2>3, <2>4, <2>5 DEF Placed
<1>10. ASSUME NEW m \in Account PROVE Sorted(W, m)'
  <2>1. /\ task'[a][t] = r
        /\ \A b \in Account, u \in Task : ~(b = a /\ u = t) => task'[b][u] = task[b][u]
    BY <1>0, <1>1, OtherTask
  <2>2. ASSUME NEW u \in Task
        PROVE  Ordered(W, m, task'[m][u].seen) /\ (Polling(m, u)' => Lined(W, m, task'[m][u].batch))
    <3>1. CASE m = a /\ u = t
      BY <1>2, <2>1, <3>1, EmptySequence DEF Polling
    <3>2. CASE ~(m = a /\ u = t)
      BY <2>1, <3>2 DEF TextInv, Sorted, Polling
    <3> QED
      BY <3>1, <3>2
  <2>3. Lined(W, m, queue'[m]) /\ Ordered(W, m, log'[m])
    BY <1>0 DEF TextInv, Sorted
  <2> QED
    BY <2>2, <2>3 DEF Sorted
<1>11. ASSUME NEW m \in Account PROVE Numbered(m)'
  <2>1. 0 .. texts \subseteq 0 .. texts'
    BY <1>0
  <2> QED
    BY <1>6, <1>8, <2>1 DEF TextInv, Numbered
<1> QED
  BY <1>4, <1>9, <1>10, <1>11 DEF TextInv

-----------------------------------------------------------------------------
(* A text is sent to one of the members *)

LEMMA SendText ==
  ASSUME NEW W, TypeInv, TextInv(W), NEW a \in Account, NEW t \in UserTask, Send(a, t), Texting(a, t)
  PROVE  TextInv(W)'
<1>0. /\ t \in Task /\ texts \in Nat /\ UNCHANGED <<texts, log, overlapped>> /\ task[a][t] \in Activation
      /\ queue \in [Account -> Seq(Envelope)]
  BY DEF Task, TypeInv, TypeOK, Send, stores, counters, races
<1>1. PICK e : e = task[a][t].batch[1]
  OBVIOUS
<1>2. PICK m \in task[a][t].to :
        /\ queue' = [queue EXCEPT ![m] = Append(@, e)]
        /\ task' = [task EXCEPT ![a][t].to = @ \ {m}]
  BY <1>1 DEF Send
<1>3. PICK r : r = [task[a][t] EXCEPT !.to = task[a][t].to \ {m}]
  OBVIOUS
<1>4. /\ Becomes(a, t, r) /\ r.op = "text" /\ r.to = task[a][t].to \ {m}
      /\ r.batch = task[a][t].batch /\ r.seen = task[a][t].seen
  BY <1>0, <1>2, <1>3 DEF TypeInv, TypeOK, Becomes, Texting, Activation
<1>5. /\ e \in Envelope /\ IsText(e) /\ e.from = a /\ e.id <= texts /\ a \notin task[a][t].to
      /\ \A u \in Task : u # t => ~Texting(a, u)
  BY <1>0, <1>1, TextingFacts DEF TextInv, SenderInv
<1>6. m \in Account /\ m # a
  BY <1>0, <1>5 DEF Activation
<1>7. PICK x : x = EntryOf(e)
  OBVIOUS
<1>8. x.from = a /\ x.id \in 0 .. texts
  BY <1>0, <1>5, <1>7 DEF EntryOf, Envelope
<1>9. SenderInv'
  <2>1. r.batch[1].id <= texts' /\ a \notin r.to /\ r.batch[1].kind = "text" /\ r.batch[1].from = a
    BY <1>0, <1>1, <1>4, <1>5 DEF IsText
  <2> QED
    BY <1>0, <1>4, <1>5, <2>1, SenderKept DEF TextInv, Rostering
<1>10. Due(m, a, t) = {x} /\ Due(m, a, t)' = {}
  <2>1. Due(m, a, t) = {x}
    BY <1>1, <1>2, <1>7 DEF Due
  <2>2. Due(m, a, t)' = IF r.op = "text" /\ (m = a \/ m \in r.to)
                          THEN {EntryOf(r.batch[1])} ELSE {}
    BY <1>0, <1>4, <1>6, OtherPlaces
  <2> QED
    BY <1>4, <1>6, <2>1, <2>2
<1>11. \A n \in Account, b \in Account, u \in Task : Due(n, b, u)' \subseteq Due(n, b, u)
  <2>1. ASSUME NEW n \in Account PROVE Due(n, a, t)' \subseteq Due(n, a, t)
    <3>1. Due(n, a, t)' = IF r.op = "text" /\ (n = a \/ n \in r.to)
                            THEN {EntryOf(r.batch[1])} ELSE {}
      BY <1>0, <1>4, OtherPlaces
    <3> QED
      BY <1>4, <3>1 DEF Due
  <2> QED
    BY <1>0, <1>4, <2>1, OtherPlaces
<1>12. \A n \in Account, u \in Task : InBatch(n, u)' \subseteq InBatch(n, u)
  BY <1>0, <1>4, OtherPlaces
<1>13. \A n \in Account : Shown(n)' \subseteq Shown(n)
  <2>1. Entries(log'[a]) \subseteq Shown(a) /\ Entries(r.seen) \subseteq Shown(a)
    BY <1>0, <1>4 DEF Shown
  <2> QED
    BY <1>0, <1>4, <2>1, ShownStep
<1>14. /\ \A n \in Account : n # m => queue'[n] = queue[n]
       /\ queue'[m] = Append(queue[m], e)
  BY <1>0, <1>2, <1>6
<1>15. /\ Placed(W, m) /\ Before(W, m, InQueue(m), {x}) /\ Before(W, m, Shown(m), {x})
       /\ \A v \in Task : Before(W, m, InBatch(m, v), {x})
  <2>1. Placed(W, m)
    BY <1>6 DEF TextInv
  <2>2. /\ Before(W, m, InQueue(m), Due(m, a, t)) /\ Before(W, m, Shown(m), Due(m, a, t))
        /\ \A v \in Task : Before(W, m, InBatch(m, v), Due(m, a, t))
    BY <1>0, <2>1 DEF Placed
  <2> QED
    BY <1>10, <2>1, <2>2
<1>16. Lined(W, m, queue'[m]) /\ InQueue(m)' = InQueue(m) \cup {x}
  <2>1. queue[m] \in Seq(Envelope) /\ Lined(W, m, queue[m]) /\ Before(W, m, Carried(queue[m]), {EntryOf(e)})
    BY <1>0, <1>6, <1>7, <1>15 DEF TextInv, Sorted, InQueue
  <2> QED
    BY <1>5, <1>7, <1>14, <2>1, AppendEnvelope DEF InQueue
<1>17. ASSUME NEW n \in Account, n # m PROVE Placed(W, n)'
  <2>1. \A S : Before(W, n, {}, S)
    BY DEF Before
  <2>2. InQueue(n)' \subseteq InQueue(n) /\ Shown(n)' \subseteq Shown(n) \cup {} /\ Placed(W, n)
    BY <1>13, <1>14, <1>17 DEF InQueue, TextInv
  <2> QED
    BY <1>11, <1>12, <2>1, <2>2, PlacedLess
<1>18. Placed(W, m)'
  <2>1. /\ Before(W, m, Shown(m), {x}) /\ \A v \in Task : Before(W, m, InBatch(m, v), {x})
    BY <1>15
  <2>2. /\ Before(W, m, Shown(m)', InQueue(m)')
        /\ \A v \in Task : /\ Before(W, m, Shown(m)', InBatch(m, v)')
                           /\ Before(W, m, InBatch(m, v)', InQueue(m)')
    BY <1>6, <1>12, <1>13, <1>15, <1>16, <2>1 DEF Placed, Before
  <2>3. \A u, v \in Task : u # v => InBatch(m, u)' \cap InBatch(m, v)' = {}
    BY <1>6, <1>12, <1>15 DEF Placed
  <2>4. ASSUME NEW b \in Account, NEW u \in Task PROVE Before(W, m, {x}, Due(m, b, u)')
    <3>1. CASE b = a
      <4>1. CASE u = t
        BY <1>10, <3>1, <4>1 DEF Before
      <4>2. CASE u # t
        <5>1. Due(m, b, u) = {}
          BY <1>5, <3>1, <4>2 DEF Due
        <5> QED
          BY <1>6, <1>11, <5>1 DEF Before
      <4> QED
        BY <4>1, <4>2
    <3>2. CASE b # a
      <4>1. \A y \in Due(m, b, u) : y.from = b
        BY TextingFacts DEF Due, EntryOf, TextInv
      <4>2. \A y \in Due(m, b, u) : Precedes(W, m, x, y)
        BY <1>8, <3>2, <4>1 DEF Precedes
      <4> QED
        BY <1>6, <1>11, <4>2 DEF Before
    <3> QED
      BY <3>1, <3>2
  <2>5. ASSUME NEW b \in Account, NEW u \in Task
        PROVE  /\ Before(W, m, Shown(m)', Due(m, b, u)') /\ Before(W, m, InQueue(m)', Due(m, b, u)')
               /\ \A v \in Task : Before(W, m, InBatch(m, v)', Due(m, b, u)')
    <3>1. /\ Before(W, m, Shown(m), Due(m, b, u)) /\ Before(W, m, InQueue(m), Due(m, b, u))
          /\ \A v \in Task : Before(W, m, InBatch(m, v), Due(m, b, u))
      BY <1>15 DEF Placed
    <3>2. Due(m, b, u)' \subseteq Due(m, b, u)
      BY <1>6, <1>11
    <3>3. Before(W, m, Shown(m)', Due(m, b, u)')
      BY <1>6, <1>13, <3>1, <3>2 DEF Before
    <3>4. Before(W, m, InQueue(m)', Due(m, b, u)')
      BY <1>16, <2>4, <3>1, <3>2 DEF Before
    <3>5. \A v \in Task : Before(W, m, InBatch(m, v)', Due(m, b, u)')
      BY <1>6, <1>12, <3>1, <3>2 DEF Before
    <3> QED
      BY <3>3, <3>4, <3>5
  <2> QED
    BY <2>2, <2>3, <2>5 DEF Placed
<1>19. ASSUME NEW n \in Account PROVE Sorted(W, n)'
  <2>1. /\ task'[a][t] = r
        /\ \A b \in Account, u \in Task : ~(b = a /\ u = t) => task'[b][u] = task[b][u]
    BY <1>0, <1>4, OtherTask
  <2>2. ASSUME NEW u \in Task
        PROVE  Ordered(W, n, task'[n][u].seen) /\ (Polling(n, u)' => Lined(W, n, task'[n][u].batch))
    <3>1. Ordered(W, n, task[n][u].seen) /\ (Polling(n, u) => Lined(W, n, task[n][u].batch))
      BY DEF TextInv, Sorted
    <3>2. CASE n = a /\ u = t
      BY <1>4, <2>1, <3>1, <3>2 DEF Polling
    <3>3. CASE ~(n = a /\ u = t)
      BY <2>1, <3>1, <3>3 DEF Polling
    <3> QED
      BY <3>2, <3>3
  <2>3. Lined(W, n, queue'[n]) /\ Ordered(W, n, log'[n])
    BY <1>0, <1>14, <1>16 DEF TextInv, Sorted
  <2> QED
    BY <2>2, <2>3 DEF Sorted
<1>20. ASSUME NEW n \in Account PROVE Numbered(n)'
  <2>1. Numbered(n) /\ texts' = texts
    BY <1>0 DEF TextInv
  <2>2. \A y \in InQueue(n)' : y.id \in 0 .. texts /\ y.from # n
    BY <1>6, <1>8, <1>14, <1>16, <2>1 DEF Numbered, InQueue
  <2> QED
    BY <1>12, <1>13, <2>1, <2>2 DEF Numbered
<1> QED
  BY <1>9, <1>17, <1>18, <1>19, <1>20 DEF TextInv

-----------------------------------------------------------------------------
(* A poll takes the queue *)

LEMMA FetchTexts ==
  ASSUME NEW W, TypeInv, TextInv(W), NEW a \in Account, NEW t \in PollTask, PollFetch(a, t)
  PROVE  TextInv(W)'
<1>0. /\ t \in Task /\ texts \in Nat /\ UNCHANGED <<texts, log>>
      /\ queue \in [Account -> Seq(Envelope)]
  BY DEF Task, TypeInv, TypeOK, PollFetch, Fetches, stores, counters, races
<1>1. PICK r : r = Poll(queue[a])
  OBVIOUS
<1>2. /\ Becomes(a, t, r) /\ task[a][t] = Idle
      /\ r.op = "poll" /\ r.batch = queue[a] /\ r.seen = <<>>
  BY <1>1 DEF PollFetch, Fetches, Start, Becomes, Poll, Idle
<1>3. queue'[a] = <<>> /\ \A n \in Account : n # a => queue'[n] = queue[n]
  BY <1>0 DEF PollFetch, Fetches
<1>4. InQueue(a)' = {} /\ \A n \in Account : n # a => InQueue(n)' = InQueue(n)
  BY <1>3, EmptySequence DEF InQueue
<1>5. InBatch(a, t)' = InQueue(a) /\ InBatch(a, t) = {}
  <2>1. InBatch(a, t)' = IF r.op = "poll" THEN Carried(r.batch) ELSE {}
    BY <1>0, <1>2, OtherPlaces
  <2> QED
    BY <1>2, <2>1 DEF InQueue, InBatch, Polling, Idle
<1>6. \A n \in Account, u \in Task : ~(n = a /\ u = t) => InBatch(n, u)' = InBatch(n, u)
  BY <1>0, <1>2, OtherPlaces
<1>7. \A n \in Account, b \in Account, u \in Task : Due(n, b, u)' \subseteq Due(n, b, u)
  BY <1>0, <1>2, OtherPlaces
<1>8. \A n \in Account : Shown(n)' \subseteq Shown(n)
  <2>1. Entries(log'[a]) \subseteq Shown(a) /\ Entries(r.seen) = {}
    BY <1>0, <1>2, EmptySequence DEF Shown
  <2> QED
    BY <1>0, <1>2, <2>1, ShownStep
<1>9. SenderInv'
  <2>1. /\ overlapped \subseteq overlapped'
        /\ a \in overlapped' \/ \A u \in PollTask : task[a][u] = Idle
    BY DEF PollFetch, Fetches
  <2>2. \A u \in Task : Polling(a, u) => u \in PollTask /\ task[a][u] # Idle
    BY DEF TextInv, SenderInv, Polling, Idle
  <2> QED
    BY <1>0, <1>2, <2>1, <2>2, SenderKept DEF TextInv, Rostering
<1>10. ASSUME NEW n \in Account, n # a PROVE Placed(W, n)'
  <2>1. \A S : Before(W, n, {}, S)
    BY DEF Before
  <2>2. InQueue(n)' \subseteq InQueue(n) /\ Shown(n)' \subseteq Shown(n) \cup {} /\ Placed(W, n)
    BY <1>4, <1>8, <1>10 DEF TextInv
  <2>3. \A u \in Task : InBatch(n, u)' \subseteq InBatch(n, u)
    BY <1>6, <1>10
  <2> QED
    BY <1>7, <2>1, <2>2, <2>3, PlacedLess
<1>11. Placed(W, a)'
  <2>0. Placed(W, a)
    BY DEF TextInv
  <2>1. ASSUME NEW u \in Task
        PROVE  /\ Before(W, a, Shown(a)', InBatch(a, u)')
               /\ \A b \in Account : \A v \in Task : Before(W, a, InBatch(a, u)', Due(a, b, v)')
    <3>1. CASE u = t
      BY <1>5, <1>7, <1>8, <2>0, <3>1 DEF Placed, Before
    <3>2. CASE u # t
      BY <1>6, <1>7, <1>8, <2>0, <3>2 DEF Placed, Before
    <3> QED
      BY <3>1, <3>2
  <2>2. /\ Before(W, a, Shown(a)', InQueue(a)') /\ \A u \in Task : Before(W, a, InBatch(a, u)', InQueue(a)')
        /\ \A b \in Account : \A u \in Task : Before(W, a, InQueue(a)', Due(a, b, u)')
    BY <1>4 DEF Before
  <2>3. \A b \in Account : \A u \in Task : Before(W, a, Shown(a)', Due(a, b, u)')
    BY <1>7, <1>8, <2>0 DEF Placed, Before
  <2>4. ASSUME NEW u \in Task, NEW v \in Task, u # v
        PROVE  InBatch(a, u)' \cap InBatch(a, v)' = {}
    <3>1. \A w \in Task : InQueue(a) \cap InBatch(a, w) = {}
      BY <2>0 DEF Placed, Before, Precedes
    <3> QED
      BY <1>5, <1>6, <2>0, <2>4, <3>1 DEF Placed
  <2> QED
    BY <2>1, <2>2, <2>3, <2>4 DEF Placed
<1>12. ASSUME NEW n \in Account PROVE Sorted(W, n)'
  <2>1. /\ task'[a][t] = r
        /\ \A b \in Account, u \in Task : ~(b = a /\ u = t) => task'[b][u] = task[b][u]
    BY <1>0, <1>2, OtherTask
  <2>2. ASSUME NEW u \in Task
        PROVE  Ordered(W, n, task'[n][u].seen) /\ (Polling(n, u)' => Lined(W, n, task'[n][u].batch))
    <3>1. CASE n = a /\ u = t
      BY <1>2, <2>1, <3>1, EmptySequence DEF TextInv, Sorted
    <3>2. CASE ~(n = a /\ u = t)
      BY <2>1, <3>2 DEF TextInv, Sorted, Polling
    <3> QED
      BY <3>1, <3>2
  <2>3. Lined(W, n, queue'[n]) /\ Ordered(W, n, log'[n])
    BY <1>0, <1>3, EmptySequence DEF TextInv, Sorted
  <2> QED
    BY <2>2, <2>3 DEF Sorted
<1>13. ASSUME NEW n \in Account PROVE Numbered(n)'
  <2>1. Numbered(n) /\ texts' = texts
    BY <1>0 DEF TextInv
  <2>2. \A u \in Task : \A y \in InBatch(n, u)' : y.id \in 0 .. texts /\ y.from # n
    BY <1>5, <1>6, <2>1 DEF Numbered
  <2>3. InQueue(n)' \subseteq InQueue(n)
    BY <1>4
  <2> QED
    BY <1>8, <2>1, <2>2, <2>3 DEF Numbered
<1> QED
  BY <1>9, <1>10, <1>11, <1>12, <1>13 DEF TextInv

-----------------------------------------------------------------------------
(* The other steps *)

(* The envelope that a poll is handling *)
LEMMA PollFacts ==
  ASSUME NEW W, TypeInv, TextInv(W), NEW a \in Account, NEW t \in Task, Polling(a, t)
  PROVE  /\ task[a][t].batch \in Seq(Envelope) /\ task[a][t].batch # <<>>
         /\ task[a][t].batch[1] \in Envelope
         /\ Lined(W, a, task[a][t].batch) /\ InBatch(a, t) = Carried(task[a][t].batch)
<1>1. task[a][t] # Idle
  BY AtWork DEF Polling
<1> QED
  BY <1>1, EnvelopeType DEF TypeInv, TypeOK, Busy, Activation, TextInv, Sorted, InBatch

(* The loop goes on to the next envelope *)
LEMMA GoOn ==
  ASSUME NEW W, TypeInv, TextInv(W), NEW a \in Account, NEW t \in Task, Polling(a, t), NextEnvelope(a, t)
  PROVE  \E r : /\ Becomes(a, t, r) /\ r.seen = <<>> /\ r.op \in {"none", "poll"}
                /\ r.op = "poll" => r.batch = Tail(task[a][t].batch)
<1>1. PICK r : r = IF Tail(task[a][t].batch) = <<>> THEN Idle ELSE Poll(Tail(task[a][t].batch))
  OBVIOUS
<1>2. Becomes(a, t, r)
  BY <1>1 DEF NextEnvelope, Becomes
<1>3. /\ r.seen = <<>> /\ r.op \in {"none", "poll"}
      /\ r.op = "poll" => r.batch = Tail(task[a][t].batch)
  BY <1>1 DEF Idle, Poll
<1> QED
  BY <1>2, <1>3

LEMMA QuietPoll ==
  ASSUME NEW W, TypeInv, TextInv(W), NEW a \in Account, NEW t \in Task, Polling(a, t), NextEnvelope(a, t),
         UNCHANGED <<texts, log, queue, overlapped>>
  PROVE  TextInv(W)'
<1>1. PICK r : /\ Becomes(a, t, r) /\ r.seen = <<>> /\ r.op \in {"none", "poll"}
               /\ r.op = "poll" => r.batch = Tail(task[a][t].batch)
  BY GoOn
<1>2. /\ Lined(W, a, Tail(task[a][t].batch))
      /\ Carried(Tail(task[a][t].batch)) \subseteq Carried(task[a][t].batch)
  BY PollFacts, TailEnvelope
<1> QED
  BY <1>1, <1>2, QueuesStay, QuietStep DEF Rostering

(* A task ends, or starts with something that is no text *)
LEMMA QuietStart ==
  ASSUME NEW W, TypeInv, TextInv(W), NEW a \in Account, NEW t \in Task, NEW r, Becomes(a, t, r),
         r.op \notin {"text", "poll"}, Rostering(r) => ~IsText(r.batch[1]),
         r.seen = <<>>, UNCHANGED <<texts, log, queue, overlapped>>
  PROVE  TextInv(W)'
  BY QueuesStay, QuietStep

(* A task keeps its envelopes *)
LEMMA QuietGoto ==
  ASSUME NEW W, TypeInv, TextInv(W), NEW a \in Account, NEW t \in Task, NEW r, Becomes(a, t, r),
         r.op = task[a][t].op, r.batch = task[a][t].batch, r.to = task[a][t].to,
         r.seen = log[a] \/ r.seen = task[a][t].seen, UNCHANGED <<texts, log, queue, overlapped>>
  PROVE  TextInv(W)'
<1>1. r.op = "poll" => /\ Polling(a, t) /\ Lined(W, a, r.batch)
                       /\ Carried(r.batch) \subseteq Carried(task[a][t].batch)
  BY PollFacts DEF Polling
<1>2. Rostering(r) => ~IsText(r.batch[1])
  BY DEF TextInv, SenderInv, Rostering
<1> QED
  BY <1>1, <1>2, QueuesStay, QuietStep DEF Texting

LEMMA GotoIs ==
  ASSUME TypeInv, NEW a \in Account, NEW t \in Task, NEW s, Goto(a, t, s)
  PROVE  \E r : /\ Becomes(a, t, r) /\ r.op = task[a][t].op /\ r.batch = task[a][t].batch
                /\ r.to = task[a][t].to /\ r.seen = task[a][t].seen
<1>1. PICK r : r = [task[a][t] EXCEPT !.step = s]
  OBVIOUS
<1>2. task[a][t] \in Activation
  BY DEF TypeInv, TypeOK
<1>3. Becomes(a, t, r)
  BY <1>1 DEF Goto, Becomes, TypeInv, TypeOK
<1> QED
  BY <1>1, <1>2, <1>3 DEF Activation

(* TextWrite: the sender shows its own text *)
LEMMA ShowOwn ==
  ASSUME NEW W, TypeInv, TextInv(W), NEW a \in Account, NEW t \in UserTask, TextWrite(a, t)
  PROVE  TextInv(W)'
<1>0. /\ t \in Task /\ texts \in Nat /\ UNCHANGED <<texts, queue, overlapped>> /\ Texting(a, t)
      /\ task[a][t] # Idle /\ task[a][t] \in Activation /\ log \in [Account -> Seq(Entry)]
  BY AtWork DEF Task, TypeInv, TypeOK, TextWrite, counters, races, Texting
<1>1. PICK x : x = EntryOf(task[a][t].batch[1])
  OBVIOUS
<1>2. task[a][t].batch[1] \in Envelope /\ x.from = a /\ x.id \in 0 .. texts /\ x \in Entry
  BY <1>0, <1>1, TextingFacts DEF TextInv, EntryOf, Envelope, Entry
<1>3. Becomes(a, t, Idle) /\ Idle.op = "none" /\ Idle.seen = <<>>
  BY DEF TextWrite, Finish, Becomes, Idle
<1>4. /\ log'[a] = Append(task[a][t].seen, x) /\ task[a][t].seen \in Seq(Entry)
      /\ \A m \in Account : m # a => log'[m] = log[m]
  BY <1>0, <1>1 DEF TextWrite, Logged, EntryOf, Activation
<1>5. Before(W, a, Shown(a), {x})
  <2>1. Before(W, a, Shown(a), Due(a, a, t))
    BY <1>0 DEF TextInv, Placed
  <2>2. Due(a, a, t) = {x}
    BY <1>0, <1>1 DEF Due
  <2> QED
    BY <2>1, <2>2
<1>6. Ordered(W, a, log'[a]) /\ Entries(log'[a]) \subseteq Shown(a) \cup {x}
  <2>1. Entries(task[a][t].seen) \subseteq Shown(a)
    BY <1>0 DEF Shown
  <2>2. Ordered(W, a, task[a][t].seen) /\ Before(W, a, Entries(task[a][t].seen), {x})
    BY <1>0, <1>5, <2>1 DEF TextInv, Sorted, Before
  <2>3. /\ Ordered(W, a, Append(task[a][t].seen, x))
        /\ Entries(Append(task[a][t].seen, x)) = Entries(task[a][t].seen) \cup {x}
    BY <1>2, <1>4, <2>2, AppendEntry
  <2> QED
    BY <1>4, <2>1, <2>3
<1>7. \A y : y.from # a => Precedes(W, a, x, y)
  BY <1>2 DEF Precedes
<1>8. Numbered(a)
  BY DEF TextInv
<1>9. Before(W, a, {x}, InQueue(a))
  BY <1>7, <1>8 DEF Before, Numbered
<1>10. ASSUME NEW u \in Task PROVE Before(W, a, {x}, InBatch(a, u)')
  <2>1. InBatch(a, u)' \subseteq InBatch(a, u)
    BY <1>0, <1>3, OtherPlaces
  <2> QED
    BY <1>7, <1>8, <2>1 DEF Before, Numbered
<1>11. ASSUME NEW b \in Account, NEW u \in Task PROVE Before(W, a, {x}, Due(a, b, u)')
  <2>1. CASE b = a /\ u = t
    <3>1. Due(a, a, t)' = {}
      BY <1>0, <1>3, OtherPlaces
    <3> QED
      BY <2>1, <3>1 DEF Before
  <2>2. CASE b = a /\ u # t
    <3>1. ~Texting(b, u)
      BY <1>0, <2>2 DEF TextInv, SenderInv
    <3>2. Due(a, b, u)' = Due(a, b, u)
      BY <1>0, <1>3, <2>2, OtherPlaces
    <3> QED
      BY <3>1, <3>2 DEF Before, Due
  <2>3. CASE b # a
    <3>1. \A y \in Due(a, b, u) : y.from = b
      BY TextingFacts DEF Due, EntryOf, TextInv
    <3>2. Due(a, b, u)' = Due(a, b, u)
      BY <1>0, <1>3, <2>3, OtherPlaces
    <3> QED
      BY <1>7, <2>3, <3>1, <3>2 DEF Before
  <2> QED
    BY <2>1, <2>2, <2>3
<1>12. \A m \in Account : InQueue(m)' = InQueue(m) /\ Lined(W, m, queue'[m])
  BY <1>0, QueuesStay
<1>13. Entries(Idle.seen) \subseteq Shown(a) /\ Ordered(W, a, Idle.seen)
  BY <1>3, EmptySequence
<1>14. PICK X : X = {x}
  OBVIOUS
<1> QED
  BY <1>0, <1>2, <1>3, <1>4, <1>6, <1>9, <1>10, <1>11, <1>12, <1>13, <1>14, TextStep DEF Rostering

(* HandleWrite: a member shows what it received *)
LEMMA ShowReceived ==
  ASSUME NEW W, TypeInv, TextInv(W), W \cap overlapped = {},
         NEW a \in Account, NEW t \in PollTask, HandleWrite(a, t)
  PROVE  TextInv(W)'
<1>0. /\ t \in Task /\ texts \in Nat /\ UNCHANGED <<texts, queue, overlapped>> /\ Polling(a, t)
      /\ task[a][t] # Idle /\ task[a][t] \in Activation /\ log \in [Account -> Seq(Entry)]
      /\ NextEnvelope(a, t)
  BY AtWork DEF Task, TypeInv, TypeOK, HandleWrite, Handling, counters, races, Polling
<1>1. PICK x : x = EntryOf(task[a][t].batch[1])
  OBVIOUS
<1>2. /\ task[a][t].batch \in Seq(Envelope) /\ task[a][t].batch # <<>>
      /\ task[a][t].batch[1] \in Envelope /\ IsText(task[a][t].batch[1])
      /\ Lined(W, a, task[a][t].batch) /\ InBatch(a, t) = Carried(task[a][t].batch)
  BY <1>0, PollFacts DEF HandleWrite, Handling, IsText
<1>3. PICK r : /\ Becomes(a, t, r) /\ r.seen = <<>> /\ r.op \in {"none", "poll"}
               /\ r.op = "poll" => r.batch = Tail(task[a][t].batch)
  BY <1>0, GoOn
<1>4. /\ Lined(W, a, Tail(task[a][t].batch))
      /\ Carried(Tail(task[a][t].batch)) \subseteq Carried(task[a][t].batch)
      /\ x \in InBatch(a, t) /\ Before(W, a, {x}, Carried(Tail(task[a][t].batch)))
  BY <1>1, <1>2, TailEnvelope
<1>5. Placed(W, a) /\ Numbered(a) /\ Sorted(W, a)
  BY DEF TextInv
<1>6. x.id \in 0 .. texts /\ x \in Entry
  BY <1>0, <1>1, <1>2, <1>4, <1>5 DEF Numbered, EntryOf, Envelope, Entry
<1>7. /\ Before(W, a, Shown(a), InBatch(a, t)) /\ Before(W, a, InBatch(a, t), InQueue(a))
      /\ \A b \in Account : \A u \in Task : Before(W, a, InBatch(a, t), Due(a, b, u))
  BY <1>0, <1>5 DEF Placed
<1>8. /\ log'[a] = Append(task[a][t].seen, x) /\ task[a][t].seen \in Seq(Entry)
      /\ \A m \in Account : m # a => log'[m] = log[m]
  BY <1>0, <1>1 DEF HandleWrite, Logged, EntryOf, Activation
<1>9. Ordered(W, a, log'[a]) /\ Entries(log'[a]) \subseteq Shown(a) \cup {x}
  <2>1. Entries(task[a][t].seen) \subseteq Shown(a)
    BY <1>0 DEF Shown
  <2>2. Ordered(W, a, task[a][t].seen) /\ Before(W, a, Entries(task[a][t].seen), {x})
    BY <1>0, <1>4, <1>5, <1>7, <2>1 DEF Sorted, Before
  <2>3. /\ Ordered(W, a, Append(task[a][t].seen, x))
        /\ Entries(Append(task[a][t].seen, x)) = Entries(task[a][t].seen) \cup {x}
    BY <1>6, <1>8, <2>2, AppendEntry
  <2> QED
    BY <1>8, <2>1, <2>3
<1>10. Before(W, a, {x}, InQueue(a))
  BY <1>4, <1>7 DEF Before
<1>11. ASSUME NEW u \in Task PROVE Before(W, a, {x}, InBatch(a, u)')
  <2>1. CASE u = t
    <3>1. InBatch(a, t)' = IF r.op = "poll" THEN Carried(r.batch) ELSE {}
      BY <1>0, <1>3, OtherPlaces
    <3> QED
      BY <1>3, <1>4, <2>1, <3>1 DEF Before
  <2>2. CASE u # t
    <3>1. InBatch(a, u)' = InBatch(a, u)
      BY <1>0, <1>3, <2>2, OtherPlaces
    <3>2. \A y \in InBatch(a, u) : x # y
      BY <1>0, <1>4, <1>5, <2>2 DEF Placed
    <3>3. a \in W => InBatch(a, u) = {}
      BY <1>0, <2>2 DEF TextInv, SenderInv, InBatch
    <3> QED
      BY <3>1, <3>2, <3>3 DEF Before, Precedes
  <2> QED
    BY <2>1, <2>2
<1>12. ASSUME NEW b \in Account, NEW u \in Task PROVE Before(W, a, {x}, Due(a, b, u)')
  <2>1. Due(a, b, u)' \subseteq Due(a, b, u)
    BY <1>0, <1>3, OtherPlaces
  <2> QED
    BY <1>4, <1>7, <2>1 DEF Before
<1>13. \A m \in Account : InQueue(m)' = InQueue(m) /\ Lined(W, m, queue'[m])
  BY <1>0, QueuesStay
<1>14. Entries(r.seen) \subseteq Shown(a) /\ Ordered(W, a, r.seen)
  BY <1>3, EmptySequence
<1>15. PICK X : X = {x}
  OBVIOUS
<1> QED
  BY <1>0, <1>2, <1>3, <1>4, <1>6, <1>8, <1>9, <1>10, <1>11, <1>12, <1>13, <1>14, <1>15, TextStep DEF Rostering

LEMMA ReadIs ==
  ASSUME TypeInv, NEW a \in Account, NEW t \in Task,
         task' = [task EXCEPT ![a][t].step = "append", ![a][t].seen = log[a]]
  PROVE  \E r : /\ Becomes(a, t, r) /\ r.op = task[a][t].op /\ r.batch = task[a][t].batch
               /\ r.to = task[a][t].to /\ r.seen = log[a]
<1> DEFINE R == [task[a][t] EXCEPT !.step = "append", !.seen = log[a]]
<1>1. task \in [Account -> [Task -> Activation]]
  BY DEF TypeInv, TypeOK
<1>2. task[a][t] \in Activation
  BY <1>1
<1>3. task' = [task EXCEPT ![a][t] = R]
  BY <1>1
<1>4. /\ R.op = task[a][t].op
      /\ R.batch = task[a][t].batch
      /\ R.to = task[a][t].to
      /\ R.seen = log[a]
  BY <1>2 DEF Activation
<1> HIDE DEF R
<1>5. Becomes(a, t, R)
  BY <1>3 DEF Becomes
<1> QED
  BY <1>4, <1>5

LEMMA TextUser ==
  ASSUME NEW W, TypeInv, OwnInv, TextInv(W), NEW a \in Account, NEW t \in UserTask,
         UserStarts(a, t) \/ UserGoesOn(a, t)
  PROVE  TextInv(W)'
<1>0. t \in Task
  BY DEF Task
<1>1. CASE CreateGroup(a, t)
  <2>1. PICK others : Start(a, t, FanOut("create", "send", Invite(a, {a} \cup others), others))
    BY <1>1 DEF CreateGroup
  <2>2. PICK r : r = FanOut("create", "send", Invite(a, {a} \cup others), others)
    OBVIOUS
  <2>3. r.op = "create" /\ r.seen = <<>> /\ ~IsText(r.batch[1]) /\ Becomes(a, t, r)
    BY <2>1, <2>2 DEF FanOut, Invite, IsText, Start, Becomes
  <2>4. UNCHANGED <<texts, log, queue, overlapped>>
    BY <1>1 DEF CreateGroup
  <2> QED
    BY <1>0, <2>3, <2>4, QuietStart
<1>2. CASE RemoveLoad(a, t)
  <2>1. PICK all, to : Start(a, t, FanOut("remove", "save", Update(a, all), to))
    BY <1>2 DEF RemoveLoad, Removes
  <2>2. PICK r : r = FanOut("remove", "save", Update(a, all), to)
    OBVIOUS
  <2>3. r.op = "remove" /\ r.seen = <<>> /\ ~IsText(r.batch[1]) /\ Becomes(a, t, r)
    BY <2>1, <2>2 DEF FanOut, Update, IsText, Start, Becomes
  <2>4. UNCHANGED <<texts, log, queue, overlapped>>
    BY <1>2 DEF RemoveLoad, Removes, stores
  <2> QED
    BY <1>0, <2>3, <2>4, QuietStart
<1>3. CASE TextLoad(a, t)
  BY <1>3, NumberText
<1>4. CASE RemoveSave(a, t)
  <2>1. Goto(a, t, "send") /\ UNCHANGED <<texts, log, queue, overlapped>>
    BY <1>4 DEF RemoveSave, races
  <2> QED
    BY <1>0, <2>1, GotoIs, QuietGoto
<1>5. CASE Send(a, t)
  <2>1. CASE Texting(a, t)
    BY <1>5, <2>1, SendText
  <2>2. CASE ~Texting(a, t)
    <3>1. task[a][t] \in Activation /\ task[a][t].step = "send" /\ task[a][t] # Idle
      BY <1>0, <1>5, AtWork DEF Send, TypeInv, TypeOK
    <3>2. Rostering(task[a][t])
      <4>1. OwnTask(a, task[a][t])
        BY <1>0 DEF OwnInv
      <4> QED
        BY <2>2, <3>1, <4>1 DEF OwnTask, Texting, Rostering, Activation
    <3>3. PICK e : e = task[a][t].batch[1]
      OBVIOUS
    <3>4. e \in Envelope /\ ~IsText(e)
      BY <1>0, <3>1, <3>2, <3>3, EnvelopeType DEF TextInv, SenderInv
    <3>5. PICK m \in task[a][t].to :
            /\ queue' = [queue EXCEPT ![m] = Append(@, e)]
            /\ task' = [task EXCEPT ![a][t].to = @ \ {m}]
      BY <1>5, <3>3 DEF Send
    <3>6. PICK r : r = [task[a][t] EXCEPT !.to = task[a][t].to \ {m}]
      OBVIOUS
    <3>7. /\ Becomes(a, t, r) /\ r.op = task[a][t].op /\ r.seen = task[a][t].seen
          /\ r.batch = task[a][t].batch
      BY <1>0, <3>1, <3>5, <3>6 DEF TypeInv, TypeOK, Becomes, Activation
    <3>8. ASSUME NEW n \in Account PROVE InQueue(n)' = InQueue(n) /\ Lined(W, n, queue'[n])
      <4>1. queue[n] \in Seq(Envelope) /\ Lined(W, n, queue[n])
        BY DEF TypeInv, TypeOK, TextInv, Sorted
      <4>2. queue'[n] = queue[n] \/ queue'[n] = Append(queue[n], e)
        BY <3>5 DEF TypeInv, TypeOK
      <4>3. Lined(W, n, Append(queue[n], e)) /\ Carried(Append(queue[n], e)) = Carried(queue[n])
        <5>1. IsText(e) => Before(W, n, Carried(queue[n]), {EntryOf(e)})
          BY <3>4
        <5>2. /\ Lined(W, n, Append(queue[n], e))
              /\ Carried(Append(queue[n], e))
                   = Carried(queue[n]) \cup (IF IsText(e) THEN {EntryOf(e)} ELSE {})
          BY <3>4, <4>1, <5>1, AppendEnvelope
        <5>3. (IF IsText(e) THEN {EntryOf(e)} ELSE {}) = {}
          BY <3>4
        <5> QED
          BY <5>2, <5>3
      <4> QED
        BY <4>1, <4>2, <4>3 DEF InQueue
    <3>9. UNCHANGED <<texts, log, overlapped>> /\ r.op \notin {"text", "poll"} /\ ~IsText(r.batch[1])
      BY <1>5, <3>2, <3>3, <3>4, <3>7 DEF Send, stores, counters, races, Rostering
    <3> QED
      BY <1>0, <3>7, <3>8, <3>9, QuietStep
  <2> QED
    BY <2>1, <2>2
<1>6. CASE FanOutEnds(a, t)
  <2>1. Becomes(a, t, Idle) /\ UNCHANGED <<texts, log, queue, overlapped>>
    BY <1>6 DEF FanOutEnds, Finish, Becomes, stores, counters, races
  <2> QED
    BY <1>0, <2>1, QuietStart DEF Idle, Rostering
<1>7. CASE TextRead(a, t)
  <2>1. task' = [task EXCEPT ![a][t].step = "append", ![a][t].seen = log[a]]
    BY <1>7 DEF TextRead
  <2>2. PICK r : /\ Becomes(a, t, r) /\ r.op = task[a][t].op /\ r.batch = task[a][t].batch
                 /\ r.to = task[a][t].to /\ r.seen = log[a]
    BY <1>0, <2>1, ReadIs
  <2>3. UNCHANGED <<texts, log, queue, overlapped>>
    BY <1>7 DEF TextRead, stores, counters, races
  <2> QED
    BY <1>0, <2>2, <2>3, QuietGoto
<1>8. CASE TextWrite(a, t)
  BY <1>8, ShowOwn
<1> QED
  BY <1>1, <1>2, <1>3, <1>4, <1>5, <1>6, <1>7, <1>8 DEF UserStarts, UserGoesOn

LEMMA TextPoll ==
  ASSUME NEW W, TypeInv, TextInv(W), W \cap overlapped = {},
         NEW a \in Account, NEW t \in PollTask, PollFetch(a, t) \/ PollGoesOn(a, t)
  PROVE  TextInv(W)'
<1>0. t \in Task
  BY DEF Task
<1>1. CASE PollFetch(a, t)
  BY <1>1, FetchTexts
<1>2. CASE HandleInvite(a, t) \/ HandleUpdate(a, t) \/ HandleCheck(a, t)
  <2>1. Polling(a, t) /\ UNCHANGED <<texts, log, queue, overlapped>>
    BY <1>2 DEF HandleInvite, HandleUpdate, HandleCheck, Handling, Polling, stores, counters, races
  <2>2. CASE NextEnvelope(a, t)
    BY <1>0, <2>1, <2>2, QuietPoll
  <2>3. ASSUME NEW s, Goto(a, t, s) PROVE TextInv(W)'
    BY <1>0, <2>1, <2>3, GotoIs, QuietGoto
  <2> QED
    BY <1>2, <2>2, <2>3 DEF HandleInvite, HandleUpdate, HandleCheck
<1>3. CASE HandleRead(a, t)
  <2>1. task' = [task EXCEPT ![a][t].step = "append", ![a][t].seen = log[a]]
    BY <1>3 DEF HandleRead
  <2>2. PICK r : /\ Becomes(a, t, r) /\ r.op = task[a][t].op /\ r.batch = task[a][t].batch
                 /\ r.to = task[a][t].to /\ r.seen = log[a]
    BY <1>0, <2>1, ReadIs
  <2>3. UNCHANGED <<texts, log, queue, overlapped>>
    BY <1>3 DEF HandleRead, stores, counters, races
  <2> QED
    BY <1>0, <2>2, <2>3, QuietGoto
<1>4. CASE HandleWrite(a, t)
  BY <1>4, ShowReceived
<1> QED
  BY <1>1, <1>2, <1>3, <1>4 DEF PollGoesOn

LEMMA TextNext ==
  ASSUME NEW W, W \cap overlapped = {}, TypeInv, OwnInv, TextInv(W), [Next]_vars
  PROVE  TextInv(W)'
<1>1. ASSUME NEW a \in Account, NEW t \in Task, Fail(a, t) PROVE TextInv(W)'
  <2>1. Becomes(a, t, Idle) /\ UNCHANGED <<texts, log, queue, overlapped>>
    BY <1>1 DEF Fail, Finish, Becomes, stores, races
  <2> QED
    BY <2>1, QuietStart DEF Idle, Rostering
<1>2. CASE UNCHANGED vars
  <2>1. UNCHANGED <<task, queue, log, texts, overlapped>>
    BY <1>2 DEF vars, stores, counters, races
  <2>2. /\ \A m \in Account : Shown(m)' = Shown(m) /\ InQueue(m)' = InQueue(m)
        /\ \A m \in Account, t \in Task : InBatch(m, t)' = InBatch(m, t)
        /\ \A m \in Account, b \in Account, t \in Task : Due(m, b, t)' = Due(m, b, t)
    BY <2>1 DEF Shown, InQueue, InBatch, Due, Polling, Texting
  <2>3. SenderInv'
    BY <2>1 DEF TextInv, SenderInv, Texting, Polling
  <2>4. ASSUME NEW m \in Account PROVE Placed(W, m)'
    BY <2>2 DEF TextInv, Placed
  <2>5. ASSUME NEW m \in Account PROVE Sorted(W, m)' /\ Numbered(m)'
    BY <2>1, <2>2 DEF TextInv, Sorted, Numbered, Polling
  <2> QED
    BY <2>3, <2>4, <2>5 DEF TextInv
<1> QED
  BY <1>1, <1>2, TextUser, TextPoll DEF Next

LEMMA TextInit ==
  ASSUME NEW W, Init
  PROVE  TextInv(W)
<1>1. /\ \A a \in Account : log[a] = <<>> /\ queue[a] = <<>>
      /\ \A a \in Account, t \in Task :
           task[a][t] = Idle /\ ~Polling(a, t) /\ ~Texting(a, t) /\ ~Rostering(task[a][t])
  BY DEF Init, Polling, Texting, Idle, Rostering
<1>2. /\ \A m \in Account : Shown(m) = {} /\ InQueue(m) = {}
      /\ \A m \in Account, t \in Task : InBatch(m, t) = {}
      /\ \A m \in Account, a \in Account, t \in Task : Due(m, a, t) = {}
  BY <1>1, EmptySequence DEF Shown, InQueue, InBatch, Due, Idle
<1>3. SenderInv
  BY <1>1 DEF SenderInv
<1>4. ASSUME NEW m \in Account PROVE Placed(W, m)
  BY <1>2 DEF Placed, Before
<1>5. ASSUME NEW m \in Account PROVE Sorted(W, m) /\ Numbered(m)
  BY <1>1, <1>2, EmptySequence DEF Sorted, Numbered, Idle
<1> QED
  BY <1>3, <1>4, <1>5 DEF TextInv

(* What is in order for some members is for fewer *)
LEMMA TextFewer ==
  ASSUME NEW V, NEW W \in SUBSET V, TextInv(V)
  PROVE  TextInv(W)
<1>1. \A m, x, y : Precedes(V, m, x, y) => Precedes(W, m, x, y)
  BY DEF Precedes
<1>2. \A m, X, Y : Before(V, m, X, Y) => Before(W, m, X, Y)
  BY <1>1 DEF Before
<1>3. \A m, l : Ordered(V, m, l) => Ordered(W, m, l)
  BY <1>1 DEF Ordered
<1>4. \A m, s : Lined(V, m, s) => Lined(W, m, s)
  BY <1>1 DEF Lined
<1>5. ASSUME NEW m \in Account PROVE Placed(W, m) /\ Sorted(W, m) /\ Numbered(m)
  <2>1. Placed(V, m) /\ Sorted(V, m) /\ Numbered(m)
    BY DEF TextInv
  <2>2. Placed(W, m)
    BY <1>2, <2>1 DEF Placed
  <2>3. Sorted(W, m)
    BY <1>3, <1>4, <2>1 DEF Sorted
  <2> QED
    BY <2>1, <2>2, <2>3
<1> QED
  BY <1>5 DEF TextInv

(* The members that run one poll at a time are those whose polls never overlapped *)
OrderInv == \E W : W = Account \ overlapped /\ TextInv(W)

LEMMA OverlapsStay ==
  ASSUME [Next]_vars
  PROVE  overlapped \subseteq overlapped'
<1> USE DEF counters, races, stores
<1>1. ASSUME NEW a \in Account, NEW t \in UserTask, UserStarts(a, t) \/ UserGoesOn(a, t)
      PROVE  overlapped' = overlapped
  BY <1>1 DEF UserStarts, UserGoesOn, CreateGroup, RemoveLoad, Removes, TextLoad, RemoveSave, Send,
     FanOutEnds, TextRead, TextWrite
<1>2. ASSUME NEW a \in Account, NEW t \in PollTask, PollFetch(a, t) \/ PollGoesOn(a, t)
      PROVE  overlapped \subseteq overlapped'
  BY <1>2 DEF PollFetch, Fetches, PollGoesOn, HandleInvite, HandleCheck, HandleUpdate, HandleRead,
     HandleWrite
<1>3. ASSUME NEW a \in Account, NEW t \in Task, Fail(a, t) PROVE overlapped' = overlapped
  BY <1>3 DEF Fail
<1>4. UNCHANGED vars => overlapped' = overlapped
  BY DEF vars
<1> QED
  BY <1>1, <1>2, <1>3, <1>4 DEF Next

LEMMA OrderNext == TypeInv /\ OwnInv /\ OrderInv /\ [Next]_vars => OrderInv'
<1> SUFFICES ASSUME TypeInv, OwnInv, OrderInv, [Next]_vars PROVE OrderInv'
  OBVIOUS
<1>1. PICK V : V = Account \ overlapped /\ TextInv(V)
  BY DEF OrderInv
<1>2. PICK W : W = Account \ overlapped'
  OBVIOUS
<1>3. W \in SUBSET V /\ W \cap overlapped = {}
  BY <1>1, <1>2, OverlapsStay
<1>4. TextInv(W)
  BY <1>1, <1>3, TextFewer
<1>5. TextInv(W)'
  BY <1>3, <1>4, TextNext
<1> QED
  BY <1>2, <1>5 DEF OrderInv

LEMMA OrderInvariant == Spec => []OrderInv
<1>1. Init => OrderInv
  BY TextInit DEF OrderInv
<1> QED
  BY <1>1, TypeInvariant, OwnInvariant, OrderNext, PTL DEF Spec

(* ShownOnce: no text is twice in a history, however many calls and polls of a  *)
(* client overlap, overwrite what another one wrote, or fail.                   *)
THEOREM ShownOnce == Spec => []TextsOnce
<1>1. TypeInv /\ OrderInv => TextsOnce
  <2> SUFFICES ASSUME TypeInv, OrderInv, NEW a \in Account,
                      NEW i \in DOMAIN log[a], NEW j \in DOMAIN log[a], log[a][i] = log[a][j]
               PROVE  i = j
    BY DEF TextsOnce
  <2>1. i \in Nat /\ j \in Nat
    BY DEF TypeInv, TypeOK
  <2>2. ~(i < j) /\ ~(j < i)
    BY DEF OrderInv, TextInv, Sorted, Ordered, Precedes
  <2> QED
    BY <2>1, <2>2
<1> QED
  BY <1>1, TypeInvariant, OrderInvariant, PTL

(* ShownInOrder: a client whose polls never overlapped shows the texts of each  *)
(* member in the order they were sent, whatever the other clients do.           *)
THEOREM ShownInOrder == Spec => []TextsInOrder
<1>1. OrderInv => TextsInOrder
  BY DEF OrderInv, TextInv, Sorted, Ordered, Precedes, TextsInOrder
<1> QED
  BY <1>1, OrderInvariant, PTL

-----------------------------------------------------------------------------
(***************************************************************************)
(* Convergence: as long as one member decided on the roster, one decision  *)
(* after the other, the newest roster on its way to a member who was not   *)
(* removed and whose polls did not overlap is that administrator's.        *)
(***************************************************************************)

(* Nothing failed, and a created the group and made every removal, one by one *)
Steady(a) == failures = 0 /\ a \notin crossed /\ authors \subseteq {a}

(* What a sequence of envelopes does to the roster of whom it is for: nothing, *)
(* or to leave R; and where its first invitation is.                           *)
Plain(s) == \A i \in DOMAIN s : IsText(s[i])
Ends(s, R) ==
  \E i \in DOMAIN s :
    ~IsText(s[i]) /\ s[i].roster = R /\ \A j \in DOMAIN s : i < j => IsText(s[j])
Invites(s) == \E i \in DOMAIN s : s[i].kind = "invite"
Leads(s) ==
  \A i \in DOMAIN s : s[i].kind = "update" => \E j \in DOMAIN s : j < i /\ s[j].kind = "invite"
Issued(a, s) == \A i \in DOMAIN s : ~IsText(s[i]) => s[i].from = a /\ a \in s[i].roster

(* The same of a queue q behind the batches in S behind the stored roster r *)
Batches(b) == {task[b][t].batch : t \in {u \in Task : Polling(b, u)}}
Newest(q, S, r, R) ==
  \/ Ends(q, R)
  \/ Plain(q) /\ \E s \in S : Ends(s, R)
  \/ Plain(q) /\ (\A s \in S : Plain(s)) /\ r = R
Invited(q, S, r) == r # {} \/ (\E s \in S : Invites(s)) \/ Invites(q)
InviteFirst(q, S, r) ==
  r # {} \/ ((\A s \in S : Leads(s)) /\ (Leads(q) \/ \E s \in S : Invites(s)))

LEMMA AppendRoad ==
  ASSUME NEW s \in Seq(Envelope), NEW e \in Envelope, NEW a
  PROVE  /\ IsText(e) /\ Plain(s) => Plain(Append(s, e))
         /\ \A R : IsText(e) /\ Ends(s, R) => Ends(Append(s, e), R)
         /\ ~IsText(e) => Ends(Append(s, e), e.roster)
         /\ Invites(s) \/ e.kind = "invite" => Invites(Append(s, e))
         /\ Leads(s) /\ (e.kind = "update" => Invites(s)) => Leads(Append(s, e))
         /\ Issued(a, s) /\ (~IsText(e) => e.from = a /\ a \in e.roster) => Issued(a, Append(s, e))
<1> DEFINE k == Append(s, e)
           n == Len(s) + 1
<1>1. /\ DOMAIN k = 1 .. n /\ DOMAIN s = 1 .. Len(s) /\ Len(s) \in Nat
      /\ k[n] = e /\ \A i \in DOMAIN s : k[i] = s[i] /\ i < n /\ i \in DOMAIN k
  OBVIOUS
<1> HIDE DEF k
<1>2. /\ \A i \in DOMAIN k : i \in DOMAIN s \/ i = n
      /\ n \in DOMAIN k /\ \A j \in DOMAIN k : ~(n < j)
  BY <1>1
<1> HIDE DEF n
<1>3. IsText(e) /\ Plain(s) => Plain(k)
  BY <1>1, <1>2 DEF Plain
<1>4. ASSUME NEW R, IsText(e), Ends(s, R) PROVE Ends(k, R)
  <2>1. PICK i \in DOMAIN s :
          ~IsText(s[i]) /\ s[i].roster = R /\ \A j \in DOMAIN s : i < j => IsText(s[j])
    BY <1>4 DEF Ends
  <2>2. \A j \in DOMAIN k : i < j => IsText(k[j])
    BY <1>1, <1>2, <1>4, <2>1
  <2>3. i \in DOMAIN k /\ ~IsText(k[i]) /\ k[i].roster = R
    BY <1>1, <2>1
  <2> QED BY <2>2, <2>3 DEF Ends
<1>5. ~IsText(e) => Ends(k, e.roster)
  BY <1>1, <1>2 DEF Ends
<1>6. Invites(s) \/ e.kind = "invite" => Invites(k)
  BY <1>1, <1>2 DEF Invites
<1>7. ASSUME Leads(s), e.kind = "update" => Invites(s) PROVE Leads(k)
  <2> SUFFICES ASSUME NEW i \in DOMAIN k, k[i].kind = "update"
               PROVE  \E j \in DOMAIN k : j < i /\ k[j].kind = "invite"
    BY DEF Leads
  <2>1. CASE i \in DOMAIN s
    <3>1. PICK j \in DOMAIN s : j < i /\ s[j].kind = "invite"
      BY <1>1, <1>7, <2>1 DEF Leads
    <3> QED BY <1>1, <3>1
  <2>2. CASE i = n
    <3>1. PICK j \in DOMAIN s : s[j].kind = "invite"
      BY <1>1, <1>7, <2>2 DEF Invites
    <3> QED BY <1>1, <2>2, <3>1
  <2> QED BY <1>2, <2>1, <2>2
<1>8. Issued(a, s) /\ (~IsText(e) => e.from = a /\ a \in e.roster) => Issued(a, k)
  BY <1>1, <1>2 DEF Issued
<1> QED BY <1>3, <1>4, <1>5, <1>6, <1>7, <1>8 DEF k

LEMMA TailRoad ==
  ASSUME NEW s \in Seq(Envelope), s # <<>>, NEW a
  PROVE  /\ Plain(s) => Plain(Tail(s))
         /\ \A R : Ends(s, R) =>
              Ends(Tail(s), R) \/ (Plain(Tail(s)) /\ ~IsText(s[1]) /\ s[1].roster = R)
         /\ IsText(s[1]) /\ Invites(s) => Invites(Tail(s))
         /\ IsText(s[1]) /\ Leads(s) => Leads(Tail(s))
         /\ Leads(s) => s[1].kind # "update"
         /\ Issued(a, s) => Issued(a, Tail(s)) /\ (~IsText(s[1]) => s[1].from = a /\ a \in s[1].roster)
         /\ Plain(s) => IsText(s[1])
<1> DEFINE k == Tail(s)
<1>1. /\ DOMAIN s = 1 .. Len(s) /\ Len(s) \in Nat /\ 1 \in DOMAIN s /\ DOMAIN k \subseteq Nat \ {0}
      /\ \A i \in DOMAIN k : i + 1 \in DOMAIN s /\ k[i] = s[i + 1]
      /\ \A i \in DOMAIN s : i # 1 => i - 1 \in DOMAIN k /\ s[i] = k[i - 1]
      /\ \A i \in DOMAIN s : i \in Nat \ {0}
  OBVIOUS
<1> HIDE DEF k
<1>2. Plain(s) => Plain(k) /\ IsText(s[1])
  BY <1>1 DEF Plain
<1>3. ASSUME NEW R, Ends(s, R)
      PROVE  Ends(k, R) \/ (Plain(k) /\ ~IsText(s[1]) /\ s[1].roster = R)
  <2>1. PICK i \in DOMAIN s :
          ~IsText(s[i]) /\ s[i].roster = R /\ \A j \in DOMAIN s : i < j => IsText(s[j])
    BY <1>3 DEF Ends
  <2>2. \A j \in DOMAIN k : i < j + 1 => IsText(k[j])
    BY <1>1, <2>1
  <2>3. CASE i = 1
    <3>1. \A j \in DOMAIN k : i < j + 1
      BY <1>1, <2>3
    <3> QED BY <2>1, <2>2, <2>3, <3>1 DEF Plain
  <2>4. CASE i # 1
    <3>1. i - 1 \in DOMAIN k /\ k[i - 1] = s[i]
      BY <1>1, <2>4
    <3>2. \A j \in DOMAIN k : i - 1 < j => i < j + 1
      BY <1>1
    <3> QED BY <2>1, <2>2, <3>1, <3>2 DEF Ends
  <2> QED BY <2>3, <2>4
<1>4. ASSUME IsText(s[1]), Invites(s) PROVE Invites(k)
  <2>1. PICK i \in DOMAIN s : s[i].kind = "invite"
    BY <1>4 DEF Invites
  <2>2. i # 1
    BY <1>4, <2>1 DEF IsText
  <2> QED BY <1>1, <2>1, <2>2 DEF Invites
<1>5. ASSUME IsText(s[1]), Leads(s) PROVE Leads(k)
  <2> SUFFICES ASSUME NEW i \in DOMAIN k, k[i].kind = "update"
               PROVE  \E j \in DOMAIN k : j < i /\ k[j].kind = "invite"
    BY DEF Leads
  <2>1. i + 1 \in DOMAIN s /\ s[i + 1].kind = "update"
    BY <1>1
  <2>2. PICK j \in DOMAIN s : j < i + 1 /\ s[j].kind = "invite"
    BY <1>5, <2>1 DEF Leads
  <2>3. j # 1
    BY <1>5, <2>2 DEF IsText
  <2>4. j - 1 \in DOMAIN k /\ k[j - 1].kind = "invite" /\ j - 1 < i
    BY <1>1, <2>2, <2>3
  <2> QED BY <2>4
<1>6. ASSUME Leads(s) PROVE s[1].kind # "update"
  <2>1. \A j \in DOMAIN s : ~(j < 1)
    BY <1>1
  <2> QED BY <1>1, <1>6, <2>1 DEF Leads
<1>7. Issued(a, s) => Issued(a, k) /\ (~IsText(s[1]) => s[1].from = a /\ a \in s[1].roster)
  BY <1>1 DEF Issued
<1> QED BY <1>2, <1>3, <1>4, <1>5, <1>6, <1>7 DEF k

LEMMA EmptyRoad ==
  ASSUME NEW a
  PROVE  Plain(<<>>) /\ Leads(<<>>) /\ Issued(a, <<>>) /\ ~Invites(<<>>) /\ \A R : ~Ends(<<>>, R)
  BY DEF Plain, Leads, Issued, Invites, Ends

-----------------------------------------------------------------------------
(* What each step of an envelope towards its member keeps *)
Rest(s) == IF Tail(s) = <<>> THEN {} ELSE {Tail(s)}

(* A poll takes a queue over as its batch. *)
LEMMA FetchedRoad ==
  ASSUME NEW q, NEW r
  PROVE  /\ \A R : Newest(q, {}, r, R) => Newest(<<>>, {q}, r, R)
         /\ Invited(q, {}, r) => Invited(<<>>, {q}, r)
         /\ InviteFirst(q, {}, r) => InviteFirst(<<>>, {q}, r)
  BY EmptyRoad DEF Newest, Invited, InviteFirst

(* A text is queued. *)
LEMMA TextQueued ==
  ASSUME NEW q \in Seq(Envelope), NEW e \in Envelope, IsText(e), NEW S, NEW r
  PROVE  /\ \A R : Newest(q, S, r, R) => Newest(Append(q, e), S, r, R)
         /\ Invited(q, S, r) => Invited(Append(q, e), S, r)
         /\ InviteFirst(q, S, r) => InviteFirst(Append(q, e), S, r)
<1> DEFINE k == Append(q, e)
<1>1. /\ Plain(q) => Plain(k)
      /\ \A R : Ends(q, R) => Ends(k, R)
      /\ Invites(q) => Invites(k)
      /\ Leads(q) => Leads(k)
  BY AppendRoad DEF IsText
<1> HIDE DEF k
<1>2. \A R : Newest(q, S, r, R) => Newest(k, S, r, R)
  BY <1>1 DEF Newest
<1>3. Invited(q, S, r) => Invited(k, S, r)
  BY <1>1 DEF Invited
<1>4. InviteFirst(q, S, r) => InviteFirst(k, S, r)
  BY <1>1 DEF InviteFirst
<1> QED BY <1>2, <1>3, <1>4 DEF k

(* A roster is queued; it is the newest. *)
LEMMA RosterQueued ==
  ASSUME NEW q \in Seq(Envelope), NEW e \in Envelope, ~IsText(e), NEW S, NEW r,
         e.kind = "invite" \/ Invited(q, S, r)
  PROVE  /\ Newest(Append(q, e), S, r, e.roster)
         /\ Invited(Append(q, e), S, r)
         /\ InviteFirst(q, S, r) => InviteFirst(Append(q, e), S, r)
<1> DEFINE k == Append(q, e)
<1>1. /\ Ends(k, e.roster)
      /\ Invites(q) \/ e.kind = "invite" => Invites(k)
      /\ Leads(q) /\ (e.kind = "update" => Invites(q)) => Leads(k)
  BY AppendRoad
<1>2. e.kind # "invite" => e.kind = "update"
  BY DEF IsText, Envelope
<1> HIDE DEF k
<1>3. Newest(k, S, r, e.roster)
  BY <1>1 DEF Newest
<1>4. Invited(k, S, r)
  BY <1>1 DEF Invited
<1>5. InviteFirst(q, S, r) => InviteFirst(k, S, r)
  BY <1>1, <1>2 DEF InviteFirst, Invited
<1> QED BY <1>3, <1>4, <1>5 DEF k

(* The poll is done with a text. *)
LEMMA TextHandled ==
  ASSUME NEW s \in Seq(Envelope), s # <<>>, IsText(s[1]), NEW q, NEW r
  PROVE  /\ \A R : Newest(q, {s}, r, R) => Newest(q, Rest(s), r, R)
         /\ Invited(q, {s}, r) => Invited(q, Rest(s), r)
         /\ InviteFirst(q, {s}, r) => InviteFirst(q, Rest(s), r)
<1> DEFINE k == Tail(s)
<1>1. /\ Plain(s) => Plain(k)
      /\ \A R : Ends(s, R) => Ends(k, R)
      /\ Invites(s) => Invites(k)
      /\ Leads(s) => Leads(k)
  BY TailRoad
<1>2. k = <<>> => ~Invites(k) /\ \A R : ~Ends(k, R)
  BY EmptyRoad
<1>3. Rest(s) = IF k = <<>> THEN {} ELSE {k}
  BY DEF Rest
<1> HIDE DEF k
<1>4. ASSUME NEW R, Newest(q, {s}, r, R) PROVE Newest(q, Rest(s), r, R)
  BY <1>1, <1>2, <1>3, <1>4 DEF Newest
<1>5. Invited(q, {s}, r) => Invited(q, Rest(s), r)
  BY <1>1, <1>2, <1>3 DEF Invited
<1>6. InviteFirst(q, {s}, r) => InviteFirst(q, Rest(s), r)
  BY <1>1, <1>2, <1>3 DEF InviteFirst
<1> QED BY <1>4, <1>5, <1>6

(* The poll stores a roster. *)
LEMMA RosterHandled ==
  ASSUME NEW s \in Seq(Envelope), s # <<>>, ~IsText(s[1]), s[1].roster # {}, NEW q, NEW r
  PROVE  /\ \A R : Newest(q, {s}, r, R) => Newest(q, Rest(s), s[1].roster, R)
         /\ Invited(q, Rest(s), s[1].roster)
         /\ InviteFirst(q, Rest(s), s[1].roster)
<1> DEFINE k == Tail(s)
<1>1. ~Plain(s) /\ \A R : Ends(s, R) => Ends(k, R) \/ (Plain(k) /\ s[1].roster = R)
  BY TailRoad
<1>2. k = <<>> => \A R : ~Ends(k, R)
  BY EmptyRoad
<1>3. Rest(s) = IF k = <<>> THEN {} ELSE {k}
  BY DEF Rest
<1> HIDE DEF k
<1>4. ASSUME NEW R, Newest(q, {s}, r, R) PROVE Newest(q, Rest(s), s[1].roster, R)
  BY <1>1, <1>2, <1>3, <1>4 DEF Newest
<1> QED BY <1>4 DEF Invited, InviteFirst

-----------------------------------------------------------------------------
(* A call of the administrator a, whose roster is R: no other carries rosters *)
Call(a, R, b, t, r) ==
  /\ b = a /\ t \in UserTask
  /\ r.batch[1].from = a /\ a \notin r.to
  /\ r.op = "create" => r.batch[1].kind = "invite" /\ r.step = "send"
  /\ r.op = "remove" => r.batch[1].kind = "update" /\ r.step \in {"save", "send"}
  /\ r.step = "save" => r.batch[1].roster \subseteq R /\ r.to = r.batch[1].roster \ {a}
  /\ r.step = "send" => r.batch[1].roster = R
Calls(a) ==
  /\ \A b \in Account, t \in Task : Rostering(task[b][t]) => Call(a, roster[a], b, t, task[b][t])
  /\ \A t, u \in Task : Rostering(task[a][t]) /\ Rostering(task[a][u]) => t = u

(* Members that the administrator's call still has to send to *)
Inviting(a, b) == \E t \in Task : task[a][t].op = "create" /\ b \in task[a][t].to
OnTheWay(a, b) ==
  \E t \in Task : Rostering(task[a][t]) /\ task[a][t].step = "send" /\ b \in task[a][t].to

(* What member b has stored and what is on its way to b *)
Road(a, b) ==
  /\ roster[b] # {} => a \in roster[b]
  /\ Issued(a, queue[b]) /\ \A s \in Batches(b) : Issued(a, s)
  /\ InviteFirst(queue[b], Batches(b), roster[b])
  /\ b \in founders \ {a} => Invited(queue[b], Batches(b), roster[b]) \/ Inviting(a, b)
  /\ b \in founders \ (removed \cup {a}) =>
       Newest(queue[b], Batches(b), roster[b], roster[a]) \/ OnTheWay(a, b)

(* The administrator's own roster, which nobody else writes *)
Source(a) ==
  /\ roster[a] = founders \ removed /\ removed \subseteq founders
  /\ Plain(queue[a]) /\ \A s \in Batches(a) : Plain(s)

(* W are members that run one poll at a time, as those did whose polls never overlapped *)
Administered(W, a) == Source(a) /\ Calls(a) /\ \A b \in W : Road(a, b)

AdminInv ==
  \A a \in Account : Steady(a) => \E W : W = Account \ overlapped /\ Administered(W, a)

-----------------------------------------------------------------------------
(* A client with one poll has at most one batch. *)
Alone(c, t) == \A u \in Task : Polling(c, u) => u = t

LEMMA BatchesPoll ==
  ASSUME TypeInv, NEW c \in Account, NEW t \in PollTask, NEW r, Becomes(c, t, r)
  PROVE  /\ Alone(c, t) =>
              /\ Batches(c) = IF task[c][t].op = "poll" THEN {task[c][t].batch} ELSE {}
              /\ Batches(c)' = IF r.op = "poll" THEN {r.batch} ELSE {}
         /\ Batches(c)' \subseteq Batches(c) \cup (IF r.op = "poll" THEN {r.batch} ELSE {})
         /\ \A b \in Account : b # c => Batches(b)' = Batches(b)
<1> t \in Task
  BY DEF Task
<1>1. /\ task'[c][t] = r
      /\ \A b \in Account, u \in Task : ~(b = c /\ u = t) => task'[b][u] = task[b][u]
  BY OtherTask
<1>2. \A b \in Account : Batches(b)' = {task'[b][u].batch : u \in {v \in Task : task'[b][v].op = "poll"}}
  BY DEF Batches, Polling
<1>3. ASSUME Alone(c, t)
      PROVE  /\ Batches(c) = IF task[c][t].op = "poll" THEN {task[c][t].batch} ELSE {}
             /\ Batches(c)' = IF r.op = "poll" THEN {r.batch} ELSE {}
  <2>1. \A u \in Task : u # t => task[c][u].op # "poll"
    BY <1>3 DEF Alone, Polling
  <2>2. Batches(c) = IF task[c][t].op = "poll" THEN {task[c][t].batch} ELSE {}
    BY <2>1 DEF Batches, Polling
  <2>3. Batches(c)' = IF r.op = "poll" THEN {r.batch} ELSE {}
    BY <1>1, <1>2, <2>1
  <2> QED BY <2>2, <2>3
<1>4. Batches(c)' \subseteq Batches(c) \cup (IF r.op = "poll" THEN {r.batch} ELSE {})
  BY <1>1, <1>2 DEF Batches, Polling
<1>5. ASSUME NEW b \in Account, b # c PROVE Batches(b)' = Batches(b)
  BY <1>1, <1>2, <1>5 DEF Batches, Polling
<1> QED BY <1>3, <1>4, <1>5

(* A user's call has no batch to handle. *)
LEMMA BatchesUser ==
  ASSUME TypeInv, NEW c \in Account, NEW t \in Task, NEW r, Becomes(c, t, r),
         task[c][t].op # "poll", r.op # "poll"
  PROVE  \A b \in Account : Batches(b)' = Batches(b)
<1> SUFFICES ASSUME NEW b \in Account PROVE Batches(b)' = Batches(b)
  OBVIOUS
<1>1. /\ task'[c][t] = r
      /\ \A d \in Account, u \in Task : ~(d = c /\ u = t) => task'[d][u] = task[d][u]
  BY OtherTask
<1>2. Batches(b)' = {task'[b][u].batch : u \in {v \in Task : task'[b][v].op = "poll"}}
  BY DEF Batches, Polling
<1>3. {v \in Task : task'[b][v].op = "poll"} = {v \in Task : task[b][v].op = "poll"}
  BY <1>1
<1>4. \A v \in Task : task[b][v].op = "poll" => task'[b][v] = task[b][v]
  BY <1>1
<1> QED BY <1>2, <1>3, <1>4 DEF Batches, Polling

(* The administrator's calls stay so, unless one that is under way saves. *)
LEMMA CallsKept ==
  ASSUME TypeInv, NEW a \in Account, Calls(a),
         NEW c \in Account, NEW t \in Task, NEW r, Becomes(c, t, r),
         Rostering(r) => Call(a, roster'[a], c, t, r),
         \/ roster'[a] = roster[a] /\ ~Rostering(r)
         \/ roster'[a] = roster[a] /\ c = a /\ Rostering(task[a][t])
         \/ c = a /\ \A u \in Task : u # t => ~Rostering(task[a][u])
  PROVE  Calls(a)'
<1>1. /\ task'[c][t] = r
      /\ \A d \in Account, v \in Task : ~(d = c /\ v = t) => task'[d][v] = task[d][v]
  BY OtherTask
<1>2. ASSUME NEW b \in Account, NEW u \in Task, Rostering(task'[b][u])
      PROVE  Call(a, roster'[a], b, u, task'[b][u])
  <2>1. CASE b = c /\ u = t
    BY <1>1, <1>2, <2>1
  <2>2. CASE ~(b = c /\ u = t)
    <3>1. task'[b][u] = task[b][u] /\ Call(a, roster[a], b, u, task[b][u])
      BY <1>1, <1>2, <2>2 DEF Calls
    <3>2. roster'[a] = roster[a]
      BY <1>2, <2>2, <3>1 DEF Call
    <3> QED BY <3>1, <3>2 DEF Call
  <2> QED BY <2>1, <2>2
<1>3. ASSUME NEW u \in Task, NEW v \in Task, Rostering(task'[a][u]), Rostering(task'[a][v])
      PROVE  u = v
  BY <1>1, <1>3 DEF Calls
<1> QED BY <1>2, <1>3 DEF Calls, Rostering

(* Whom the administrator still has to send to, when one task changes. *)
LEMMA WaysKept ==
  ASSUME TypeInv, NEW a \in Account, NEW c \in Account, NEW t \in Task, NEW r, Becomes(c, t, r),
         NEW b \in Account,
         c = a /\ task[a][t].op = "create" /\ b \in task[a][t].to => r.op = "create" /\ b \in r.to,
         c = a /\ Rostering(task[a][t]) /\ task[a][t].step = "send" /\ b \in task[a][t].to
           => Rostering(r) /\ r.step = "send" /\ b \in r.to
  PROVE  (Inviting(a, b) => Inviting(a, b)') /\ (OnTheWay(a, b) => OnTheWay(a, b)')
<1>1. /\ task'[c][t] = r
      /\ \A d \in Account, v \in Task : ~(d = c /\ v = t) => task'[d][v] = task[d][v]
  BY OtherTask
<1>2. ASSUME Inviting(a, b) PROVE Inviting(a, b)'
  <2>1. PICK u \in Task : task[a][u].op = "create" /\ b \in task[a][u].to
    BY <1>2 DEF Inviting
  <2>2. task'[a][u].op = "create" /\ b \in task'[a][u].to
    BY <1>1, <2>1
  <2> QED BY <2>2 DEF Inviting
<1>3. ASSUME OnTheWay(a, b) PROVE OnTheWay(a, b)'
  <2>1. PICK u \in Task : Rostering(task[a][u]) /\ task[a][u].step = "send" /\ b \in task[a][u].to
    BY <1>3 DEF OnTheWay
  <2>2. Rostering(task'[a][u]) /\ task'[a][u].step = "send" /\ b \in task'[a][u].to
    BY <1>1, <2>1
  <2> QED BY <2>2 DEF OnTheWay, Rostering
<1> QED BY <1>2, <1>3

(* A step that leaves everything of a member alone *)
LEMMA RoadStays ==
  ASSUME NEW a \in Account, NEW b \in Account, Road(a, b),
         roster'[b] = roster[b], roster'[a] = roster[a], queue'[b] = queue[b],
         Batches(b)' = Batches(b), UNCHANGED <<founders, removed>>,
         Inviting(a, b) => Inviting(a, b)', OnTheWay(a, b) => OnTheWay(a, b)'
  PROVE  Road(a, b)'
<1>1. Road(a, b)' =
        ( /\ roster'[b] # {} => a \in roster'[b]
          /\ Issued(a, queue'[b]) /\ \A s \in Batches(b)' : Issued(a, s)
          /\ InviteFirst(queue'[b], Batches(b)', roster'[b])
          /\ b \in founders' \ {a} => Invited(queue'[b], Batches(b)', roster'[b]) \/ Inviting(a, b)'
          /\ b \in founders' \ (removed' \cup {a}) =>
               Newest(queue'[b], Batches(b)', roster'[b], roster'[a]) \/ OnTheWay(a, b)' )
  BY DEF Road
<1> QED BY <1>1 DEF Road

(* A step that only moves a task on, or that starts a removal *)
LEMMA TaskMoves ==
  ASSUME TypeInv, NEW a \in Account, NEW W \in SUBSET Account, Administered(W, a),
         NEW c \in Account, NEW t \in Task, NEW r, Becomes(c, t, r),
         UNCHANGED <<roster, queue, founders, removed>>,
         \A b \in Account : b = a \/ b \in W => Batches(b)' = Batches(b),
         Rostering(task[c][t]) => task[c][t].to = {},
         Rostering(r) =>
           Call(a, roster[a], c, t, r) /\ \A u \in Task : u # t => ~Rostering(task[a][u])
  PROVE  Administered(W, a)'
<1>1. Calls(a)'
  <2>1. Rostering(r) => c = a
    BY DEF Call
  <2> QED BY <2>1, CallsKept DEF Administered
<1>2. ASSUME NEW b \in W PROVE Road(a, b)'
  <2>1. Inviting(a, b) => Inviting(a, b)'
    BY WaysKept DEF Rostering
  <2>2. OnTheWay(a, b) => OnTheWay(a, b)'
    BY WaysKept DEF Rostering
  <2> QED BY <2>1, <2>2, RoadStays DEF Administered
<1>3. Source(a)'
  <2>1. Batches(a)' = Batches(a)
    OBVIOUS
  <2> QED BY <2>1 DEF Administered, Source
<1> QED BY <1>1, <1>2, <1>3 DEF Administered

-----------------------------------------------------------------------------
(* A step of a poll concerns only the member whose poll it is. *)
LEMMA PollMoves ==
  ASSUME TypeInv, NEW a \in Account, NEW W \in SUBSET Account, Administered(W, a),
         NEW c \in Account, NEW t \in PollTask, NEW r, Becomes(c, t, r),
         ~Rostering(task[c][t]), r.op \in {"none", "poll"},
         UNCHANGED <<founders, removed>>, roster'[a] = roster[a],
         \A b \in Account : b # c => roster'[b] = roster[b] /\ queue'[b] = queue[b],
         c \in W => Alone(c, t),
         LET S == IF r.op = "poll" THEN {r.batch} ELSE {}
         IN /\ c = a => Plain(queue'[c]) /\ \A s \in S : Plain(s)
            /\ c \in W =>
                 /\ roster'[c] # {} => a \in roster'[c]
                 /\ Issued(a, queue'[c]) /\ \A s \in S : Issued(a, s)
                 /\ InviteFirst(queue'[c], S, roster'[c])
                 /\ Invited(queue[c], Batches(c), roster[c]) => Invited(queue'[c], S, roster'[c])
                 /\ Newest(queue[c], Batches(c), roster[c], roster[a]) =>
                      Newest(queue'[c], S, roster'[c], roster[a])
  PROVE  Administered(W, a)'
<1> t \in Task
  BY DEF Task
<1> DEFINE S == IF r.op = "poll" THEN {r.batch} ELSE {}
<1>1. /\ c \in W => Batches(c)' = S
      /\ Batches(c)' \subseteq Batches(c) \cup S
      /\ \A b \in Account : b # c => Batches(b)' = Batches(b)
  BY BatchesPoll
<1> HIDE DEF S
<1>2. ~Rostering(r)
  BY DEF Rostering
<1>3. Calls(a)'
  BY <1>2, CallsKept DEF Administered
<1>4. ASSUME NEW b \in Account
      PROVE  (Inviting(a, b) => Inviting(a, b)') /\ (OnTheWay(a, b) => OnTheWay(a, b)')
  BY WaysKept DEF Rostering
<1>5. ASSUME NEW b \in W PROVE Road(a, b)'
  <2>1. CASE b # c
    BY <1>1, <1>4, <2>1, RoadStays DEF Administered
  <2>2. CASE b = c
    <3>1. Road(a, c)' =
            ( /\ roster'[c] # {} => a \in roster'[c]
              /\ Issued(a, queue'[c]) /\ \A s \in Batches(c)' : Issued(a, s)
              /\ InviteFirst(queue'[c], Batches(c)', roster'[c])
              /\ c \in founders' \ {a} => Invited(queue'[c], Batches(c)', roster'[c]) \/ Inviting(a, c)'
              /\ c \in founders' \ (removed' \cup {a}) =>
                   Newest(queue'[c], Batches(c)', roster'[c], roster'[a]) \/ OnTheWay(a, c)' )
      BY DEF Road
    <3>2. Road(a, c) /\ Batches(c)' = S
      BY <1>1, <2>2 DEF Administered
    <3>3. /\ roster'[c] # {} => a \in roster'[c]
          /\ Issued(a, queue'[c]) /\ \A s \in Batches(c)' : Issued(a, s)
      BY <2>2, <3>2 DEF S
    <3>4. InviteFirst(queue'[c], Batches(c)', roster'[c])
      BY <2>2, <3>2 DEF S
    <3>5. c \in founders' \ {a} => Invited(queue'[c], Batches(c)', roster'[c]) \/ Inviting(a, c)'
      BY <1>4, <2>2, <3>2 DEF Road, S
    <3>6. c \in founders' \ (removed' \cup {a}) =>
            Newest(queue'[c], Batches(c)', roster'[c], roster'[a]) \/ OnTheWay(a, c)'
      BY <1>4, <2>2, <3>2 DEF Road, S
    <3> QED BY <2>2, <3>1, <3>3, <3>4, <3>5, <3>6
  <2> QED BY <2>1, <2>2
<1>6. Source(a)'
  <2>1. Source(a)' =
          ( /\ roster'[a] = founders' \ removed' /\ removed' \subseteq founders'
            /\ Plain(queue'[a]) /\ \A s \in Batches(a)' : Plain(s) )
    BY DEF Source
  <2>2. CASE c = a
    BY <1>1, <2>1, <2>2 DEF Administered, Source, S
  <2>3. CASE c # a
    BY <1>1, <2>1, <2>3 DEF Administered, Source
  <2> QED BY <2>2, <2>3
<1> QED BY <1>3, <1>5, <1>6 DEF Administered

LEMMA FetchAdministered ==
  ASSUME TypeInv, SenderInv, NEW a \in Account, NEW W \in SUBSET Account, Administered(W, a),
         W \cap overlapped' = {}, NEW c \in Account, NEW t \in PollTask, PollFetch(c, t)
  PROVE  Administered(W, a)'
<1> t \in Task
  BY DEF Task
<1> DEFINE q == queue[c]
           r == Poll(q)
<1>1. task[c][t] = Idle /\ Becomes(c, t, r) /\ queue' = [queue EXCEPT ![c] = <<>>]
  BY DEF PollFetch, Fetches, Start, Becomes
<1>2. r.op = "poll" /\ r.batch = q
  BY DEF Poll, Idle
<1>3. roster' = roster /\ founders' = founders /\ removed' = removed
  BY DEF PollFetch, Fetches, stores
<1>4. queue'[c] = <<>> /\ \A b \in Account : b # c => queue'[b] = queue[b]
  BY <1>1 DEF TypeInv, TypeOK
<1>5. task[c][t].op = "none"
  BY <1>1, AtWork
<1>6. c \in W => Alone(c, t) /\ Batches(c) = {}
  <2>1. c \in W => \A u \in PollTask : task[c][u] = Idle
    BY DEF PollFetch, Fetches
  <2>2. c \in W => \A u \in Task : ~Polling(c, u)
    BY <2>1 DEF SenderInv, Polling, Idle
  <2> QED BY <2>2 DEF Alone, Batches
<1>7. (c \in W => Road(a, c)) /\ (c = a => Source(c))
  BY DEF Administered
<1>8. ~Rostering(task[c][t])
  BY <1>5 DEF Rostering
<1> HIDE DEF r
<1>9. c \in W => /\ Issued(a, q) /\ (roster[c] # {} => a \in roster[c])
                 /\ InviteFirst(q, {}, roster[c])
  BY <1>6, <1>7 DEF Road
<1>10. c = a => Plain(q)
  BY <1>7 DEF Source
<1>11. c \in W => InviteFirst(<<>>, {q}, roster[c])
  BY <1>9, FetchedRoad
<1>12. Invited(q, {}, roster[c]) => Invited(<<>>, {q}, roster[c])
  BY FetchedRoad
<1>13. Newest(q, {}, roster[c], roster[a]) => Newest(<<>>, {q}, roster[c], roster[a])
  BY FetchedRoad
<1> HIDE DEF q
<1>14. Plain(<<>>) /\ Issued(a, <<>>)
  BY EmptyRoad
<1>15. LET S == IF r.op = "poll" THEN {r.batch} ELSE {}
       IN /\ c = a => Plain(queue'[c]) /\ \A s \in S : Plain(s)
          /\ c \in W =>
               /\ roster'[c] # {} => a \in roster'[c]
               /\ Issued(a, queue'[c]) /\ \A s \in S : Issued(a, s)
               /\ InviteFirst(queue'[c], S, roster'[c])
               /\ Invited(queue[c], Batches(c), roster[c]) => Invited(queue'[c], S, roster'[c])
               /\ Newest(queue[c], Batches(c), roster[c], roster[a]) =>
                    Newest(queue'[c], S, roster'[c], roster[a])
  BY <1>2, <1>3, <1>4, <1>6, <1>9, <1>10, <1>11, <1>12, <1>13, <1>14 DEF q
<1> QED BY <1>1, <1>2, <1>3, <1>4, <1>6, <1>8, <1>15, PollMoves

(* The envelope a poll is at, and what it does next *)
LEMMA AtEnvelope ==
  ASSUME TypeInv, SenderInv, NEW a \in Account, NEW W \in SUBSET Account, Administered(W, a),
         W \cap overlapped = {}, NEW c \in Account, NEW t \in PollTask, task[c][t].op = "poll"
  PROVE  /\ t \in Task /\ task[c][t] # Idle /\ ~Rostering(task[c][t])
         /\ task[c][t].batch \in Seq(Envelope) /\ task[c][t].batch # <<>>
         /\ c \in W => /\ Alone(c, t) /\ Batches(c) = {task[c][t].batch}
                       /\ Road(a, c) /\ Issued(a, task[c][t].batch)
         /\ c = a => Plain(task[c][t].batch) /\ Plain(queue[c])
<1>1. t \in Task
  BY DEF Task
<1>2. task[c][t] # Idle
  BY AtWork
<1>3. task[c][t].batch \in Seq(Envelope) /\ task[c][t].batch # <<>>
  BY <1>1, <1>2 DEF TypeInv, TypeOK, Busy, Activation
<1>4. task[c][t].batch \in Batches(c)
  BY <1>1 DEF Batches, Polling
<1>5. c \in W => \A u \in Task : task[c][u].op = "poll" => u = t
  BY <1>1 DEF SenderInv, Polling
<1>6. c \in W => Alone(c, t) /\ Batches(c) = {task[c][t].batch}
  BY <1>1, <1>5 DEF Batches, Polling, Alone
<1> QED BY <1>1, <1>2, <1>3, <1>4, <1>6 DEF Administered, Source, Road, Rostering

(* The poll goes on to the next envelope after a text, or after it stored a *)
(* roster; a member not in W may also leave one out.                        *)
LEMMA NextAdministered ==
  ASSUME TypeInv, SenderInv, NEW a \in Account, NEW W \in SUBSET Account, Administered(W, a),
         W \cap overlapped = {}, NEW c \in Account, NEW t \in PollTask,
         task[c][t].op = "poll", NextEnvelope(c, t),
         UNCHANGED <<queue, founders, removed>>,
         \/ (IsText(task[c][t].batch[1]) \/ c \notin W) /\ roster' = roster
         \/ /\ ~IsText(task[c][t].batch[1])
            /\ roster' = [roster EXCEPT ![c] = task[c][t].batch[1].roster]
  PROVE  Administered(W, a)'
<1> DEFINE s == task[c][t].batch
           k == Tail(s)
           r == IF k = <<>> THEN Idle ELSE Poll(k)
           S == IF r.op = "poll" THEN {r.batch} ELSE {}
<1>1. /\ t \in Task /\ ~Rostering(task[c][t])
      /\ s \in Seq(Envelope) /\ s # <<>>
      /\ c \in W => Alone(c, t) /\ Batches(c) = {s} /\ Road(a, c) /\ Issued(a, s)
      /\ c = a => Plain(s) /\ Plain(queue[c])
  BY AtEnvelope
<1>2. Becomes(c, t, r)
  BY DEF NextEnvelope, Becomes
<1>3. r.op \in {"none", "poll"}
  BY DEF Poll, Idle
<1>4. S = Rest(s)
  BY DEF Rest, Poll, Idle
<1>5. /\ c = a => IsText(s[1]) /\ Plain(k)
      /\ c \in W => Issued(a, k) /\ (~IsText(s[1]) => a \in s[1].roster)
  BY <1>1, TailRoad
<1>6. /\ c \in W => \A x \in Rest(s) : Issued(a, x)
      /\ c = a => \A x \in Rest(s) : Plain(x)
  BY <1>5 DEF Rest
<1> HIDE DEF s, k, r, S
<1>7. \A b \in Account : b # c => roster'[b] = roster[b]
  BY DEF TypeInv, TypeOK
<1>8. roster'[a] = roster[a]
  BY <1>5, <1>7 DEF s
<1>9. ASSUME c \in W
      PROVE  /\ roster'[c] # {} => a \in roster'[c]
             /\ InviteFirst(queue[c], Rest(s), roster'[c])
             /\ Invited(queue[c], {s}, roster[c]) => Invited(queue[c], Rest(s), roster'[c])
             /\ Newest(queue[c], {s}, roster[c], roster[a]) =>
                  Newest(queue[c], Rest(s), roster'[c], roster[a])
  <2>1. CASE IsText(s[1])
    <3>1. roster' = roster
      BY <2>1 DEF s
    <3>2. InviteFirst(queue[c], {s}, roster[c]) /\ (roster[c] # {} => a \in roster[c])
      BY <1>1, <1>9 DEF Road
    <3> QED BY <1>1, <2>1, <3>1, <3>2, TextHandled
  <2>2. CASE ~IsText(s[1])
    <3>1. roster'[c] = s[1].roster
      BY <1>9, <2>2 DEF s, TypeInv, TypeOK
    <3>2. a \in s[1].roster /\ s[1].roster # {}
      BY <1>5, <1>9, <2>2
    <3> QED BY <1>1, <2>2, <3>1, <3>2, RosterHandled
  <2> QED BY <2>1, <2>2
<1>10. c \in W => Issued(a, queue[c])
  BY <1>1 DEF Road
<1>11. LET T == IF r.op = "poll" THEN {r.batch} ELSE {}
       IN /\ c = a => Plain(queue'[c]) /\ \A x \in T : Plain(x)
          /\ c \in W =>
               /\ roster'[c] # {} => a \in roster'[c]
               /\ Issued(a, queue'[c]) /\ \A x \in T : Issued(a, x)
               /\ InviteFirst(queue'[c], T, roster'[c])
               /\ Invited(queue[c], Batches(c), roster[c]) => Invited(queue'[c], T, roster'[c])
               /\ Newest(queue[c], Batches(c), roster[c], roster[a]) =>
                    Newest(queue'[c], T, roster'[c], roster[a])
  BY <1>1, <1>4, <1>6, <1>9, <1>10 DEF S
<1> QED BY <1>1, <1>2, <1>3, <1>7, <1>8, <1>11, PollMoves

(* A poll that stays at its envelope *)
LEMMA StaysAdministered ==
  ASSUME TypeInv, SenderInv, NEW a \in Account, NEW W \in SUBSET Account, Administered(W, a),
         NEW c \in Account, NEW t \in PollTask, task[c][t].op = "poll",
         NEW r, Becomes(c, t, r), r.op = "poll", r.batch = task[c][t].batch,
         UNCHANGED <<roster, queue, founders, removed>>
  PROVE  Administered(W, a)'
<1>1. t \in Task /\ ~Rostering(task[c][t])
  BY DEF Task, Rostering
<1>2. /\ task'[c][t] = r
      /\ \A b \in Account, u \in Task : ~(b = c /\ u = t) => task'[b][u] = task[b][u]
  BY <1>1, OtherTask
<1>3. \A b \in Account, u \in Task :
        /\ task'[b][u].op = "poll" <=> task[b][u].op = "poll"
        /\ task[b][u].op = "poll" => task'[b][u].batch = task[b][u].batch
  BY <1>2
<1>4. ASSUME NEW b \in Account PROVE Batches(b)' = Batches(b)
  BY <1>3 DEF Batches, Polling
<1> QED BY <1>1, <1>4, TaskMoves DEF Rostering

LEMMA PollAdministered ==
  ASSUME TypeInv, SenderInv, NEW a \in Account, NEW W \in SUBSET Account, Administered(W, a),
         W \cap overlapped = {}, W \cap overlapped' = {},
         NEW c \in Account, NEW t \in PollTask, PollFetch(c, t) \/ PollGoesOn(c, t)
  PROVE  Administered(W, a)'
<1> USE DEF counters, stores
<1> t \in Task
  BY DEF Task
<1>1. CASE PollFetch(c, t)
  BY <1>1, FetchAdministered
<1>2. CASE HandleInvite(c, t)
  BY <1>2, NextAdministered DEF HandleInvite, Handling, IsText
<1>3. CASE HandleUpdate(c, t)
  BY <1>3, NextAdministered DEF HandleUpdate, Handling, IsText
<1>4. CASE HandleWrite(c, t)
  BY <1>4, NextAdministered DEF HandleWrite, Handling, IsText
<1>5. CASE HandleRead(c, t)
  <2> DEFINE r == [task[c][t] EXCEPT !.step = "append", !.seen = log[c]]
  <2>1. task[c][t].op = "poll" /\ task[c][t] \in Activation
    BY <1>5 DEF HandleRead, Handling, TypeInv, TypeOK
  <2>2. r.op = "poll" /\ r.batch = task[c][t].batch
    BY <2>1 DEF Activation
  <2>3. Becomes(c, t, r)
    BY <1>5 DEF HandleRead, Becomes, TypeInv, TypeOK
  <2> HIDE DEF r
  <2> QED BY <1>5, <2>1, <2>2, <2>3, StaysAdministered DEF HandleRead
<1>6. CASE HandleCheck(c, t)
  <2>1. task[c][t].op = "poll" /\ task[c][t] \in Activation
    BY <1>6 DEF HandleCheck, Handling, TypeInv, TypeOK
  <2>2. ASSUME NEW s \in {"overwrite", "read"}, Goto(c, t, s)
        PROVE  Administered(W, a)'
    <3> DEFINE r == [task[c][t] EXCEPT !.step = s]
    <3>1. r.op = "poll" /\ r.batch = task[c][t].batch
      BY <2>1 DEF Activation
    <3>2. Becomes(c, t, r)
      BY <2>2 DEF Goto, Becomes, TypeInv, TypeOK
    <3> HIDE DEF r
    <3> QED BY <1>6, <2>1, <3>1, <3>2, StaysAdministered DEF HandleCheck
  <2>3. ASSUME ~Accepts(c, task[c][t].batch[1]), NextEnvelope(c, t)
        PROVE  Administered(W, a)'
    <3> DEFINE e == task[c][t].batch[1]
    <3>1. /\ task[c][t].batch \in Seq(Envelope) /\ task[c][t].batch # <<>>
          /\ c \in W => /\ Batches(c) = {task[c][t].batch}
                        /\ Road(a, c) /\ Issued(a, task[c][t].batch)
      BY <2>1, AtEnvelope
    <3>2. e.kind \in {"update", "text"}
      BY <1>6 DEF HandleCheck, Handling
    <3>3. ASSUME e.kind = "update", c \in W PROVE FALSE
      <4>1. ~Leads(task[c][t].batch)
        BY <3>1, <3>3, TailRoad
      <4>2. roster[c] # {} /\ a \in roster[c]
        BY <3>1, <3>3, <4>1 DEF Road, InviteFirst
      <4>3. e.from = a
        BY <3>1, <3>3, TailRoad DEF IsText
      <4> QED BY <2>3, <4>2, <4>3 DEF Accepts
    <3>4. IsText(e) \/ c \notin W
      BY <3>2, <3>3 DEF IsText
    <3> QED BY <1>6, <2>1, <2>3, <3>4, NextAdministered DEF HandleCheck
  <2> QED BY <1>6, <2>2, <2>3 DEF HandleCheck
<1> QED BY <1>1, <1>2, <1>3, <1>4, <1>5, <1>6 DEF PollGoesOn

-----------------------------------------------------------------------------
(* Sending keeps what the other members have coming, and adds to one queue. *)
LEMMA SendAdministered ==
  ASSUME TypeInv, OwnInv, SenderInv, NEW a \in Account, NEW W \in SUBSET Account, Administered(W, a),
         NEW c \in Account, NEW t \in UserTask, Send(c, t)
  PROVE  Administered(W, a)'
<1> t \in Task
  BY DEF Task
<1> DEFINE e == task[c][t].batch[1]
<1>1. PICK m \in task[c][t].to :
        /\ queue' = [queue EXCEPT ![m] = Append(@, e)]
        /\ task' = [task EXCEPT ![c][t].to = @ \ {m}]
  BY DEF Send
<1> DEFINE r == [task[c][t] EXCEPT !.to = task[c][t].to \ {m}]
<1>2. /\ task[c][t] \in Activation /\ task[c][t] # Idle /\ task[c][t].step = "send"
      /\ OwnTask(c, task[c][t]) /\ m \in Account /\ e \in Envelope
  <2>1. task[c][t] \in Activation /\ task[c][t].step = "send" /\ OwnTask(c, task[c][t])
    BY DEF Send, OwnInv, TypeInv, TypeOK
  <2>2. task[c][t] # Idle
    BY <2>1, AtWork
  <2>3. m \in Account
    BY <2>1 DEF Activation
  <2> QED BY <2>1, <2>2, <2>3, EnvelopeType
<1>3. /\ r.op = task[c][t].op /\ r.step = "send" /\ r.batch = task[c][t].batch
      /\ r.to = task[c][t].to \ {m}
  BY <1>2 DEF Activation
<1>4. Becomes(c, t, r)
  <2>1. task' = [task EXCEPT ![c][t] = r]
    BY <1>1 DEF TypeInv, TypeOK
  <2> QED BY <2>1 DEF Becomes
<1> HIDE DEF r
<1>5. task[c][t].op \in {"create", "remove", "text"}
  BY <1>2 DEF OwnTask, Activation, Idle
<1>6. \A b \in Account : Batches(b)' = Batches(b)
  BY <1>3, <1>4, <1>5, BatchesUser
<1>7. /\ queue[m] \in Seq(Envelope) /\ queue'[m] = Append(queue[m], e)
      /\ \A b \in Account : b # m => queue'[b] = queue[b]
  BY <1>1, <1>2 DEF TypeInv, TypeOK
<1>8. roster' = roster /\ founders' = founders /\ removed' = removed
  BY DEF Send, stores, counters, races
<1>9. Rostering(task[c][t]) => Call(a, roster[a], c, t, task[c][t])
  BY DEF Administered, Calls
<1>10. Calls(a)'
  <2>1. Rostering(r) => Call(a, roster'[a], c, t, r)
    BY <1>2, <1>3, <1>8, <1>9 DEF Call, Rostering
  <2>2. Rostering(r) => c = a /\ Rostering(task[a][t])
    BY <1>3, <1>9 DEF Call, Rostering
  <2> QED BY <1>4, <1>8, <2>1, <2>2, CallsKept DEF Administered
<1>11. ASSUME NEW b \in Account, b # m \/ task[c][t].op = "text"
       PROVE  (Inviting(a, b) => Inviting(a, b)') /\ (OnTheWay(a, b) => OnTheWay(a, b)')
  <2>1. c = a /\ task[a][t].op = "create" /\ b \in task[a][t].to => r.op = "create" /\ b \in r.to
    BY <1>3, <1>11
  <2>2. c = a /\ Rostering(task[a][t]) /\ task[a][t].step = "send" /\ b \in task[a][t].to
          => Rostering(r) /\ r.step = "send" /\ b \in r.to
    <3> SUFFICES ASSUME c = a, Rostering(task[a][t]), b \in task[a][t].to
                 PROVE  Rostering(r) /\ b \in r.to
      BY <1>3
    <3>1. b # m
      BY <1>11 DEF Rostering
    <3> QED BY <1>3, <3>1 DEF Rostering
  <2> QED BY <1>4, <2>1, <2>2, WaysKept
<1>12. ASSUME NEW b \in W, b # m PROVE Road(a, b)'
  BY <1>6, <1>7, <1>8, <1>11, <1>12, RoadStays DEF Administered
<1>13. Road(a, m)' =
        ( /\ roster'[m] # {} => a \in roster'[m]
          /\ Issued(a, queue'[m]) /\ \A s \in Batches(m)' : Issued(a, s)
          /\ InviteFirst(queue'[m], Batches(m)', roster'[m])
          /\ m \in founders' \ {a} => Invited(queue'[m], Batches(m)', roster'[m]) \/ Inviting(a, m)'
          /\ m \in founders' \ (removed' \cup {a}) =>
               Newest(queue'[m], Batches(m)', roster'[m], roster'[a]) \/ OnTheWay(a, m)' )
  BY DEF Road
<1>14. (m \in W => Road(a, m)) /\ Batches(m)' = Batches(m)
  BY <1>2, <1>6 DEF Administered
<1>15. CASE IsText(e)
  <2>1. task[c][t].op = "text"
    <3>1. ~Rostering(task[c][t])
      BY <1>15 DEF SenderInv
    <3> QED BY <1>5, <3>1 DEF Rostering
  <2>2. /\ \A R : Newest(queue[m], Batches(m), roster[m], R) => Newest(queue'[m], Batches(m), roster[m], R)
        /\ Invited(queue[m], Batches(m), roster[m]) => Invited(queue'[m], Batches(m), roster[m])
        /\ InviteFirst(queue[m], Batches(m), roster[m]) => InviteFirst(queue'[m], Batches(m), roster[m])
    BY <1>2, <1>7, <1>15, TextQueued
  <2>3. /\ Issued(a, queue[m]) => Issued(a, queue'[m])
        /\ Plain(queue[m]) => Plain(queue'[m])
    BY <1>2, <1>7, <1>15, AppendRoad
  <2>4. (Inviting(a, m) => Inviting(a, m)') /\ (OnTheWay(a, m) => OnTheWay(a, m)')
    BY <1>2, <1>11, <2>1
  <2> HIDE DEF e
  <2>5. m \in W => Road(a, m)'
    BY <1>8, <1>13, <1>14, <2>2, <2>3, <2>4 DEF Road
  <2>6. Source(a)'
    BY <1>6, <1>7, <1>8, <2>3 DEF Administered, Source
  <2> QED BY <1>10, <1>12, <2>5, <2>6 DEF Administered
<1>16. CASE ~IsText(e)
  <2>1. Rostering(task[c][t]) /\ c = a
    <3>1. task[c][t].op # "text"
      BY <1>2, <1>16 DEF OwnTask, IsText
    <3> QED BY <1>5, <1>9, <3>1 DEF Rostering, Call
  <2>2. e.from = a /\ m # a /\ e.roster = roster[a]
    BY <1>2, <1>9, <2>1 DEF Call
  <2>3. a \in e.roster /\ m \in founders
    BY <1>2, <2>1 DEF OwnTask, Rostering
  <2>4. m \in W => e.kind = "invite" \/ Invited(queue[m], Batches(m), roster[m])
    <3> SUFFICES ASSUME Inviting(a, m) PROVE e.kind = "invite"
      BY <1>14, <2>2, <2>3 DEF Road
    <3>1. PICK u \in Task : task[a][u].op = "create" /\ m \in task[a][u].to
      BY DEF Inviting
    <3>3. u = t
      BY <2>1, <3>1 DEF Administered, Calls, Rostering
    <3> QED BY <1>9, <2>1, <3>1, <3>3 DEF Call
  <2>5. m \in W =>
          /\ Newest(queue'[m], Batches(m), roster[m], e.roster)
          /\ Invited(queue'[m], Batches(m), roster[m])
          /\ InviteFirst(queue[m], Batches(m), roster[m]) =>
               InviteFirst(queue'[m], Batches(m), roster[m])
    BY <1>2, <1>7, <1>16, <2>4, RosterQueued
  <2>6. Issued(a, queue[m]) => Issued(a, queue'[m])
    BY <1>2, <1>7, <2>2, <2>3, AppendRoad
  <2> HIDE DEF e
  <2>7. m \in W => Road(a, m)'
    BY <1>8, <1>13, <1>14, <2>2, <2>5, <2>6 DEF Road
  <2>8. Source(a)'
    BY <1>2, <1>6, <1>7, <1>8, <2>2 DEF Administered, Source
  <2> QED BY <1>10, <1>12, <2>7, <2>8 DEF Administered
<1> QED BY <1>15, <1>16

(* Before the group exists nobody has a roster, and none is on its way. *)
LEMMA CreateAdministered ==
  ASSUME TypeInv, OwnInv, SenderInv, NEW a \in Account, NEW W \in SUBSET Account, Administered(W, a),
         Steady(a)',
         NEW c \in Account, NEW t \in UserTask, CreateGroup(c, t)
  PROVE  Administered(W, a)'
<1> t \in Task
  BY DEF Task
<1>1. PICK others \in (SUBSET (Account \ {c})) \ {{}} :
        /\ Start(c, t, FanOut("create", "send", Invite(c, {c} \cup others), others))
        /\ roster' = [roster EXCEPT ![c] = {c} \cup others]
        /\ founders' = {c} \cup others
  BY DEF CreateGroup
<1> DEFINE r == FanOut("create", "send", Invite(c, {c} \cup others), others)
<1>2. c = a /\ founders = {} /\ queue' = queue /\ removed' = removed
  BY DEF CreateGroup, Steady
<1>3. task[c][t] = Idle /\ Becomes(c, t, r)
  BY <1>1 DEF Start, Becomes
<1>4. /\ r.op = "create" /\ r.step = "send" /\ r.to = others
      /\ r.batch[1] = Invite(c, {c} \cup others)
  BY DEF FanOut
<1> HIDE DEF r
<1>5. \A b \in Account : Batches(b)' = Batches(b)
  BY <1>3, <1>4, AtWork, BatchesUser
<1>6. roster'[a] = {a} \cup others /\ \A b \in Account : b # a => roster'[b] = roster[b]
  BY <1>1, <1>2 DEF TypeInv, TypeOK
<1>7. removed = {} /\ a \in Account
  BY <1>2 DEF Administered, Source
<1>8. Calls(a)'
  <2>1. Call(a, roster'[a], c, t, r)
    BY <1>1, <1>2, <1>4, <1>6 DEF Call, Invite
  <2>2. ASSUME NEW u \in Task, Rostering(task[a][u]) PROVE FALSE
    <3>1. Call(a, roster[a], a, u, task[a][u]) /\ OwnTask(a, task[a][u]) /\ roster[a] = {}
      BY <1>2, <2>2 DEF Administered, Calls, Source, OwnInv
    <3>2. a \in task[a][u].batch[1].roster
      BY <2>2, <3>1 DEF OwnTask, Rostering
    <3> QED BY <2>2, <3>1, <3>2 DEF Call, Rostering
  <2> QED BY <1>2, <1>3, <2>1, <2>2, CallsKept DEF Administered
<1>9. \A b \in others : Inviting(a, b)' /\ OnTheWay(a, b)'
  <2>1. task'[a][t] = r
    BY <1>2, <1>3, OtherTask
  <2> QED BY <1>4, <2>1 DEF Inviting, OnTheWay, Rostering
<1>10. ASSUME NEW b \in W PROVE Road(a, b)'
  <2>1. Road(a, b)' =
          ( /\ roster'[b] # {} => a \in roster'[b]
            /\ Issued(a, queue'[b]) /\ \A s \in Batches(b)' : Issued(a, s)
            /\ InviteFirst(queue'[b], Batches(b)', roster'[b])
            /\ b \in founders' \ {a} => Invited(queue'[b], Batches(b)', roster'[b]) \/ Inviting(a, b)'
            /\ b \in founders' \ (removed' \cup {a}) =>
                 Newest(queue'[b], Batches(b)', roster'[b], roster'[a]) \/ OnTheWay(a, b)' )
    BY DEF Road
  <2>2. Road(a, b) /\ Batches(b)' = Batches(b)
    BY <1>5 DEF Administered
  <2>3. b \in founders' \ {a} => b \in others
    BY <1>1, <1>2
  <2>4. roster'[b] # {} => a \in roster'[b]
    BY <1>6, <2>2 DEF Road
  <2>5. InviteFirst(queue'[b], Batches(b)', roster'[b])
    BY <1>2, <1>6, <2>2 DEF Road, InviteFirst
  <2> QED BY <1>2, <1>9, <2>1, <2>2, <2>3, <2>4, <2>5 DEF Road
<1>11. Source(a)'
  BY <1>1, <1>2, <1>5, <1>6, <1>7 DEF Administered, Source
<1> QED BY <1>8, <1>10, <1>11 DEF Administered

(* A removal takes the member out of the administrator's roster, and is sent *)
(* to everyone who is left.                                                  *)
LEMMA SaveAdministered ==
  ASSUME TypeInv, OwnInv, SenderInv, NEW a \in Account, NEW W \in SUBSET Account, Administered(W, a),
         NEW c \in Account, NEW t \in UserTask, RemoveSave(c, t)
  PROVE  Administered(W, a)'
<1> t \in Task
  BY DEF Task
<1> DEFINE updated == task[c][t].batch[1].roster
           r == [task[c][t] EXCEPT !.step = "send"]
<1>1. /\ task[c][t] \in Activation /\ task[c][t].step = "save" /\ task[c][t].op = "remove"
      /\ OwnTask(c, task[c][t])
  BY DEF RemoveSave, OwnInv, OwnTask, TypeInv, TypeOK
<1>2. Call(a, roster[a], c, t, task[c][t])
  BY <1>1 DEF Administered, Calls, Rostering
<1>3. /\ c = a /\ a \in updated /\ updated \subseteq roster[a]
      /\ task[c][t].to = updated \ {a}
  BY <1>1, <1>2 DEF Call, OwnTask
<1>4. /\ r.op = "remove" /\ r.step = "send" /\ r.to = updated \ {a}
      /\ r.batch = task[c][t].batch
  BY <1>1, <1>3 DEF Activation
<1>5. Becomes(c, t, r)
  BY DEF RemoveSave, Goto, Becomes, TypeInv, TypeOK
<1> HIDE DEF r
<1>6. \A b \in Account : Batches(b)' = Batches(b)
  BY <1>1, <1>4, <1>5, BatchesUser
<1>7. /\ queue' = queue /\ founders' = founders
      /\ removed' = removed \cup (roster[a] \ updated)
      /\ roster'[a] = updated /\ \A b \in Account : b # a => roster'[b] = roster[b]
  BY <1>3 DEF RemoveSave, TypeInv, TypeOK
<1>8. Calls(a)'
  <2>1. Call(a, roster'[a], c, t, r)
    BY <1>1, <1>2, <1>4, <1>7 DEF Call
  <2>2. \A u \in Task : u # t => ~Rostering(task[a][u])
    BY <1>1, <1>3 DEF Administered, Calls, Rostering
  <2> QED BY <1>3, <1>5, <2>1, <2>2, CallsKept DEF Administered
<1>9. roster[a] = founders \ removed /\ removed \subseteq founders
  BY DEF Administered, Source
<1>10. \A b \in updated \ {a} : OnTheWay(a, b)'
  <2>1. task'[a][t] = r
    BY <1>3, <1>5, OtherTask
  <2> QED BY <1>4, <2>1 DEF OnTheWay, Rostering
<1>11. ASSUME NEW b \in Account PROVE Inviting(a, b) => Inviting(a, b)'
  <2>1. /\ task'[c][t] = r
        /\ \A u \in Task : u # t => task'[c][u] = task[c][u]
    BY <1>5, OtherTask
  <2> QED BY <1>1, <1>3, <2>1 DEF Inviting
<1>12. ASSUME NEW b \in W PROVE Road(a, b)'
  <2>1. Road(a, b)' =
          ( /\ roster'[b] # {} => a \in roster'[b]
            /\ Issued(a, queue'[b]) /\ \A s \in Batches(b)' : Issued(a, s)
            /\ InviteFirst(queue'[b], Batches(b)', roster'[b])
            /\ b \in founders' \ {a} => Invited(queue'[b], Batches(b)', roster'[b]) \/ Inviting(a, b)'
            /\ b \in founders' \ (removed' \cup {a}) =>
                 Newest(queue'[b], Batches(b)', roster'[b], roster'[a]) \/ OnTheWay(a, b)' )
    BY DEF Road
  <2>2. Road(a, b) /\ Batches(b)' = Batches(b)
    BY <1>6 DEF Administered
  <2>3. b \in founders' \ (removed' \cup {a}) => b \in updated \ {a}
    BY <1>7, <1>9
  <2> HIDE DEF updated
  <2>4. CASE b = a
    <3>1. roster'[b] # {} /\ a \in roster'[b]
      BY <1>3, <1>7, <2>4
    <3> QED BY <1>7, <2>1, <2>2, <2>4, <3>1 DEF Road, InviteFirst
  <2>5. CASE b # a
    <3>1. roster'[b] = roster[b]
      BY <1>7, <2>5
    <3> QED BY <1>7, <1>10, <1>11, <2>1, <2>2, <2>3, <3>1 DEF Road
  <2> QED BY <2>4, <2>5
<1>13. Source(a)'
  <2>1. roster'[a] = founders' \ removed' /\ removed' \subseteq founders'
    BY <1>3, <1>7, <1>9
  <2>2. Batches(a)' = Batches(a)
    BY <1>6
  <2> QED BY <1>7, <2>1, <2>2 DEF Administered, Source
<1> QED BY <1>8, <1>12, <1>13 DEF Administered

LEMMA UserAdministered ==
  ASSUME TypeInv, OwnInv, SenderInv, NEW a \in Account, NEW W \in SUBSET Account, Administered(W, a),
         Steady(a)',
         NEW c \in Account, NEW t \in UserTask, UserStarts(c, t) \/ UserGoesOn(c, t)
  PROVE  Administered(W, a)'
<1> USE DEF counters, races, stores
<1> t \in Task
  BY DEF Task
<1>1. CASE CreateGroup(c, t)
  BY <1>1, CreateAdministered
<1>2. CASE RemoveSave(c, t)
  BY <1>2, SaveAdministered
<1>3. CASE Send(c, t)
  BY <1>3, SendAdministered
<1>4. CASE RemoveLoad(c, t)
  <2>1. PICK m \in founders \ {c} :
          Start(c, t, FanOut("remove", "save", Update(c, roster[c] \ {m}), roster[c] \ {m, c}))
    BY <1>4 DEF RemoveLoad, Removes
  <2> DEFINE r == FanOut("remove", "save", Update(c, roster[c] \ {m}), roster[c] \ {m, c})
  <2>2. /\ task[c][t] = Idle /\ Becomes(c, t, r) /\ c = a
        /\ \A u \in Task : ~Rostering(task[a][u])
    <3>1. task[c][t] = Idle /\ Becomes(c, t, r) /\ c = a /\ ~FansOut(a)
      BY <1>4, <2>1 DEF Start, Becomes, RemoveLoad, Removes, Steady
    <3>2. \A u \in Task : Rostering(task[a][u]) => u \in UserTask
      BY DEF Administered, Calls, Call
    <3> QED BY <3>1, <3>2 DEF FansOut, Rostering
  <2>3. r.op = "remove" /\ Call(a, roster[a], c, t, r)
    BY <2>2 DEF Call, FanOut, Update
  <2> HIDE DEF r
  <2>4. task[c][t].op = "none"
    BY <2>2, AtWork
  <2>5. \A b \in Account : Batches(b)' = Batches(b)
    BY <2>2, <2>3, <2>4, BatchesUser
  <2> QED BY <1>4, <2>2, <2>3, <2>4, <2>5, TaskMoves DEF RemoveLoad, Removes, Rostering
<1>5. ASSUME NEW r, Becomes(c, t, r), r.op \in {"none", "text"}, task[c][t].op # "poll",
             Rostering(task[c][t]) => task[c][t].to = {},
             UNCHANGED <<roster, queue, founders, removed>>
      PROVE  Administered(W, a)'
  <2>1. \A b \in Account : Batches(b)' = Batches(b)
    BY <1>5, BatchesUser
  <2> QED BY <1>5, <2>1, TaskMoves DEF Rostering
<1>6. task[c][t].op # "poll"
  <2>1. UserTask \cap PollTask = {}
    BY GroupsAssumption
  <2> QED BY <2>1 DEF SenderInv, Polling
<1>7. CASE FanOutEnds(c, t)
  BY <1>5, <1>6, <1>7, IdleType DEF FanOutEnds, Finish, Becomes
<1>8. CASE TextLoad(c, t)
  <2> DEFINE r == FanOut("text", "send", Text(c), roster[c] \ {c})
  <2>1. task[c][t] = Idle /\ Becomes(c, t, r) /\ r.op = "text"
    BY <1>8 DEF TextLoad, Start, Becomes, FanOut
  <2> HIDE DEF r
  <2>2. task[c][t].op = "none"
    BY <2>1, AtWork
  <2> QED BY <1>5, <1>8, <2>1, <2>2 DEF TextLoad, Rostering
<1>9. CASE TextRead(c, t)
  <2> DEFINE r == [task[c][t] EXCEPT !.step = "append", !.seen = log[c]]
  <2>1. task[c][t].op = "text" /\ task[c][t] \in Activation
    BY <1>9 DEF TextRead, TypeInv, TypeOK
  <2>2. Becomes(c, t, r) /\ r.op = "text"
    BY <1>9, <2>1 DEF TextRead, Becomes, Activation, TypeInv, TypeOK
  <2> HIDE DEF r
  <2> QED BY <1>5, <1>9, <2>1, <2>2 DEF TextRead, Rostering
<1>10. CASE TextWrite(c, t)
  BY <1>5, <1>10, IdleType DEF TextWrite, Finish, Becomes, Rostering
<1> QED
  BY <1>1, <1>2, <1>3, <1>4, <1>7, <1>8, <1>9, <1>10 DEF UserStarts, UserGoesOn

-----------------------------------------------------------------------------
LEMMA AdminInit ==
  ASSUME Init, NEW a \in Account, NEW W \in SUBSET Account
  PROVE  Administered(W, a)
<1>1. \A b \in Account : Batches(b) = {} /\ queue[b] = <<>> /\ roster[b] = {}
  BY IdleType DEF Init, Batches, Polling
<1>2. founders = {} /\ removed = {}
  BY DEF Init
<1>3. Source(a)
  BY <1>1, <1>2, EmptyRoad DEF Source
<1>4. Calls(a)
  BY IdleType DEF Init, Calls, Rostering
<1>5. ASSUME NEW b \in Account PROVE Road(a, b)
  BY <1>1, <1>2, EmptyRoad DEF Road, InviteFirst
<1> QED BY <1>3, <1>4, <1>5 DEF Administered

(* What has happened stays so *)
LEMMA SteadyBefore ==
  ASSUME TypeInv, [Next]_vars, NEW a, Steady(a)'
  PROVE  Steady(a)
<1> USE DEF counters, races, stores
<1>1. ASSUME NEW c \in Account, NEW t \in UserTask, UserStarts(c, t) \/ UserGoesOn(c, t)
      PROVE  failures' = failures /\ crossed \subseteq crossed' /\ authors \subseteq authors'
  BY <1>1 DEF UserStarts, UserGoesOn, CreateGroup, RemoveLoad, Removes, TextLoad, RemoveSave, Send,
     FanOutEnds, TextRead, TextWrite
<1>2. ASSUME NEW c \in Account, NEW t \in PollTask, PollFetch(c, t) \/ PollGoesOn(c, t)
      PROVE  UNCHANGED <<failures, crossed, authors>>
  BY <1>2 DEF PollGoesOn, PollFetch, Fetches, HandleInvite, HandleCheck, HandleUpdate, HandleRead,
     HandleWrite
<1>3. ASSUME NEW c \in Account, NEW t \in Task, Fail(c, t) PROVE FALSE
  <2>1. failures \in Nat /\ failures' = failures + 1 /\ failures' = 0
    BY <1>3 DEF Fail, Steady, TypeInv, TypeOK
  <2> QED BY <2>1
<1>4. UNCHANGED vars => UNCHANGED <<failures, crossed, authors>>
  BY DEF vars
<1> QED BY <1>1, <1>2, <1>3, <1>4 DEF Next, Steady

LEMMA AdminNext ==
  ASSUME TypeInv, OwnInv, SenderInv, AdminInv, [Next]_vars
  PROVE  AdminInv'
<1> SUFFICES ASSUME NEW a \in Account, Steady(a)'
             PROVE  \E W : W = Account \ overlapped' /\ Administered(W, a)'
  BY DEF AdminInv, Steady
<1>1. PICK V : V = Account \ overlapped /\ Administered(V, a)
  BY SteadyBefore DEF AdminInv
<1>2. PICK W : W = Account \ overlapped'
  OBVIOUS
<1>3. /\ W \in SUBSET Account /\ W \cap overlapped = {} /\ W \cap overlapped' = {}
      /\ Administered(W, a)
  BY <1>1, <1>2, OverlapsStay DEF Administered
<1>4. ASSUME NEW c \in Account, NEW t \in Task PROVE ~Fail(c, t)
  <2>1. failures \in Nat /\ failures' = 0
    BY DEF Steady, TypeInv, TypeOK
  <2> QED BY <2>1 DEF Fail
<1>5. CASE Next
  <2>1. Administered(W, a)'
    BY <1>3, <1>4, <1>5, UserAdministered, PollAdministered DEF Next
  <2> QED BY <1>2, <2>1
<1>6. CASE UNCHANGED vars
  <2>1. UNCHANGED <<roster, queue, task, founders, removed>>
    BY <1>6 DEF vars, stores, counters
  <2>2. \A b \in Account : Batches(b)' = Batches(b)
    BY <2>1 DEF Batches, Polling
  <2>3. Calls(a)'
    BY <1>3, <2>1 DEF Administered, Calls, Rostering
  <2>4. ASSUME NEW b \in W PROVE Road(a, b)'
    <3>1. (Inviting(a, b) => Inviting(a, b)') /\ (OnTheWay(a, b) => OnTheWay(a, b)')
      BY <2>1 DEF Inviting, OnTheWay, Rostering
    <3> QED BY <1>3, <2>1, <2>2, <3>1, RoadStays DEF Administered
  <2>5. Source(a)'
    BY <1>3, <2>1, <2>2 DEF Administered, Source
  <2>6. Administered(W, a)'
    BY <2>3, <2>4, <2>5 DEF Administered
  <2> QED BY <1>2, <2>6
<1> QED BY <1>5, <1>6

LEMMA AdminInvariant == Spec => []AdminInv
<1>1. Init => AdminInv
  BY AdminInit DEF AdminInv
<1>2. TypeInv /\ OwnInv /\ OrderInv /\ AdminInv /\ [Next]_vars => AdminInv'
  BY AdminNext DEF OrderInv, TextInv
<1> QED BY <1>1, <1>2, TypeInvariant, OwnInvariant, OrderInvariant, PTL DEF Spec

(* Once nothing is on its way, every member who was not removed and polled    *)
(* one poll at a time has the administrator's roster: the founders without    *)
(* those removed.                                                             *)
LEMMA AllTheSame ==
  ASSUME TypeInv, AdminInv, Quiet, Decided, NEW b \in Remaining
  PROVE  roster[b] = founders \ removed
<1>1. PICK a \in Account : Steady(a)
  BY DEF Decided, Steady
<1>2. b \in Account \ overlapped
  BY DEF Remaining, TypeInv, TypeOK
<1>3. Source(a) /\ Road(a, b)
  BY <1>1, <1>2 DEF AdminInv, Administered
<1>4. Batches(b) = {} /\ queue[b] = <<>> /\ ~OnTheWay(a, b)
  BY <1>2, IdleType DEF Quiet, Batches, Polling, OnTheWay, Rostering
<1>5. ~Ends(<<>>, roster[a])
  BY EmptyRoad
<1>6. b # a => roster[b] = roster[a]
  BY <1>3, <1>4, <1>5 DEF Road, Newest, Remaining
<1> QED BY <1>3, <1>6 DEF Source

(* As long as one member decided on the roster, one decision after the other,   *)
(* and nothing failed: once nothing is on its way, the remaining members have   *)
(* stored the same roster, although fan-outs, queues and polls of the members   *)
(* interleave (removeMember, handleGroupSignal).                                *)
THEOREM RostersConverge == Spec => []Converged
<1>1. TypeInv /\ AdminInv => Converged
  BY AllTheSame DEF Converged
<1> QED BY <1>1, TypeInvariant, AdminInvariant, PTL

(* ... and no remaining member sends to whom that member removed, who is in no  *)
(* fan-out list of theirs (removeMember, otherMembers).                         *)
THEOREM RemovalsReachAll == Spec => []RemovedStops
<1>1. TypeInv /\ AdminInv => RemovedStops
  BY AllTheSame DEF RemovedStops, Lists
<1> QED BY <1>1, TypeInvariant, AdminInvariant, PTL

=============================================================================
