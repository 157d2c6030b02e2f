------------------------------- MODULE Groups -------------------------------
(***************************************************************************)
(* One group of the web client (web/src/chat/group.ts): each member's copy *)
(* of the roster and of the history, and the envelopes fanned out between  *)
(* them.  The server's part is what module Server shows of it: a queue per *)
(* recipient that a poll empties at once, in the order of the sends.       *)
(*                                                                         *)
(* A task is one activation of an async function.  Tasks of one client are *)
(* interleaved at their awaits: an IndexedDB read, an IndexedDB write and  *)
(* a send to one contact are one step each.                                *)
(***************************************************************************)
EXTENDS Naturals, FiniteSets, Sequences

CONSTANTS
  Account,      \* accounts, each with one device
  UserTask,     \* calls started by a user that one client can have in progress
  PollTask,     \* polls that one client can have in progress
  Creator,      \* accounts whose users create the group: a bound on the instance
  Remover,      \* accounts whose users remove members: a bound on the instance
  MaxTexts,     \* bound on the texts sent
  MaxRemovals,  \* bound on the calls of removeMember
  MaxFailures   \* bound on the tasks that fail

ASSUME GroupsAssumption ==
  /\ UserTask \cap PollTask = {}
  /\ Creator \subseteq Account /\ Remover \subseteq Account
  /\ MaxTexts \in Nat /\ MaxRemovals \in Nat /\ MaxFailures \in Nat

VARIABLES
  roster,    \* groupStore: memberAccountIds of each account's copy, {} without one
  log,       \* messageStore: each account's history of the group
  queue,     \* the server's queue of each account
  task,      \* what each task of each account is doing
  \* history
  founders,  \* the roster the group was created with
  removed,   \* the members that some removeMember took out
  texts,     \* how many texts were sent
  removals,  \* how often removeMember was called
  failures,  \* how many tasks failed
  authors,   \* the accounts that called createGroup or removeMember
  crossed,   \* the accounts that called removeMember while such a call of theirs ran
  overlapped \* the accounts that polled while a poll of theirs ran

stores == <<roster, log>>
races == <<authors, crossed, overlapped>>
counters == <<founders, removed, texts, removals, failures, races>>
vars == <<stores, queue, task, counters>>

Task == UserTask \cup PollTask
Envelope ==
  [kind : {"invite", "update", "text"}, from : Account, roster : SUBSET Account, id : Nat]

Entry == [from : Account, id : Nat]

Activation ==
  [op    : {"none", "create", "remove", "text", "poll"},
   step  : {"idle", "save", "send", "append", "handle", "overwrite", "read"},
   batch : Seq(Envelope),    \* the envelope to fan out, or those still to handle
   to    : SUBSET Account,   \* the members the envelope still has to be sent to
   seen  : Seq(Entry)]       \* the history as loaded

Idle == [op |-> "none", step |-> "idle", batch |-> <<>>, to |-> {}, seen |-> <<>>]

Init ==
  /\ roster = [a \in Account |-> {}]
  /\ log = [a \in Account |-> <<>>]
  /\ queue = [a \in Account |-> <<>>]
  /\ task = [a \in Account |-> [t \in Task |-> Idle]]
  /\ founders = {}
  /\ removed = {}
  /\ texts = 0
  /\ removals = 0
  /\ failures = 0
  /\ authors = {}
  /\ crossed = {}
  /\ overlapped = {}

-----------------------------------------------------------------------------
(* Tasks *)

Start(a, t, r) == task[a][t] = Idle /\ task' = [task EXCEPT ![a][t] = r]
Goto(a, t, s) == task' = [task EXCEPT ![a][t].step = s]
Finish(a, t) == task' = [task EXCEPT ![a][t] = Idle]

(* A call that will send envelope e to the members in to *)
FanOut(o, s, e, to) == [op |-> o, step |-> s, batch |-> <<e>>, to |-> to, seen |-> <<>>]

(* sendToContact for one of the members; the session's state is module Session's *)
Send(a, t) ==
  LET r == task[a][t]
  IN /\ r.step = "send"
     /\ \E m \in r.to :
          /\ queue' = [queue EXCEPT ![m] = Append(@, r.batch[1])]
          /\ task' = [task EXCEPT ![a][t].to = @ \ {m}]
     /\ UNCHANGED <<stores, counters>>

(* createGroup and removeMember have nothing to do after the loop *)
FanOutEnds(a, t) ==
  /\ task[a][t].step = "send" /\ task[a][t].to = {} /\ task[a][t].op # "text"
  /\ Finish(a, t)
  /\ UNCHANGED <<stores, queue, counters>>

(* A request fails, an envelope does not decrypt or the page is closed: the *)
(* rest of a fan-out is not sent, the rest of a fetched batch is lost.      *)
Fail(a, t) ==
  /\ task[a][t] # Idle
  /\ failures < MaxFailures
  /\ failures' = failures + 1
  /\ Finish(a, t)
  /\ UNCHANGED <<stores, queue, founders, removed, texts, removals, races>>

-----------------------------------------------------------------------------
(* createGroup *)

Invite(a, all) == [kind |-> "invite", from |-> a, roster |-> all, id |-> 0]

CreateGroup(a, t) ==
  /\ a \in Creator
  /\ founders = {}
  /\ \E others \in (SUBSET (Account \ {a})) \ {{}} :
       /\ Start(a, t, FanOut("create", "send", Invite(a, {a} \cup others), others))
       /\ roster' = [roster EXCEPT ![a] = {a} \cup others]
       /\ founders' = {a} \cup others
  /\ authors' = authors \cup {a}
  /\ UNCHANGED <<log, queue, removed, texts, removals, failures, crossed, overlapped>>

(* removeMember *)

Update(a, all) == [kind |-> "update", from |-> a, roster |-> all, id |-> 0]

(* The account is sending a roster to the members *)
FansOut(a) == \E t \in UserTask : task[a][t].op \in {"create", "remove"}

(* removeMember up to its first save *)
Removes(a, t, updated, to) ==
  /\ a \in Remover /\ roster[a] # {}
  /\ removals < MaxRemovals
  /\ removals' = removals + 1
  /\ authors' = authors \cup {a}
  /\ crossed' = IF FansOut(a) THEN crossed \cup {a} ELSE crossed
  /\ Start(a, t, FanOut("remove", "save", Update(a, updated), to))
  /\ UNCHANGED <<stores, queue, founders, removed, texts, failures, overlapped>>

(* Mutant: the update also goes to the member it removes *)
RemoveToAll(a, t) ==
  \E m \in founders \ {a} : Removes(a, t, roster[a] \ {m}, roster[a] \ {a})

(* The screen lists the members as of its last refresh, never oneself *)
RemoveLoad(a, t) ==
  \E m \in founders \ {a} : Removes(a, t, roster[a] \ {m}, roster[a] \ {m, a})

RemoveSave(a, t) ==
  LET updated == task[a][t].batch[1].roster
  IN /\ task[a][t].step = "save"
     /\ removed' = removed \cup (roster[a] \ updated)
     /\ roster' = [roster EXCEPT ![a] = updated]
     /\ Goto(a, t, "send")
     /\ UNCHANGED <<log, queue, founders, texts, removals, failures, races>>

(* sendGroupText *)

Text(a) == [kind |-> "text", from |-> a, roster |-> {}, id |-> texts + 1]

(* Mutant: the composer stays enabled while a text is being sent *)
NeverSending(a) == FALSE

(* The composer is disabled while a text is being sent *)
Sending(a) == \E t \in Task : task[a][t].op = "text"

TextLoad(a, t) ==
  /\ roster[a] # {}
  /\ ~Sending(a)
  /\ texts < MaxTexts
  /\ texts' = texts + 1
  /\ Start(a, t, FanOut("text", "send", Text(a), roster[a] \ {a}))
  /\ UNCHANGED <<stores, queue, founders, removed, removals, failures, races>>

TextRead(a, t) ==
  LET r == task[a][t]
  IN /\ r.op = "text" /\ r.step = "send" /\ r.to = {}
     /\ task' = [task EXCEPT ![a][t].step = "append", ![a][t].seen = log[a]]
     /\ UNCHANGED <<stores, queue, counters>>

(* Mutant: an entry without its sender *)
LoggedBare(r) == Append(r.seen, [id |-> r.batch[1].id])

(* Appends the text to the history that was read, and puts that back *)
Logged(r) == Append(r.seen, [from |-> r.batch[1].from, id |-> r.batch[1].id])

TextWrite(a, t) ==
  LET r == task[a][t]
  IN /\ r.op = "text" /\ r.step = "append"
     /\ log' = [log EXCEPT ![a] = Logged(r)]
     /\ Finish(a, t)
     /\ UNCHANGED <<roster, queue, counters>>

-----------------------------------------------------------------------------
(* poll and handleGroupSignal *)

Poll(batch) == [Idle EXCEPT !.op = "poll", !.step = "handle", !.batch = batch]

(* poll up to its fetch; the interval does not wait for the poll before *)
Fetches(a, t) ==
  /\ queue[a] # <<>>
  /\ Start(a, t, Poll(queue[a]))
  /\ overlapped' = IF \E u \in PollTask : task[a][u] # Idle THEN overlapped \cup {a} ELSE overlapped
  /\ UNCHANGED <<stores, founders, removed, texts, removals, failures, authors, crossed>>

(* Mutant: the fetch leaves the queue as it is *)
PollPeeks(a, t) == Fetches(a, t) /\ UNCHANGED queue

PollFetch(a, t) == Fetches(a, t) /\ queue' = [queue EXCEPT ![a] = <<>>]

Handling(a, t, kind, step) ==
  task[a][t].op = "poll" /\ task[a][t].step = step /\ task[a][t].batch[1].kind = kind

(* Mutant: return where the code has continue *)
OnlyFirst(a, t) == Finish(a, t)

(* The loop goes on to the next envelope of the batch, or ends *)
NextEnvelope(a, t) ==
  LET rest == Tail(task[a][t].batch)
  IN task' = [task EXCEPT ![a][t] = IF rest = <<>> THEN Idle ELSE Poll(rest)]

HandleInvite(a, t) ==
  /\ Handling(a, t, "invite", "handle")
  /\ roster' = [roster EXCEPT ![a] = task[a][t].batch[1].roster]
  /\ NextEnvelope(a, t)
  /\ UNCHANGED <<log, queue, counters>>

(* The group is known and the sender is in the local roster *)
Accepts(a, e) == roster[a] # {} /\ e.from \in roster[a]

(* group-update and group-text: loadGroup and the membership check *)
HandleCheck(a, t) ==
  LET e == task[a][t].batch[1]
  IN /\ \E kind \in {"update", "text"} : Handling(a, t, kind, "handle")
     /\ \/ Accepts(a, e) /\ Goto(a, t, IF e.kind = "update" THEN "overwrite" ELSE "read")
        \/ ~Accepts(a, e) /\ NextEnvelope(a, t)
     /\ UNCHANGED <<stores, queue, counters>>

(* Mutant: the roster received is merged with the stored one *)
HandleMerges(a, t) ==
  /\ Handling(a, t, "update", "overwrite")
  /\ roster' = [roster EXCEPT ![a] = @ \cup task[a][t].batch[1].roster]
  /\ NextEnvelope(a, t)
  /\ UNCHANGED <<log, queue, counters>>

HandleUpdate(a, t) ==
  /\ Handling(a, t, "update", "overwrite")
  /\ roster' = [roster EXCEPT ![a] = task[a][t].batch[1].roster]
  /\ NextEnvelope(a, t)
  /\ UNCHANGED <<log, queue, counters>>

HandleRead(a, t) ==
  /\ Handling(a, t, "text", "read")
  /\ task' = [task EXCEPT ![a][t].step = "append", ![a][t].seen = log[a]]
  /\ UNCHANGED <<stores, queue, counters>>

HandleWrite(a, t) ==
  /\ Handling(a, t, "text", "append")
  /\ log' = [log EXCEPT ![a] = Logged(task[a][t])]
  /\ NextEnvelope(a, t)
  /\ UNCHANGED <<roster, queue, counters>>

-----------------------------------------------------------------------------
UserStarts(a, t) == CreateGroup(a, t) \/ RemoveLoad(a, t) \/ TextLoad(a, t)

UserGoesOn(a, t) ==
  RemoveSave(a, t) \/ Send(a, t) \/ FanOutEnds(a, t) \/ TextRead(a, t) \/ TextWrite(a, t)

PollGoesOn(a, t) ==
  \/ HandleInvite(a, t) \/ HandleCheck(a, t) \/ HandleUpdate(a, t)
  \/ HandleRead(a, t) \/ HandleWrite(a, t)

Next ==
  \E a \in Account :
    \/ \E t \in UserTask : UserStarts(a, t) \/ UserGoesOn(a, t)
    \/ \E t \in PollTask : PollFetch(a, t) \/ PollGoesOn(a, t)
    \/ \E t \in Task : Fail(a, t)

Spec == Init /\ [][Next]_vars

(***************************************************************************)
(* Fairness: the browser runs every promise that is ready, every request   *)
(* is answered or fails, and a client polls again every three seconds.     *)
(***************************************************************************)
Scheduling ==
  \A a \in Account :
    /\ \A t \in UserTask : WF_vars(UserGoesOn(a, t))
    /\ \A t \in PollTask : WF_vars(PollGoesOn(a, t))
    /\ WF_vars(\E t \in PollTask : PollFetch(a, t))

FairSpec == Spec /\ Scheduling

-----------------------------------------------------------------------------
(* Properties *)

(* TypeOK: every store, queue, task and counter holds values of its type. *)
TypeOK ==
  /\ roster \in [Account -> SUBSET Account]
  /\ log \in [Account -> Seq(Entry)]
  /\ queue \in [Account -> Seq(Envelope)]
  /\ task \in [Account -> [Task -> Activation]]
  /\ founders \subseteq Account
  /\ removed \subseteq Account
  /\ texts \in Nat /\ removals \in Nat /\ failures \in Nat
  /\ authors \subseteq Account /\ crossed \subseteq Account /\ overlapped \subseteq Account

(* OwnRoster: whatever races, a client's roster lists itself and no one the   *)
(* group was not created with: nobody is added, and nobody learns that it was *)
(* removed (removeMember: "the removed member is never sent this").           *)
OwnRoster ==
  \A a \in Account : roster[a] # {} => a \in roster[a] /\ roster[a] \subseteq founders

(* TextsOnce: no text is twice in a history, however fan-outs and polls overlap. *)
TextsOnce == \A a \in Account : \A i, j \in DOMAIN log[a] : log[a][i] = log[a][j] => i = j

(* TextsInOrder: a client whose polls never overlapped shows the texts of each *)
(* member in the order that member sent them.                                  *)
TextsInOrder ==
  \A a \in Account \ overlapped : \A i, j \in DOMAIN log[a] :
    i < j /\ log[a][i].from = log[a][j].from => log[a][i].id < log[a][j].id

(* No task runs and no envelope is under way *)
Quiet == \A a \in Account : queue[a] = <<>> /\ \A t \in Task : task[a][t] = Idle

(* One member decided on the roster so far, one decision after the other *)
Decided == failures = 0 /\ \E a \in Account \ crossed : authors \subseteq {a}

(* The members that nobody removed and that polled one poll at a time *)
Remaining == founders \ (removed \cup overlapped)

Lists(a, m) == m \in roster[a]

(* RemovedStops: once everything is delivered and nothing failed, no remaining *)
(* member's roster, which is its fan-out list, has a removed member: "the      *)
(* removed member stops receiving anything new" (group-messaging plan).  It    *)
(* holds of removals by the creator that did not overlap, and for members      *)
(* whose polls did not.                                                        *)
RemovedStops ==
  Quiet /\ Decided => \A m \in removed, a \in Remaining : ~Lists(a, m)

(* Converged: ... and the remaining members' rosters are all the same.         *)
Converged ==
  Quiet /\ Decided => \A a, b \in Remaining : roster[a] = roster[b]

(* EventuallyGone: a removed member leaves the roster of every remaining one   *)
(* for good, unless removals or polls overlap or fail: the guarantee is        *)
(* "eventually stops" (group-messaging review).                                *)
EventuallyGone ==
  \A m \in Account :
    <>[](Decided /\ m \in removed => \A a \in Remaining : ~Lists(a, m))

(* RemovalsHold: the same of any removals of which none failed, as the plan    *)
(* says it: "remaining members' fan-out lists no longer include them".         *)
RemovalsHold ==
  Quiet /\ failures = 0 => \A m \in removed, a \in founders \ removed : ~Lists(a, m)

(* NoReturn: an update is saved only if its author is in the roster it         *)
(* replaces; handleGroupSignal checks that against "a member who was already   *)
(* removed trying to add themselves back" (group.ts:79).                       *)
NoReturn ==
  [][\A a \in Account, t \in PollTask :
       HandleUpdate(a, t) => task[a][t].batch[1].from \in roster[a]]_vars

=============================================================================
