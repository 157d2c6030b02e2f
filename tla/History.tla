------------------------------ MODULE History -------------------------------
(***************************************************************************)
(* Two users who have their conversation with one another open             *)
(* (web/src/chat/conversation.ts): the history each browser keeps, and the *)
(* handlers and polls that load it, wait, and save it.                     *)
(*                                                                         *)
(* The server queues what is sent to a user until a poll fetches it, see   *)
(* module Mailbox.  A step runs from one await to the next.                *)
(***************************************************************************)
EXTENDS Naturals, Sequences

CONSTANTS
  User,      \* two users
  Id,        \* message ids
  Kinds,     \* what is sent: a text, or a file by its self-destruct mode
  Handler,   \* activations of the user's handlers, a bound
  Poller,    \* polls in progress, a bound
  MaxQueue,  \* bound on the envelopes that wait at the server
  MaxActs,   \* bound on what the users do
  MaxFailed, \* bound on the activations that do not get to their end
  None

ASSUME HistoryAssumption ==
  /\ \A u \in User : User \ {u} # {}
  /\ Kinds \subseteq {"text", "file", "timed", "once"}
  /\ Handler \cap Poller = {}
  /\ None \notin [by : User, kind : Kinds]   \* None is not a message
  /\ MaxQueue \in Nat /\ MaxActs \in Nat /\ MaxFailed \in Nat

VARIABLES
  \* kept by the browsers, and by the server
  history,    \* IndexedDB: what loadMessages returns
  timer,      \* whether messages disappear: getTimerSeconds > 0
  queue,      \* the envelopes that wait for a user
  \* the pages
  shown,      \* the messages on the screen
  act,        \* activations
  \* what happened
  acts,       \* how often a user did something
  message,    \* who sent what under which id
  due,        \* the messages whose expiresAt has passed, by user
  destroyed,  \* the files that were deleted for having been opened
  clobbered,  \* a history was saved over one that it does not come from
  overlapped, \* two activations of a page were in progress at once
  crossed,    \* both users set the timer at once
  failed      \* how often activations did not get to their end

disk == <<history, timer>>
past == <<acts, message, due, destroyed, clobbered, overlapped, crossed, failed>>
vars == <<disk, queue, shown, act, past>>

Slot == Handler \cup Poller

(* A message in a history.  The message itself is the one of its id. *)
ChatMessage ==
  [status : {"sent", "delivered", "read", "opened"},
   timed : BOOLEAN,     \* has a timerSeconds
   expires : BOOLEAN]   \* has an expiresAt

Absent == [status |-> "none", timed |-> FALSE, expires |-> FALSE]
Copy == [Id -> ChatMessage \cup {Absent}]
Empty == [m \in Id |-> Absent]
Ids(copy) == {m \in Id : copy[m] # Absent}

Envelope ==
  [type : {"message", "delivered", "read", "file-opened"}, id : Id]
    \cup [type : {"timer"}, on : BOOLEAN]

Idle ==
  [op |-> "none", step |-> "none", what |-> None, batch |-> <<>>, some |-> FALSE,
   copy |-> Empty, stale |-> FALSE]

Activation ==
  [op : {"send", "open", "timer", "poll"},
   step : {"post", "load", "save", "set", "fetch", "handle", "delivered", "read"},
   what : Envelope \cup {None},   \* what a handler sends
   batch : Seq(Envelope),         \* what a poll has yet to handle
   some : BOOLEAN,                \* the poll received something
   copy : Copy,                   \* the history it loaded and changes
   stale : BOOLEAN]               \* the history was saved since it was loaded

Init ==
  /\ history = [u \in User |-> Empty] /\ timer = [u \in User |-> FALSE]
  /\ queue = [u \in User |-> <<>>] /\ shown = [u \in User |-> {}]
  /\ act = [u \in User |-> [s \in Slot |-> Idle]]
  /\ message = [m \in Id |-> None] /\ due = [u \in User |-> {}]
  /\ destroyed = [u \in User |-> {}]
  /\ clobbered = [u \in User |-> FALSE] /\ overlapped = [u \in User |-> FALSE]
  /\ crossed = FALSE /\ acts = 0 /\ failed = 0

-----------------------------------------------------------------------------
Peer(u) == CHOOSE v \in User \ {u} : TRUE

(* sendToContact: what it does on the way is in module Session *)
Post(u, e) ==
  /\ Len(queue[Peer(u)]) < MaxQueue
  /\ queue' = [queue EXCEPT ![Peer(u)] = Append(@, e)]

Busy(u) == \E s \in Slot : act[u][s] # Idle

Begin(u, s, op, step, what) ==
  /\ act[u][s] = Idle
  /\ act' = [act EXCEPT ![u][s] = [Idle EXCEPT !.op = op, !.step = step, !.what = what]]
  /\ overlapped' = [overlapped EXCEPT ![u] = @ \/ Busy(u)]

Goto(u, s, step) == act' = [act EXCEPT ![u][s].step = step]

(* It goes on with a history of its own *)
Holds(u, s, step, copy) ==
  act' = [act EXCEPT ![u][s] = [@ EXCEPT !.step = step, !.copy = copy]]

(* The activation ends and its messages show *)
Return(u, s, copy) ==
  /\ act' = [act EXCEPT ![u][s] = Idle]
  /\ shown' = [shown EXCEPT ![u] = Ids(copy)]

Holding(u, s) == act[u][s].step \in {"save", "handle", "delivered", "read"}

(* saveMessages replaces the whole history *)
Save(u, s) ==
  /\ act[u][s].step = "save"
  /\ history' = [history EXCEPT ![u] = act[u][s].copy]
  /\ shown' = [shown EXCEPT ![u] = Ids(act[u][s].copy)]
  /\ act' = [act EXCEPT ![u] = [r \in Slot |->
       IF r = s THEN Idle ELSE [act[u][r] EXCEPT !.stale = @ \/ Holding(u, r)]]]
  /\ clobbered' = [clobbered EXCEPT ![u] = @ \/ act[u][s].stale]
  /\ destroyed' = [destroyed EXCEPT ![u] =
       @ \cup IF act[u][s].op = "open" THEN {act[u][s].what.id} ELSE {}]
  /\ UNCHANGED <<timer, queue, acts, message, due, overlapped, crossed, failed>>

-----------------------------------------------------------------------------
(* The user's handlers.  The form is disabled while a message is on its way. *)

Did == acts < MaxActs /\ acts' = acts + 1
Sending(u) == \E s \in Slot : act[u][s].op = "send"

(* handleSend and handleSendFile *)
Send(u, s) ==
  /\ ~Sending(u) /\ Did
  /\ \E m \in Id, kind \in Kinds :
       /\ message[m] = None
       /\ message' = [message EXCEPT ![m] = [by |-> u, kind |-> kind]]
       /\ Begin(u, s, "send", "post", [type |-> "message", id |-> m])
  /\ UNCHANGED <<disk, queue, shown, due, destroyed, clobbered, crossed, failed>>

Received(u) == {m \in Id : message[m] # None /\ message[m].by # u}
File(m) == message[m].kind # "text"

(* handleOpenFile *)
OpenFile(u, s) ==
  /\ Did
  /\ \E m \in shown[u] \cap Received(u) :
       File(m) /\ Begin(u, s, "open", "post", [type |-> "file-opened", id |-> m])
  /\ UNCHANGED <<disk, queue, shown, message, due, destroyed, clobbered, crossed, failed>>

SetTimer(u, s) ==
  /\ ~Sending(u) /\ Did
  /\ \E on \in BOOLEAN : Begin(u, s, "timer", "post", [type |-> "timer", on |-> on])
  /\ UNCHANGED <<disk, queue, shown, message, due, destroyed, clobbered, crossed, failed>>

(* A timer of the peer's is on its way to u, or the peer is setting one *)
HasTimer(batch) == \E i \in DOMAIN batch : batch[i].type = "timer"
TimerUnderWay(u) ==
  \/ HasTimer(queue[u])
  \/ \E s \in Slot : HasTimer(act[u][s].batch) \/ act[Peer(u)][s].step = "set"

(* sendText, sendFile, markFileOpened and setDisappearingTimer send first *)
Posted(u, s) ==
  /\ act[u][s].step = "post"
  /\ Post(u, act[u][s].what)
  /\ Goto(u, s, IF act[u][s].op = "timer" THEN "set" ELSE "load")
  /\ crossed' = (crossed \/ (act[u][s].op = "timer" /\ TimerUnderWay(u)))
  /\ UNCHANGED <<disk, shown, acts, message, due, destroyed, clobbered, overlapped, failed>>

(* Mutant: only the peer's timer is set *)
TimerSetAway(u, s) ==
  /\ act[u][s].step = "set"
  /\ act' = [act EXCEPT ![u][s] = Idle]
  /\ UNCHANGED <<disk, queue, shown, past>>

TimerSet(u, s) ==
  /\ act[u][s].step = "set"
  /\ timer' = [timer EXCEPT ![u] = act[u][s].what.on]
  /\ act' = [act EXCEPT ![u][s] = Idle]
  /\ UNCHANGED <<history, queue, shown, past>>

(* What sendText and sendFile append to the history *)
Sent(u, m) ==
  [status |-> "sent", timed |-> message[m].kind = "text" /\ timer[u],
   expires |-> message[m].kind = "timed"]

Appended(u, s) ==
  /\ act[u][s].op = "send" /\ act[u][s].step = "load"
  /\ LET m == act[u][s].what.id
     IN Holds(u, s, "save", [history[u] EXCEPT ![m] = Sent(u, m)])
  /\ UNCHANGED <<disk, queue, shown, past>>

(* markFileOpened deletes a file that may be opened once *)
Opened(u, s) ==
  LET m == act[u][s].what.id
      once == history[u][m] # Absent /\ message[m].kind = "once"
  IN /\ act[u][s].op = "open" /\ act[u][s].step = "load"
     /\ \/ ~once /\ Return(u, s, history[u])
        \/ once /\ Holds(u, s, "save", [history[u] EXCEPT ![m] = Absent]) /\ UNCHANGED shown
     /\ UNCHANGED <<disk, queue, past>>

-----------------------------------------------------------------------------
(* poll *)

Poll(u, s) ==
  /\ Begin(u, s, "poll", "fetch", None)
  /\ UNCHANGED <<disk, queue, shown, acts, message, due, destroyed, clobbered, crossed, failed>>

(* Mutant: the server keeps what it hands out *)
FetchPeeks(u, s) ==
  /\ act[u][s].step = "fetch"
  /\ act' = [act EXCEPT ![u][s] =
       [@ EXCEPT !.step = "load", !.batch = queue[u], !.some = queue[u] # <<>>]]
  /\ UNCHANGED <<disk, queue, shown, past>>

(* The server deletes what it hands out *)
Fetch(u, s) ==
  /\ act[u][s].step = "fetch"
  /\ queue' = [queue EXCEPT ![u] = <<>>]
  /\ act' = [act EXCEPT ![u][s] =
       [@ EXCEPT !.step = "load", !.batch = queue[u], !.some = queue[u] # <<>>]]
  /\ UNCHANGED <<disk, shown, past>>

(* Mutant: the status of what was sent is not loaded *)
PollLoadedAsSent(u, s) ==
  /\ act[u][s].op = "poll" /\ act[u][s].step = "load"
  /\ Holds(u, s, "handle",
       [m \in Id |-> IF m \in Ids(history[u]) /\ message[m].by = u
                     THEN [history[u][m] EXCEPT !.status = "sent"] ELSE history[u][m]])
  /\ UNCHANGED <<disk, queue, shown, past>>

PollLoaded(u, s) ==
  /\ act[u][s].op = "poll" /\ act[u][s].step = "load"
  /\ Holds(u, s, "handle", history[u])
  /\ UNCHANGED <<disk, queue, shown, past>>

(* Mutant: a text is receipted and not kept *)
ArrivedAsFile(u, m) ==
  IF File(m) THEN [status |-> "delivered", timed |-> FALSE, expires |-> message[m].kind = "timed"]
  ELSE Absent

(* What a received message is in the history *)
Arrived(u, m) ==
  [status |-> "delivered", timed |-> FALSE,
   expires |-> message[m].kind = "timed" \/ (message[m].kind = "text" /\ timer[u])]

(* Mutant: the type of the envelope is the status *)
MarkedAsTyped(old, type) ==
  [old EXCEPT !.status = type, !.expires = @ \/ (type = "read" /\ old.timed)]

(* What a receipt makes of a message that was sent *)
Marked(old, type) ==
  IF type = "file-opened" THEN [old EXCEPT !.status = "opened"]
  ELSE [old EXCEPT !.status = type, !.expires = @ \/ (type = "read" /\ old.timed)]

(* The first envelope of the batch is handled.  A text is receipted before  *)
(* the poll goes on with the next.                                          *)
Handle(u, s) ==
  LET a == act[u][s]
      e == Head(a.batch)
      Took(step, copy) ==
        act' = [act EXCEPT ![u][s] =
          [a EXCEPT !.step = step, !.copy = copy,
                    !.batch = IF step = "handle" THEN Tail(@) ELSE @]]
  IN /\ a.step = "handle" /\ a.batch # <<>>
     /\ \/ /\ e.type = "timer"
           /\ timer' = [timer EXCEPT ![u] = e.on]
           /\ Took("handle", a.copy)
        \/ /\ e.type = "message"
           /\ Took(IF File(e.id) THEN "handle" ELSE "delivered",
                   [a.copy EXCEPT ![e.id] = Arrived(u, e.id)])
           /\ UNCHANGED timer
        \/ /\ e.type \notin {"timer", "message"}
           /\ Took("handle",
                IF a.copy[e.id] = Absent \/ message[e.id].by # u THEN a.copy
                ELSE [a.copy EXCEPT ![e.id] = Marked(@, e.type)])
           /\ UNCHANGED timer
     /\ UNCHANGED <<history, queue, shown, past>>

Receipt(u, s) ==
  LET a == act[u][s]
  IN /\ \/ a.step = "delivered" /\ Goto(u, s, "read")
        \/ a.step = "read" /\ act' = [act EXCEPT ![u][s] =
             [a EXCEPT !.step = "handle", !.batch = Tail(@)]]
     /\ Post(u, [type |-> a.step, id |-> Head(a.batch).id])
     /\ UNCHANGED <<disk, shown, past>>

(* Mutant: what has an expiry date is left out *)
AliveForever(u, copy) == [m \in Id |-> IF copy[m].expires THEN Absent ELSE copy[m]]

(* What has expired is left out; the history is saved if it may have changed *)
Alive(u, copy) ==
  [m \in Id |-> IF copy[m].expires /\ m \in due[u] THEN Absent ELSE copy[m]]

(* Mutant: not saved without an envelope *)
SweepIfSome(u, s) ==
  LET a == act[u][s]
      alive == Alive(u, a.copy)
  IN /\ a.step = "handle" /\ a.batch = <<>>
     /\ \/ a.some /\ Holds(u, s, "save", alive) /\ UNCHANGED shown
        \/ ~a.some /\ Return(u, s, alive)
     /\ UNCHANGED <<disk, queue, past>>

Sweep(u, s) ==
  LET a == act[u][s]
      alive == Alive(u, a.copy)
  IN /\ a.step = "handle" /\ a.batch = <<>>
     /\ \/ (a.some \/ alive # a.copy) /\ Holds(u, s, "save", alive) /\ UNCHANGED shown
        \/ ~a.some /\ alive = a.copy /\ Return(u, s, alive)
     /\ UNCHANGED <<disk, queue, past>>

-----------------------------------------------------------------------------
(* Time passes: an expiresAt that some history has is reached *)
Expire(u) ==
  /\ \E m \in Id \ due[u] :
       /\ \/ history[u][m].expires
          \/ \E s \in Slot : act[u][s].copy[m].expires
       /\ due' = [due EXCEPT ![u] = @ \cup {m}]
  /\ UNCHANGED <<disk, queue, shown, act, acts, message, destroyed, clobbered, overlapped, crossed, failed>>

Failed == failed < MaxFailed /\ failed' = failed + 1

(* A request, a read or a write fails, or an envelope does not decrypt *)
Fail(u, s) ==
  /\ act[u][s] # Idle
  /\ act' = [act EXCEPT ![u][s] = Idle]
  /\ Failed
  /\ UNCHANGED <<disk, queue, shown, acts, message, due, destroyed, clobbered, overlapped, crossed>>

(* The page is closed, and opened again on the conversation *)
Reopen(u) ==
  /\ act' = [act EXCEPT ![u] = [s \in Slot |-> Idle]]
  /\ shown' = [shown EXCEPT ![u] = Ids(history[u])]
  /\ IF Busy(u) THEN Failed ELSE UNCHANGED failed
  /\ UNCHANGED <<disk, queue, acts, message, due, destroyed, clobbered, overlapped, crossed>>

Act(u, s) == Send(u, s) \/ OpenFile(u, s) \/ SetTimer(u, s)

GoesOn(u, s) ==
  \/ Posted(u, s) \/ TimerSet(u, s) \/ Appended(u, s) \/ Opened(u, s) \/ Save(u, s)
  \/ Fetch(u, s) \/ PollLoaded(u, s) \/ Handle(u, s) \/ Receipt(u, s) \/ Sweep(u, s)

Next ==
  \E u \in User :
    \/ \E s \in Handler : Act(u, s)
    \/ \E s \in Poller : Poll(u, s)
    \/ \E s \in Slot : GoesOn(u, s) \/ Fail(u, s)
    \/ Expire(u) \/ Reopen(u)

Spec == Init /\ [][Next]_vars

-----------------------------------------------------------------------------
(* Properties *)

(* TypeOK: every variable holds values of its type. *)
TypeOK ==
  /\ history \in [User -> Copy] /\ timer \in [User -> BOOLEAN]
  /\ queue \in [User -> Seq(Envelope)] /\ shown \in [User -> SUBSET Id]
  /\ act \in [User -> [Slot -> Activation \cup {Idle}]]
  /\ message \in [Id -> [by : User, kind : Kinds] \cup {None}]
  /\ due \in [User -> SUBSET Id] /\ destroyed \in [User -> SUBSET Id]
  /\ clobbered \in [User -> BOOLEAN] /\ overlapped \in [User -> BOOLEAN]
  /\ crossed \in BOOLEAN /\ acts \in 0..MaxActs /\ failed \in 0..MaxFailed

(* Kept: a message leaves a history only when it has expired or was opened    *)
(* once, or when a history is saved over one that was saved after it was      *)
(* loaded; and no history loses it by being loaded, changed and saved.        *)
Kept ==
  [][\A u \in User : \A m \in Ids(history[u]) \ Ids(history'[u]) :
       m \in due[u] \cup destroyed'[u] \/ clobbered'[u]]_vars

(* HistoryPersists: "alice's message history persists", with no exception but *)
(* the ones the documents name.                                               *)
HistoryPersists ==
  [][\A u \in User : \A m \in Ids(history[u]) \ Ids(history'[u]) :
       m \in due[u] \cup destroyed'[u]]_vars

(* OpenedOnce: a file that was deleted for having been opened does not come   *)
(* back, unless a history was saved over a newer one.                         *)
OpenedOnce ==
  \A u \in User : ~clobbered[u] => destroyed[u] \cap Ids(history[u]) = {}

(* OpenedGone: "Opening an on-open file removes it from the receiver's storage *)
(* immediately", with no exception.                                           *)
OpenedGone == \A u \in User : destroyed[u] \cap Ids(history[u]) = {}

(* Onward: a status goes from sent to delivered to read and an expiry date is *)
(* never taken back, unless activations of the page overlapped.               *)
Rank(status) == IF status = "sent" THEN 0 ELSE IF status = "delivered" THEN 1 ELSE 2
Onward ==
  [][\A u \in User : \A m \in Ids(history[u]) \cap Ids(history'[u]) :
       \/ overlapped[u]
       \/ /\ Rank(history'[u][m].status) >= Rank(history[u][m].status)
          /\ history[u][m].expires => history'[u][m].expires]_vars

(* Swept: a poll that ends without saving leaves no expired message behind,   *)
(* unless the history was saved after it loaded it ("the next poll removes    *)
(* it from IndexedDB").                                                       *)
Swept ==
  [][\A u \in User, s \in Slot :
       (act[u][s].step = "handle" /\ act'[u][s] = Idle /\ failed' = failed /\ ~act[u][s].stale)
         => \A m \in due[u] : ~history'[u][m].expires]_vars

(* Told: a text that its sender sees as read is in the recipient's history,   *)
(* or in a poll of the recipient's that is about to save it, unless an        *)
(* activation failed or a history was saved over a newer one.                 *)
Told ==
  \A u \in User : \A m \in Ids(history[u]) :
    history[u][m].status = "read" =>
      \/ m \in Ids(history[Peer(u)]) \/ m \in due[Peer(u)]
      \/ \E s \in Poller : m \in Ids(act[Peer(u)][s].copy)
      \/ failed > 0 \/ clobbered[Peer(u)]

(* Settled: once nothing is under way, nothing failed and no activations of a *)
(* page overlapped, the two sides agree: what one sent the other has, its     *)
(* texts are read, a file that was deleted on opening is marked as opened,    *)
(* and both have the same timer, unless they set it at the same time.         *)
Quiet == \A u \in User : queue[u] = <<>> /\ ~Busy(u)
Gone(u, m) == m \in due[u] \cup destroyed[u]
Agree(u) ==
  \A m \in Id : (message[m] # None /\ message[m].by = u) =>
    /\ m \in Ids(history[u]) \/ Gone(u, m)
    /\ m \in Ids(history[Peer(u)]) \/ Gone(Peer(u), m)
    /\ m \in Ids(history[u]) =>
         /\ message[m].kind = "text" => history[u][m].status = "read"
         /\ m \in destroyed[Peer(u)] => history[u][m].status = "opened"
Settled ==
  (Quiet /\ failed = 0 /\ \A u \in User : ~overlapped[u]) =>
    /\ \A u \in User : Agree(u)
    /\ crossed \/ \A u \in User : timer[u] = timer[Peer(u)]

(* TimersSynced: "a per-conversation disappearing-message timer, synced       *)
(* between both participants": once nothing is under way and nothing failed   *)
(* or overlapped, they have the same, whenever they set it.                   *)
TimersSynced ==
  (Quiet /\ failed = 0 /\ \A u \in User : ~overlapped[u]) =>
    \A u \in User : timer[u] = timer[Peer(u)]

=============================================================================
