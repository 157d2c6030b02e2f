-------------------------------- MODULE Call --------------------------------
(***************************************************************************)
(* A 1:1 call between two web clients (web/src/chat/call.ts).  Each client *)
(* has one call state, one peer connection, one buffered offer and two     *)
(* timers; its user, its timers, the browser and its polls act on them,    *)
(* interleaved at every await.  Candidates (call-ice) are left out, but for*)
(* what they decide: whether and when a connection comes up, and whether a *)
(* call or a poll goes on that has to add them, are left open here.        *)
(* A stream and the connection it is added to share a number.              *)
(***************************************************************************)
EXTENDS Naturals, Sequences

CONSTANTS
  Client,      \* the two clients
  Caller,      \* the clients whose users start calls: a bound on the instance
  CallId,      \* uuids of calls
  MaxMedia,    \* bound on the clicks on call and accept buttons
  MaxLosses,   \* bound on the sends and polls that fail
  None         \* absent value

ASSUME CallAssumption ==
  /\ \E c, d \in Client : c # d /\ Client = {c, d}
  /\ Caller \subseteq Client
  /\ MaxMedia \in Nat /\ MaxLosses \in Nat
  /\ None \notin CallId

VARIABLES
  state,     \* state
  pc,        \* pc
  offer,     \* pendingOffer
  timer,     \* answerTimer
  armed,     \* the calls whose answer timeout is still to fire
  reset,     \* idleResetTimer is armed
  tasks,     \* the calls of async functions in progress
  out,       \* sends in progress
  net,       \* what the client will still poll, in order
  \* the browser
  live,      \* streams whose tracks are not stopped
  open,      \* connections that are not closed
  \* history
  media,     \* clicks on call and accept buttons
  used,      \* calls started
  answered,  \* own calls whose answer was handled
  refused,   \* own calls whose answer the connection refused
  losses     \* sends and polls that failed

machine == <<state, pc, offer, timer, armed, reset>>
browser == <<live, open>>
wire == <<out, net>>
history == <<media, used, answered, refused, losses>>
vars == <<machine, tasks, wire, browser, history>>

Peer(c) == CHOOSE d \in Client : d # c

Status ==
  {"idle", "outgoing-ringing", "incoming-ringing", "connecting", "connected", "ended"}

State == [status : Status, call : CallId \cup {None}, stream : Nat]
Link == {"new", "local", "remote", "both", "up"}   \* the descriptions it has
Connection == [id : Nat, call : CallId \cup {None}, link : Link]
Envelope == [kind : {"offer", "answer", "end"}, call : CallId, id : Nat]
Activation ==
  [op     : {"start", "accept", "answer"},
   step   : {"media", "local", "remote", "ice", "send"},
   call   : CallId,
   id     : Nat,      \* its connection
   stream : Nat]      \* its stream

Without(s) == [status |-> s, call |-> None, stream |-> 0]
InCall(s, k, n) == [status |-> s, call |-> k, stream |-> n]
NoConnection == [id |-> 0, call |-> None, link |-> "new"]

Init ==
  /\ state = [c \in Client |-> Without("idle")]
  /\ pc = [c \in Client |-> NoConnection]
  /\ offer = [c \in Client |-> None]
  /\ timer = [c \in Client |-> None]
  /\ armed = [c \in Client |-> {}]
  /\ reset = [c \in Client |-> FALSE]
  /\ tasks = [c \in Client |-> {}]
  /\ out = [c \in Client |-> {}]
  /\ net = [c \in Client |-> <<>>]
  /\ live = [c \in Client |-> {}]
  /\ open = [c \in Client |-> {}]
  /\ media = [c \in Client |-> 0]
  /\ used = {}
  /\ answered = [c \in Client |-> {}]
  /\ refused = [c \in Client |-> {}]
  /\ losses = 0

-----------------------------------------------------------------------------
Become(c, s) == state' = [state EXCEPT ![c] = s]

Begin(c, t) == tasks' = [tasks EXCEPT ![c] = @ \cup {t}]
Goto(c, t, s) == tasks' = [tasks EXCEPT ![c] = (@ \ {t}) \cup {[t EXCEPT !.step = s]}]
End(c, t) == tasks' = [tasks EXCEPT ![c] = @ \ {t}]

Post(c, kind, k, n) ==
  out' = [out EXCEPT ![c] = @ \cup {[kind |-> kind, call |-> k, id |-> n]}]

(* Mutant: a timer that is set is kept *)
ArmTimerOnce(c, k) ==
  /\ timer' = [timer EXCEPT ![c] = IF @ = None THEN k ELSE @]
  /\ armed' = [armed EXCEPT ![c] = IF timer[c] = None THEN @ \cup {k} ELSE @]

ArmTimer(c, k) ==
  /\ timer' = [timer EXCEPT ![c] = k]
  /\ armed' = [armed EXCEPT ![c] = @ \cup {k}]

(* Mutant: the timer goes on *)
KeepTimer(c, fired) == armed' = [armed EXCEPT ![c] = @ \ fired]

(* clearTimeout(answerTimer), where the timeouts fired are gone anyway *)
ClearTimer(c, fired) == armed' = [armed EXCEPT ![c] = @ \ (fired \cup {timer[c]})]

Cleanup(c, fired) ==
  /\ ClearTimer(c, fired)
  /\ timer' = [timer EXCEPT ![c] = None]
  /\ open' = [open EXCEPT ![c] = @ \ {pc[c].id}]
  /\ pc' = [pc EXCEPT ![c] = NoConnection]
  /\ offer' = [offer EXCEPT ![c] = None]
  /\ live' = [live EXCEPT ![c] = @ \ {state[c].stream}]

(* cleanup, setState and scheduleIdleReset, as endCall and call-end do them *)
Over(c, fired) ==
  /\ Cleanup(c, fired)
  /\ Become(c, Without("ended"))
  /\ reset' = [reset EXCEPT ![c] = TRUE]

(* Mutant: the call's id is read from the state it just left *)
EndCallLate(c, k, fired) == Over(c, fired) /\ Post(c, "end", state'[c].call, 0)

EndCall(c, k, fired) == Over(c, fired) /\ Post(c, "end", k, 0)

-----------------------------------------------------------------------------
(* The user *)

Click(c, o, k) ==
  /\ media[c] + media[Peer(c)] < MaxMedia
  /\ media' = [media EXCEPT ![c] = @ + 1]
  /\ Begin(c, [op |-> o, step |-> "media", call |-> k, id |-> media[c] + 1, stream |-> media[c] + 1])

(* The buttons of the conversation and, during a call, of its screen *)
Offered(c) ==
  IF state[c].status \in {"idle", "ended"} THEN {"start"}
  ELSE IF state[c].status = "incoming-ringing" THEN {"accept", "decline"} ELSE {"hangUp"}

StartCall(c) ==
  /\ c \in Caller /\ "start" \in Offered(c)
  /\ \E k \in CallId \ used : Click(c, "start", k) /\ used' = used \cup {k}
  /\ Cleanup(c, {})
  /\ UNCHANGED <<state, reset, wire, answered, refused, losses>>

AcceptCall(c) ==
  /\ "accept" \in Offered(c) /\ offer[c] # None
  /\ Click(c, "accept", offer[c])
  /\ UNCHANGED <<machine, wire, browser, used, answered, refused, losses>>

DeclineCall(c) ==
  /\ "decline" \in Offered(c) /\ offer[c] # None
  /\ EndCall(c, offer[c], {})
  /\ UNCHANGED <<tasks, net, history>>

HangUp(c) ==
  /\ "hangUp" \in Offered(c)
  /\ EndCall(c, state[c].call, {})
  /\ UNCHANGED <<tasks, net, history>>

-----------------------------------------------------------------------------
(* What startCall and acceptCall go on to do *)

(* getUserMedia resolves: a stream, and a connection in the place of any other *)
Media(c, t) ==
  /\ t.step = "media"
  /\ live' = [live EXCEPT ![c] = @ \cup {t.stream}]
  /\ open' = [open EXCEPT ![c] = @ \cup {t.id}]
  /\ pc' = [pc EXCEPT ![c] = [id |-> t.id, call |-> t.call, link |-> "new"]]
  /\ Goto(c, t, IF t.op = "start" THEN "local" ELSE "remote")
  /\ UNCHANGED <<state, offer, timer, armed, reset, wire, history>>

(* ... or rejects *)
Denied(c, t) ==
  /\ t.step = "media"
  /\ End(c, t)
  /\ UNCHANGED <<machine, wire, browser, history>>

(* The connection's own operations: one that was asked of a connection since  *)
(* closed never settles, and any other may reject: pc may by now be another   *)
(* connection or null, a description or a candidate may not suit it.          *)
Settles(c, t) == t.id \in open[c]

(* The connection of t, if it still is pc, has this description or both *)
Described(c, t, l) == pc' = [pc EXCEPT ![c].link = IF pc[c].id = t.id THEN l ELSE @]

(* acceptCall: setRemoteDescription(offer), and createAnswer is asked of pc *)
AcceptRemote(c, t) ==
  /\ t.op = "accept" /\ t.step = "remote"
  /\ \/ Settles(c, t) /\ pc[c] # NoConnection
        /\ Goto(c, t, "local") /\ Described(c, t, "remote")
     \/ End(c, t) /\ UNCHANGED pc
  /\ UNCHANGED <<state, offer, timer, armed, reset, wire, browser, history>>

(* An answer can be set on pc once; or it was asked of what has been replaced *)
SetAnswer(c, t) ==
  \/ pc[c].link = "remote" /\ pc' = [pc EXCEPT ![c].link = "both"]
  \/ pc[c].id # t.id /\ UNCHANGED pc

(* setLocalDescription, and the offer or the answer is on its way *)
Local(c, t) ==
  /\ t.step = "local"
  /\ \/ /\ Settles(c, t)
        /\ Goto(c, t, "send")
        /\ \/ t.op = "start" /\ Post(c, "offer", t.call, t.id) /\ Described(c, t, "local")
           \/ t.op = "accept" /\ Post(c, "answer", t.call, t.id) /\ SetAnswer(c, t)
     \/ End(c, t) /\ UNCHANGED <<pc, out>>
  /\ UNCHANGED <<state, offer, timer, armed, reset, net, browser, history>>

Sending(c, t) == \E e \in out[c] : e.id = t.id /\ e.call = t.call

(* Mutant: nobody waits for the offer to be sent *)
StartSentEarly(c, t) ==
  /\ t.op = "start" /\ t.step = "send"
  /\ Become(c, InCall("outgoing-ringing", t.call, t.stream))
  /\ ArmTimer(c, t.call)
  /\ End(c, t)
  /\ UNCHANGED <<pc, offer, reset, wire, browser, history>>

StartSent(c, t) ==
  /\ t.op = "start" /\ t.step = "send" /\ ~Sending(c, t)
  /\ Become(c, InCall("outgoing-ringing", t.call, t.stream))
  /\ ArmTimer(c, t.call)
  /\ End(c, t)
  /\ UNCHANGED <<pc, offer, reset, wire, browser, history>>

AcceptSent(c, t) ==
  /\ t.op = "accept" /\ t.step = "send" /\ ~Sending(c, t)
  /\ offer' = [offer EXCEPT ![c] = None]
  /\ Become(c, InCall("connecting", t.call, t.stream))
  /\ End(c, t)
  /\ UNCHANGED <<pc, timer, armed, reset, wire, browser, history>>

-----------------------------------------------------------------------------
(* Timers and the connection *)

AnswerTimeout(c) ==
  /\ \E k \in armed[c] : EndCall(c, k, {k})
  /\ UNCHANGED <<tasks, net, history>>

IdleReset(c) ==
  /\ reset[c]
  /\ reset' = [reset EXCEPT ![c] = FALSE]
  /\ Become(c, Without("idle"))
  /\ UNCHANGED <<pc, offer, timer, armed, tasks, wire, browser, history>>

(* The connection comes up; a state other than connecting does not hear of it *)
Connected(c) ==
  /\ pc[c].link = "both"
  /\ pc' = [pc EXCEPT ![c].link = "up"]
  /\ \/ /\ state[c].status = "connecting"
        /\ ClearTimer(c, {})
        /\ Become(c, InCall("connected", pc[c].call, state[c].stream))
     \/ state[c].status # "connecting" /\ UNCHANGED <<armed, state>>
  /\ UNCHANGED <<offer, timer, reset, tasks, wire, browser, history>>

Failed(c) ==
  /\ pc[c].link \in {"both", "up"}
  /\ EndCall(c, pc[c].call, {})
  /\ UNCHANGED <<tasks, net, history>>

-----------------------------------------------------------------------------
(* handleCallSignal *)

Signal(c, kind) == net[c] # <<>> /\ Head(net[c]).kind = kind
Consume(c) == net' = [net EXCEPT ![c] = Tail(@)]

HandleOffer(c) ==
  /\ Signal(c, "offer")
  /\ Consume(c)
  /\ LET k == Head(net[c]).call
     IN \/ /\ state[c].status \in {"idle", "ended"}
           /\ offer' = [offer EXCEPT ![c] = k]
           /\ Become(c, InCall("incoming-ringing", k, 0))
        \/ /\ state[c].status \notin {"idle", "ended"}
           /\ UNCHANGED <<offer, state>>
  /\ UNCHANGED <<pc, timer, armed, reset, tasks, out, browser, history>>

Expected(c, k) ==
  state[c].status = "outgoing-ringing" /\ state[c].call = k /\ pc[c] # NoConnection

HandleAnswer(c) ==
  /\ Signal(c, "answer")
  /\ Consume(c)
  /\ LET k == Head(net[c]).call
     IN \/ /\ Expected(c, k)
           /\ ClearTimer(c, {})
           /\ answered' = [answered EXCEPT ![c] = @ \cup {k}]
           /\ Begin(c, [op |-> "answer", step |-> "remote", call |-> k,
                        id |-> pc[c].id, stream |-> state[c].stream])
        \/ ~Expected(c, k) /\ UNCHANGED <<armed, answered, tasks>>
  /\ UNCHANGED <<state, pc, offer, timer, reset, out, browser, media, used, refused, losses>>

(* The rest of a batch is lost when the poll that fetched it stops *)
Skip(c, n) == net' = [net EXCEPT ![c] = SubSeq(@, n + 1, Len(@))]

(* The poll that handles the answer fails, or waits for ever *)
Refuse(c, t) ==
  /\ End(c, t)
  /\ \E n \in 0 .. Len(net[c]) : Skip(c, n)
  /\ refused' = [refused EXCEPT ![c] = IF Settles(c, t) THEN @ \cup {t.call} ELSE @]
  /\ UNCHANGED <<state, pc>>

(* setRemoteDescription(answer): once only, after its own offer *)
AnswerRemote(c, t) ==
  /\ t.op = "answer" /\ t.step = "remote"
  /\ \/ /\ Settles(c, t)
        /\ pc[c].id = t.id => pc[c].link = "local"
        /\ Goto(c, t, "ice")
        /\ Described(c, t, "both")
        /\ UNCHANGED <<state, net, refused>>
     \/ Refuse(c, t)
  /\ UNCHANGED <<offer, timer, armed, reset, out, browser, media, used, answered, losses>>

(* The candidates are added *)
AnswerReady(c, t) ==
  /\ t.op = "answer" /\ t.step = "ice"
  /\ \/ /\ Settles(c, t)
        /\ Become(c, InCall("connecting", t.call, t.stream))
        /\ End(c, t)
        /\ UNCHANGED <<pc, net, refused>>
     \/ Refuse(c, t)
  /\ UNCHANGED <<offer, timer, armed, reset, out, browser, media, used, answered, losses>>

(* Mutant: a call that rings is not active *)
CallTalking(c) ==
  IF state[c].status \in {"connecting", "connected"} THEN state[c].call ELSE None

ActiveCall(c) ==
  IF offer[c] # None THEN offer[c]
  ELSE IF state[c].status \in {"idle", "ended"} THEN None ELSE state[c].call

HandleEnd(c) ==
  /\ Signal(c, "end")
  /\ Consume(c)
  /\ \/ ActiveCall(c) = Head(net[c]).call /\ Over(c, {})
     \/ ActiveCall(c) # Head(net[c]).call /\ UNCHANGED <<machine, browser>>
  /\ UNCHANGED <<tasks, out, history>>

-----------------------------------------------------------------------------
(* Sends: several may be in progress, and end in any order *)

Deliver(c) ==
  /\ \E e \in out[c] :
       /\ out' = [out EXCEPT ![c] = @ \ {e}]
       /\ net' = [net EXCEPT ![Peer(c)] = Append(@, e)]
  /\ UNCHANGED <<machine, tasks, browser, history>>

(* A send fails, at the latest while it is answered, and with it the function *)
(* that waits for it.  Or a poll does, at an envelope that does not decrypt or *)
(* a candidate that is refused, and what it has yet to handle is lost.         *)
Lose(c) ==
  /\ losses < MaxLosses
  /\ losses' = losses + 1
  /\ \/ \E e \in out[c] :
          /\ out' = [out EXCEPT ![c] = @ \ {e}]
          /\ tasks' = [tasks EXCEPT ![c] = {t \in @ : ~(t.step = "send" /\ t.id = e.id)}]
          /\ UNCHANGED net \/ net' = [net EXCEPT ![Peer(c)] = Append(@, e)]
     \/ \E n \in 1 .. Len(net[c]) : Skip(c, n) /\ UNCHANGED <<tasks, out>>
  /\ UNCHANGED <<machine, browser, media, used, answered, refused>>

-----------------------------------------------------------------------------
User(c) == StartCall(c) \/ AcceptCall(c) \/ DeclineCall(c) \/ HangUp(c)

GoesOn(c, t) ==
  Media(c, t) \/ Denied(c, t) \/ AcceptRemote(c, t) \/ Local(c, t)
    \/ StartSent(c, t) \/ AcceptSent(c, t)
    \/ AnswerRemote(c, t) \/ AnswerReady(c, t)

Poll(c) == HandleOffer(c) \/ HandleAnswer(c) \/ HandleEnd(c)

Next ==
  \E c \in Client :
    \/ User(c) \/ Poll(c) \/ Deliver(c) \/ Lose(c)
    \/ AnswerTimeout(c) \/ IdleReset(c) \/ Connected(c) \/ Failed(c)
    \/ \E t \in tasks[c] : GoesOn(c, t)

Spec == Init /\ [][Next]_vars

Runs(c) == (\E t \in tasks[c] : GoesOn(c, t)) \/ Deliver(c) \/ Poll(c) \/ AnswerTimeout(c)

(***************************************************************************)
(* Fairness: the browser runs what is ready: promises settle, sends end,   *)
(* clients poll, answer timers fire.  One condition for all of them is     *)
(* enough, as the clicks are bounded, and it asks for less than one each.  *)
(* Users may never click and connections never come about.                 *)
(***************************************************************************)
Fair == \A c \in Client : WF_vars(Runs(c))

FairSpec == Spec /\ Fair

-----------------------------------------------------------------------------
(* Properties *)

(* TypeOK: every variable of the two clients holds values of its type. *)
TypeOK ==
  /\ state \in [Client -> State]
  /\ pc \in [Client -> Connection]
  /\ offer \in [Client -> CallId \cup {None}]
  /\ timer \in [Client -> CallId \cup {None}]
  /\ armed \in [Client -> SUBSET CallId]
  /\ reset \in [Client -> BOOLEAN]
  /\ tasks \in [Client -> SUBSET Activation]
  /\ out \in [Client -> SUBSET Envelope]
  /\ net \in [Client -> Seq(Envelope)]
  /\ live \in [Client -> SUBSET Nat]
  /\ open \in [Client -> SUBSET Nat]
  /\ media \in [Client -> Nat]
  /\ used \subseteq CallId
  /\ answered \in [Client -> SUBSET CallId]
  /\ refused \in [Client -> SUBSET CallId]
  /\ losses \in Nat

(* RingHasDeadline: a call that rings out has a timeout to come unless it was *)
(* answered, however its user, its timers and its signals race ("An offer     *)
(* that gets no answer within 30s moves the caller's state to ended").        *)
RingHasDeadline ==
  \A c \in Client :
    state[c].status = "outgoing-ringing" => state[c].call \in armed[c] \cup answered[c]

(* NoLateTimeout: once a call's answer was handled, its own timeout will not   *)
(* fire any more.  The timeout of an earlier call may.                         *)
NoLateTimeout == \A c \in Client : answered[c] \cap armed[c] = {}

(* RingingSettles: neither side rings for ever, unless a send or a poll failed *)
(* or a second call was started: the callee's ringing ends with the caller's,  *)
(* though it has no timer of its own.  Only a caller whose connection refused  *)
(* the answer is left ringing: its timer was cleared before that.              *)
Undisturbed == losses = 0 /\ \A k, l \in used : k = l
RingsOn(c) ==
  \/ state[c].status = "incoming-ringing"
  \/ state[c].status = "outgoing-ringing" /\ state[c].call \notin refused[c]
RingingSettles == \A c \in Client : RingsOn(c) ~> (~RingsOn(c) \/ ~Undisturbed)

(* No function runs, no send is in progress and no envelope is to be polled *)
Quiet == \A c \in Client : tasks[c] = {} /\ out[c] = {} /\ net[c] = <<>>

(* NoLoneRing: and when nothing is under way any more, a call that rings out   *)
(* has its timeout to come, unless its answer was refused; and one that rings  *)
(* in is the one that the other side rings out, with its timeout to come,      *)
(* which will end both.                                                        *)
NoLoneRing ==
  Undisturbed /\ Quiet =>
    \A c \in Client :
      /\ state[c].status = "outgoing-ringing" => state[c].call \in armed[c] \cup refused[c]
      /\ state[c].status = "incoming-ringing" =>
           /\ state[Peer(c)].status = "outgoing-ringing"
           /\ state[Peer(c)].call = state[c].call
           /\ state[Peer(c)].call \in armed[Peer(c)]

(* MediaReleased: once a call ended and nothing more is done about it, the     *)
(* camera and the microphone are off (cleanup: "Releasing the camera/mic is    *)
(* not optional").                                                             *)
MediaReleased == \A c \in Client : state[c].status = "ended" /\ tasks[c] = {} => live[c] = {}

=============================================================================
