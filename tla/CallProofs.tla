----------------------------- MODULE CallProofs -----------------------------
(***************************************************************************)
(* Proofs about Call: its type invariant, what keeps the answer timer      *)
(* right, and that with one call and nothing lost neither client rings     *)
(* without the other's call and a timer to end it, for any bounds.         *)
(***************************************************************************)
EXTENDS Call, SequenceTheorems, TLAPS

(***************************************************************************)
(* A client in a call knows which, and so does its connection; connections *)
(* are numbered from 1.                                                    *)
(***************************************************************************)
Named(c) ==
  /\ state[c].status \notin {"idle", "ended"} => state[c].call \in CallId
  /\ pc[c] # NoConnection => pc[c].call \in CallId /\ pc[c].id # 0
  /\ \A t \in tasks[c] : t.id # 0

TypeInv == TypeOK /\ \A c \in Client : Named(c)

(***************************************************************************)
(* A call is numbered once, by one startCall; until that has sent the      *)
(* offer, the call has no timer, no answer, and does not ring.  The one    *)
(* that rings is the one that answerTimer belongs to.                      *)
(***************************************************************************)
Starts(c) == {t \in tasks[c] : t.op = "start"}
Rings(c) == state[c].status = "outgoing-ringing"

Timed(c) ==
  /\ armed[c] \cup answered[c] \subseteq used
  /\ answered[c] \cap armed[c] = {}
  /\ \A t \in Starts(c) : t.call \in used \ (armed[c] \cup answered[c])
  /\ \A t, u \in Starts(c) : t.call = u.call => t = u
  /\ Rings(c) =>
       /\ timer[c] = state[c].call
       /\ state[c].call \in armed[c] \cup answered[c]
       /\ \A t \in Starts(c) : t.call # state[c].call

TimedInv == \A c \in Client : Timed(c)

(* The other client is a client. *)
LEMMA PeerType == \A c \in Client : Peer(c) \in Client
BY CallAssumption DEF Peer

LEMMA NoConnectionType == NoConnection \in Connection /\ NoConnection.id = 0
BY DEF NoConnection, Connection, Link

LEMMA StateType ==
  /\ \A s \in {"idle", "ended"} : Without(s) \in State /\ Without(s).status = s
  /\ \A s \in Status, k \in CallId \cup {None}, n \in Nat :
       /\ InCall(s, k, n) \in State
       /\ InCall(s, k, n).status = s /\ InCall(s, k, n).call = k
BY DEF Without, InCall, State, Status

(* cleanup keeps types and leaves no connection to name a call. *)
LEMMA CleanupType ==
  ASSUME TypeInv, NEW c \in Client, NEW fired, Cleanup(c, fired)
  PROVE  /\ armed' \in [Client -> SUBSET CallId]
         /\ timer' \in [Client -> CallId \cup {None}]
         /\ open' \in [Client -> SUBSET Nat]
         /\ live' \in [Client -> SUBSET Nat]
         /\ offer' \in [Client -> CallId \cup {None}]
         /\ pc' \in [Client -> Connection]
         /\ \A d \in Client : pc'[d] = NoConnection \/ pc'[d] = pc[d]
  BY NoConnectionType DEF TypeInv, TypeOK, Cleanup, ClearTimer

LEMMA OverType ==
  ASSUME TypeInv, NEW c \in Client, NEW fired, Over(c, fired)
  PROVE  /\ state' \in [Client -> State]
         /\ reset' \in [Client -> BOOLEAN]
         /\ \A d \in Client : state'[d].status = "ended" \/ state'[d] = state[d]
  BY StateType DEF TypeInv, TypeOK, Over, Become

LEMMA PostType ==
  ASSUME TypeInv, NEW c \in Client, NEW kind \in {"offer", "answer", "end"},
         NEW k \in CallId, NEW n \in Nat, Post(c, kind, k, n)
  PROVE  out' \in [Client -> SUBSET Envelope]
  BY DEF TypeInv, TypeOK, Post, Envelope

(* Ending the call k by cleaning up and posting call-end. *)
LEMMA EndCallType ==
  ASSUME TypeInv, NEW c \in Client, NEW k \in CallId, NEW fired, EndCall(c, k, fired),
         UNCHANGED <<tasks, net, history>>
  PROVE  TypeInv'
<1>1. Over(c, fired) /\ Cleanup(c, fired) /\ Post(c, "end", k, 0)
  BY DEF EndCall, Over
<1>2. TypeOK'
  BY <1>1, CleanupType, OverType, PostType DEF TypeInv, TypeOK, history
<1>3. \A d \in Client : Named(d)'
  BY <1>1, CleanupType, OverType DEF TypeInv, Named
<1> QED BY <1>2, <1>3 DEF TypeInv

(* Beginning, moving and ending an activation. *)
LEMMA BeginType ==
  ASSUME TypeInv, NEW c \in Client, NEW t \in Activation, t.id # 0, Begin(c, t)
  PROVE  /\ tasks' \in [Client -> SUBSET Activation]
         /\ \A d \in Client : \A u \in tasks'[d] : u.id # 0
  BY DEF TypeInv, TypeOK, Named, Begin

LEMMA GotoType ==
  ASSUME TypeInv, NEW c \in Client, NEW t \in tasks[c],
         NEW s \in {"media", "local", "remote", "ice", "send"}, Goto(c, t, s)
  PROVE  /\ tasks' \in [Client -> SUBSET Activation]
         /\ \A d \in Client : \A u \in tasks'[d] : u.id # 0
<1> DEFINE r == [t EXCEPT !.step = s]
<1>1. t \in Activation /\ t.id # 0
  BY DEF TypeInv, TypeOK, Named
<1>2. r \in Activation /\ r.id # 0
  BY <1>1 DEF Activation
<1> HIDE DEF r
<1>3. tasks' = [tasks EXCEPT ![c] = (@ \ {t}) \cup {r}]
  BY DEF Goto, r
<1> QED BY <1>2, <1>3 DEF TypeInv, TypeOK, Named

LEMMA EndType ==
  ASSUME TypeInv, NEW c \in Client, NEW t, End(c, t)
  PROVE  /\ tasks' \in [Client -> SUBSET Activation]
         /\ \A d \in Client : \A u \in tasks'[d] : u.id # 0
  BY DEF TypeInv, TypeOK, Named, End

(* A description that is set changes nothing of a connection but its link, and *)
(* only if it is that of the activation.                                       *)
LEMMA DescribedAt ==
  ASSUME TypeInv, NEW c \in Client, NEW t, t.id # 0, NEW l \in Link,
         Described(c, t, l) \/ SetAnswer(c, t)
  PROVE  /\ \/ pc' = pc
            \/ \E r \in Connection :
                 /\ pc' = [pc EXCEPT ![c] = r] /\ pc[c] # NoConnection
                 /\ r.id = pc[c].id /\ r.call = pc[c].call
                 /\ r.link = l \/ SetAnswer(c, t)
         /\ Described(c, t, l) /\ pc[c].id = t.id => pc'[c].link = l
<1>1. pc[c] \in Connection /\ pc \in [Client -> Connection]
  BY DEF TypeInv, TypeOK
<1>2. ASSUME NEW k \in Link
      PROVE  LET r == [pc[c] EXCEPT !.link = k]
             IN r \in Connection /\ r.id = pc[c].id /\ r.call = pc[c].call /\ r.link = k
  BY <1>1 DEF Connection
<1>3. CASE Described(c, t, l) /\ pc[c].id = t.id
  <2> DEFINE r == [pc[c] EXCEPT !.link = l]
  <2>1. pc' = [pc EXCEPT ![c] = r]
    BY <1>1, <1>3 DEF Described
  <2>2. r \in Connection /\ r.id = pc[c].id /\ r.call = pc[c].call /\ r.link = l
    BY <1>2
  <2>3. pc[c] # NoConnection
    BY <1>3, NoConnectionType
  <2> HIDE DEF r
  <2> QED BY <1>1, <2>1, <2>2, <2>3
<1>4. CASE Described(c, t, l) /\ pc[c].id # t.id
  <2>1. [pc[c] EXCEPT !.link = pc[c].link] = pc[c]
    BY <1>1 DEF Connection
  <2>2. pc' = pc
    BY <1>1, <1>4, <2>1 DEF Described
  <2> QED BY <1>4, <2>2
<1>5. CASE SetAnswer(c, t) /\ ~Described(c, t, l)
  <2>1. CASE pc[c].link = "remote" /\ pc' = [pc EXCEPT ![c].link = "both"]
    <3> DEFINE r == [pc[c] EXCEPT !.link = "both"]
    <3>1. pc' = [pc EXCEPT ![c] = r] /\ "both" \in Link
      BY <1>1, <2>1 DEF Link
    <3>2. r \in Connection /\ r.id = pc[c].id /\ r.call = pc[c].call
      BY <1>2, <3>1
    <3>3. pc[c] # NoConnection
      BY <2>1 DEF NoConnection
    <3> HIDE DEF r
    <3> QED BY <1>5, <3>1, <3>2, <3>3
  <2> QED BY <1>5, <2>1 DEF SetAnswer
<1> QED BY <1>3, <1>4, <1>5

LEMMA DescribedType ==
  ASSUME TypeInv, NEW c \in Client, NEW t, t.id # 0, NEW l \in Link,
         Described(c, t, l) \/ SetAnswer(c, t)
  PROVE  /\ pc' \in [Client -> Connection]
         /\ \A d \in Client :
              pc'[d] # NoConnection => pc'[d].call \in CallId /\ pc'[d].id # 0
<1>1. pc \in [Client -> Connection]
  BY DEF TypeInv, TypeOK
<1>2. CASE pc' = pc
  BY <1>1, <1>2 DEF TypeInv, Named
<1>3. CASE pc' # pc
  <2>1. PICK r \in Connection :
          /\ pc' = [pc EXCEPT ![c] = r] /\ pc[c] # NoConnection
          /\ r.id = pc[c].id /\ r.call = pc[c].call
    BY <1>3, DescribedAt
  <2>2. r.call \in CallId /\ r.id # 0
    BY <2>1 DEF TypeInv, Named
  <2> QED BY <1>1, <2>1, <2>2 DEF TypeInv, Named
<1> QED BY <1>2, <1>3

(* What is left of a queue was in it. *)
LEMMA SkipAt ==
  ASSUME NEW S, NEW s \in Seq(S), NEW n \in 0 .. Len(s)
  PROVE  /\ SubSeq(s, n + 1, Len(s)) \in Seq(S)
         /\ \A i \in DOMAIN SubSeq(s, n + 1, Len(s)) :
              /\ n + i \in DOMAIN s
              /\ SubSeq(s, n + 1, Len(s))[i] = s[n + i]
<1> DEFINE u == SubSeq(s, n + 1, Len(s))
<1>1. /\ Len(s) \in Nat /\ n \in Nat /\ n <= Len(s)
      /\ \A i \in (n + 1) .. Len(s) : s[i] \in S
  OBVIOUS
<1>2. /\ u \in Seq(S)
      /\ Len(u) = IF n + 1 <= Len(s) THEN Len(s) - (n + 1) + 1 ELSE 0
      /\ \A i \in 1 .. Len(s) - (n + 1) + 1 : u[i] = s[n + 1 + i - 1]
  BY <1>1, SubSeqProperties
<1> HIDE DEF u
<1>3. Len(u) = Len(s) - n /\ DOMAIN u = 1 .. (Len(s) - n)
  BY <1>1, <1>2
<1>4. ASSUME NEW i \in DOMAIN u PROVE n + i \in DOMAIN s /\ u[i] = s[n + i]
  <2>1. i \in 1 .. Len(s) - (n + 1) + 1 /\ n + 1 + i - 1 = n + i
    BY <1>1, <1>3
  <2> QED BY <1>1, <1>2, <1>3, <2>1
<1> QED BY <1>2, <1>4 DEF u

LEMMA RefuseType ==
  ASSUME TypeInv, NEW c \in Client, NEW t \in tasks[c], Refuse(c, t)
  PROVE  /\ tasks' \in [Client -> SUBSET Activation]
         /\ \A d \in Client : \A u \in tasks'[d] : u.id # 0
         /\ net' \in [Client -> Seq(Envelope)]
         /\ refused' \in [Client -> SUBSET CallId]
         /\ UNCHANGED <<state, pc>>
<1>1. t.call \in CallId
  BY DEF TypeInv, TypeOK, Activation
<1>2. PICK n \in 0 .. Len(net[c]) : Skip(c, n)
  BY DEF Refuse
<1>3. SubSeq(net[c], n + 1, Len(net[c])) \in Seq(Envelope)
  BY SkipAt DEF TypeInv, TypeOK
<1>4. net' \in [Client -> Seq(Envelope)]
  BY <1>2, <1>3 DEF Skip, TypeInv, TypeOK
<1>5. refused' \in [Client -> SUBSET CallId]
  BY <1>1 DEF Refuse, TypeInv, TypeOK
<1> QED BY <1>4, <1>5, EndType DEF Refuse

LEMMA TypeInit == Init => TypeInv
BY StateType, NoConnectionType DEF Init, TypeInv, TypeOK, Named

(* What the user does. *)
LEMMA UserType ==
  ASSUME TypeInv, NEW c \in Client, User(c)
  PROVE  TypeInv'
<1> USE DEF TypeInv, TypeOK
<1>1. ASSUME NEW o \in {"start", "accept"}, NEW k \in CallId, Click(c, o, k)
      PROVE  /\ media' \in [Client -> Nat]
             /\ tasks' \in [Client -> SUBSET Activation]
             /\ \A d \in Client : \A u \in tasks'[d] : u.id # 0
  <2> DEFINE t == [op |-> o, step |-> "media", call |-> k,
                   id |-> media[c] + 1, stream |-> media[c] + 1]
  <2>1. media[c] \in Nat
    OBVIOUS
  <2>2. t \in Activation /\ t.id # 0
    BY <2>1 DEF Activation
  <2>3. Begin(c, t) /\ media' = [media EXCEPT ![c] = @ + 1]
    BY <1>1 DEF Click
  <2> HIDE DEF t
  <2> QED BY <2>2, <2>3, BeginType
<1>2. CASE StartCall(c)
  <2>1. PICK k \in CallId : Click(c, "start", k) /\ used' = used \cup {k}
    BY <1>2 DEF StartCall
  <2>2. Cleanup(c, {}) /\ UNCHANGED <<state, reset, wire, answered, refused, losses>>
    BY <1>2 DEF StartCall
  <2>3. TypeOK'
    BY <1>1, <2>1, <2>2, CleanupType DEF wire
  <2>4. \A d \in Client : Named(d)'
    BY <1>1, <2>1, <2>2, CleanupType DEF Named
  <2> QED BY <2>3, <2>4
<1>3. CASE AcceptCall(c)
  <2>1. offer[c] \in CallId /\ Click(c, "accept", offer[c])
    BY <1>3 DEF AcceptCall
  <2>2. UNCHANGED <<machine, wire, browser, used, answered, refused, losses>>
    BY <1>3 DEF AcceptCall
  <2>3. TypeOK'
    BY <1>1, <2>1, <2>2 DEF machine, wire, browser
  <2>4. \A d \in Client : Named(d)'
    BY <1>1, <2>1, <2>2 DEF Named, machine
  <2> QED BY <2>3, <2>4
<1>4. CASE DeclineCall(c)
  <2>1. offer[c] \in CallId
    BY <1>4 DEF DeclineCall
  <2> QED BY <1>4, <2>1, EndCallType DEF DeclineCall
<1>5. CASE HangUp(c)
  <2>1. state[c].call \in CallId
    BY <1>5 DEF HangUp, Offered, Named
  <2> QED BY <1>5, <2>1, EndCallType DEF HangUp
<1> QED BY <1>2, <1>3, <1>4, <1>5 DEF User

(* What an activation does next. *)
LEMMA GoesOnType ==
  ASSUME TypeInv, NEW c \in Client, NEW t \in tasks[c], GoesOn(c, t)
  PROVE  TypeInv'
<1> USE DEF TypeInv, TypeOK
<1>1. t \in Activation /\ t.id # 0 /\ t.id \in Nat /\ t.call \in CallId /\ t.stream \in Nat
  BY DEF Named, Activation
<1>2. CASE Media(c, t)
  <2>1. [id |-> t.id, call |-> t.call, link |-> "new"] \in Connection
    BY <1>1 DEF Connection, Link
  <2>2. TypeOK'
    BY <1>1, <1>2, <2>1, GotoType DEF Media, wire, history
  <2>3. \A d \in Client : Named(d)'
    BY <1>1, <1>2, <2>1, GotoType DEF Named, Media
  <2> QED BY <2>2, <2>3
<1>3. CASE Denied(c, t)
  <2>1. TypeOK'
    BY <1>3, EndType DEF Denied, machine, wire, browser, history
  <2>2. \A d \in Client : Named(d)'
    BY <1>3, EndType DEF Named, Denied, machine
  <2> QED BY <2>1, <2>2
<1>4. CASE AcceptRemote(c, t)
  <2>1. UNCHANGED <<state, offer, timer, armed, reset, wire, browser, history>>
    BY <1>4 DEF AcceptRemote
  <2>2. /\ tasks' \in [Client -> SUBSET Activation]
        /\ \A d \in Client : \A u \in tasks'[d] : u.id # 0
    BY <1>4, EndType, GotoType DEF AcceptRemote
  <2>3. /\ pc' \in [Client -> Connection]
        /\ \A d \in Client :
             pc'[d] # NoConnection => pc'[d].call \in CallId /\ pc'[d].id # 0
    <3>1. "remote" \in Link
      BY DEF Link
    <3> QED BY <1>1, <1>4, <3>1, DescribedType DEF AcceptRemote, Named
  <2> QED BY <2>1, <2>2, <2>3 DEF Named, wire, browser, history
<1>5. CASE Local(c, t)
  <2>1. UNCHANGED <<state, offer, timer, armed, reset, net, browser, history>>
    BY <1>5 DEF Local
  <2>2. /\ tasks' \in [Client -> SUBSET Activation]
        /\ \A d \in Client : \A u \in tasks'[d] : u.id # 0
    BY <1>5, EndType, GotoType DEF Local
  <2>3. out' \in [Client -> SUBSET Envelope]
    BY <1>1, <1>5, PostType DEF Local
  <2>4. /\ pc' \in [Client -> Connection]
        /\ \A d \in Client :
             pc'[d] # NoConnection => pc'[d].call \in CallId /\ pc'[d].id # 0
    <3>1. "local" \in Link
      BY DEF Link
    <3> QED BY <1>1, <1>5, <3>1, DescribedType DEF Local, Named
  <2> QED BY <2>1, <2>2, <2>3, <2>4 DEF Named, browser, history
<1>6. CASE StartSent(c, t)
  <2>1. InCall("outgoing-ringing", t.call, t.stream) \in State
    BY <1>1, StateType DEF Status
  <2>2. TypeOK'
    BY <1>1, <1>6, <2>1, EndType DEF StartSent, ArmTimer, Become, wire, browser, history
  <2>3. \A d \in Client : Named(d)'
    BY <1>1, <1>6, EndType DEF Named, StartSent, ArmTimer, Become, InCall
  <2> QED BY <2>2, <2>3
<1>7. CASE AcceptSent(c, t)
  <2>1. InCall("connecting", t.call, t.stream) \in State
    BY <1>1, StateType DEF Status
  <2>2. TypeOK'
    BY <1>1, <1>7, <2>1, EndType DEF AcceptSent, Become, wire, browser, history
  <2>3. \A d \in Client : Named(d)'
    BY <1>1, <1>7, EndType DEF Named, AcceptSent, Become, InCall
  <2> QED BY <2>2, <2>3
<1>8. CASE AnswerRemote(c, t) \/ AnswerReady(c, t)
  <2>1. UNCHANGED <<offer, timer, armed, reset, out, browser, media, used, answered, losses>>
    BY <1>8 DEF AnswerRemote, AnswerReady
  <2>2. CASE Refuse(c, t)
    BY <2>1, <2>2, RefuseType DEF Named, browser
  <2>3. CASE Goto(c, t, "ice") /\ Described(c, t, "both") /\ UNCHANGED <<state, net, refused>>
    <3>1. "both" \in Link
      BY DEF Link
    <3>2. /\ pc' \in [Client -> Connection]
          /\ \A d \in Client :
               pc'[d] # NoConnection => pc'[d].call \in CallId /\ pc'[d].id # 0
      BY <1>1, <2>3, <3>1, DescribedType
    <3> QED BY <2>1, <2>3, <3>2, GotoType DEF Named, browser
  <2>4. CASE /\ Become(c, InCall("connecting", t.call, t.stream))
             /\ End(c, t) /\ UNCHANGED <<pc, net, refused>>
    <3>1. InCall("connecting", t.call, t.stream) \in State
      BY <1>1, StateType DEF Status
    <3>2. TypeOK'
      BY <2>1, <2>4, <3>1, EndType DEF Become, browser
    <3> QED BY <1>1, <2>4, <3>2, EndType DEF Named, Become, InCall
  <2> QED BY <1>8, <2>2, <2>3, <2>4 DEF AnswerRemote, AnswerReady
<1> QED BY <1>2, <1>3, <1>4, <1>5, <1>6, <1>7, <1>8 DEF GoesOn

(* The head of what a client polls is an envelope, the rest a sequence of them. *)
LEMMA SignalType ==
  ASSUME TypeInv, NEW c \in Client, NEW kind, Signal(c, kind), Consume(c)
  PROVE  /\ Head(net[c]).call \in CallId
         /\ net' \in [Client -> Seq(Envelope)]
<1>1. net[c] \in Seq(Envelope) /\ net[c] # <<>>
  BY DEF TypeInv, TypeOK, Signal
<1>2. Head(net[c]) \in Envelope /\ Tail(net[c]) \in Seq(Envelope)
  BY <1>1
<1> QED BY <1>2 DEF TypeInv, TypeOK, Consume, Envelope

(* Signals. *)
LEMMA PollType ==
  ASSUME TypeInv, NEW c \in Client, Poll(c)
  PROVE  TypeInv'
<1> USE DEF TypeInv, TypeOK
<1> DEFINE k == Head(net[c]).call
<1>1. CASE HandleOffer(c)
  <2>1. k \in CallId /\ net' \in [Client -> Seq(Envelope)]
    BY <1>1, SignalType DEF HandleOffer
  <2>2. InCall("incoming-ringing", k, 0) \in State
    BY <2>1, StateType DEF Status
  <2>3. TypeOK'
    BY <1>1, <2>1, <2>2 DEF HandleOffer, Become, browser, history
  <2>4. UNCHANGED <<pc, tasks>>
    BY <1>1 DEF HandleOffer
  <2>5. \A d \in Client : state'[d].status \notin {"idle", "ended"} => state'[d].call \in CallId
    <3>1. CASE Become(c, InCall("incoming-ringing", k, 0))
      BY <2>1, <3>1, StateType DEF Become, Named, Status
    <3>2. CASE UNCHANGED state
      BY <3>2 DEF Named
    <3> QED BY <1>1, <3>1, <3>2 DEF HandleOffer
  <2> QED BY <2>3, <2>4, <2>5 DEF Named
<1>2. CASE HandleAnswer(c)
  <2>1. k \in CallId /\ net' \in [Client -> Seq(Envelope)]
    BY <1>2, SignalType DEF HandleAnswer
  <2>2. CASE Expected(c, k)
    <3> DEFINE t == [op |-> "answer", step |-> "remote", call |-> k,
                     id |-> pc[c].id, stream |-> state[c].stream]
    <3>1. pc[c].id \in Nat /\ pc[c].id # 0 /\ state[c].stream \in Nat
      BY <2>2 DEF Expected, Named, Connection, State
    <3>2. t \in Activation /\ t.id # 0
      BY <2>1, <3>1 DEF Activation
    <3>3. Begin(c, t)
      BY <1>2, <2>2 DEF HandleAnswer, ClearTimer
    <3> HIDE DEF t
    <3>4. /\ tasks' \in [Client -> SUBSET Activation]
          /\ \A d \in Client : \A u \in tasks'[d] : u.id # 0
      BY <3>2, <3>3, BeginType
    <3>5. /\ armed' = [armed EXCEPT ![c] = @ \ {timer[c]}]
          /\ answered' = [answered EXCEPT ![c] = @ \cup {k}]
          /\ UNCHANGED <<state, pc, offer, timer, reset, out, browser, media, used, refused, losses>>
      BY <1>2, <2>2 DEF HandleAnswer, ClearTimer
    <3>6. TypeOK'
      BY <2>1, <3>4, <3>5 DEF browser
    <3> QED BY <3>4, <3>5, <3>6 DEF Named
  <2>3. CASE ~Expected(c, k)
    <3>1. TypeOK'
      BY <1>2, <2>1, <2>3 DEF HandleAnswer, browser
    <3>2. UNCHANGED <<state, pc, tasks>>
      BY <1>2, <2>3 DEF HandleAnswer
    <3> QED BY <3>1, <3>2 DEF Named
  <2> QED BY <2>2, <2>3
<1>3. CASE HandleEnd(c)
  <2>1. net' \in [Client -> Seq(Envelope)] /\ UNCHANGED <<tasks, out, history>>
    BY <1>3, SignalType DEF HandleEnd
  <2>2. CASE Over(c, {})
    <3>1. TypeOK'
      BY <2>1, <2>2, CleanupType, OverType DEF Over, history
    <3>2. \A d \in Client : Named(d)'
      BY <2>1, <2>2, CleanupType, OverType DEF Over, Named
    <3> QED BY <3>1, <3>2
  <2>3. CASE UNCHANGED <<machine, browser>>
    BY <2>1, <2>3 DEF machine, browser, history, Named
  <2> QED BY <1>3, <2>2, <2>3 DEF HandleEnd
<1> QED BY <1>1, <1>2, <1>3 DEF Poll

(* Timers and the connection. *)
LEMMA EventType ==
  ASSUME TypeInv, NEW c \in Client,
         AnswerTimeout(c) \/ IdleReset(c) \/ Connected(c) \/ Failed(c)
  PROVE  TypeInv'
<1> USE DEF TypeInv, TypeOK
<1>1. CASE AnswerTimeout(c)
  BY <1>1, EndCallType DEF AnswerTimeout
<1>2. CASE IdleReset(c)
  <2>1. TypeOK'
    BY <1>2, StateType DEF IdleReset, Become, wire, browser, history
  <2>2. \A d \in Client : Named(d)'
    BY <1>2, StateType DEF IdleReset, Become, Named
  <2> QED BY <2>1, <2>2
<1>3. CASE Connected(c)
  <2>1. pc[c] # NoConnection
    BY <1>3 DEF Connected, NoConnection
  <2>2. pc[c].call \in CallId /\ pc[c].id # 0 /\ state[c].stream \in Nat
    BY <2>1 DEF Named, State
  <2> DEFINE r == [pc[c] EXCEPT !.link = "up"]
  <2>3. r \in Connection /\ r.call \in CallId /\ r.id # 0
    <3>1. pc[c] \in Connection /\ "up" \in Link
      BY DEF Link
    <3> QED BY <2>2, <3>1 DEF Connection
  <2>4. pc' = [pc EXCEPT ![c] = r]
    BY <1>3 DEF Connected
  <2> HIDE DEF r
  <2>5. InCall("connected", pc[c].call, state[c].stream) \in State
    BY <2>2, StateType DEF Status
  <2>6. UNCHANGED <<offer, timer, reset, tasks, wire, browser, history>>
    BY <1>3 DEF Connected
  <2>7. /\ state' \in [Client -> State] /\ armed' \in [Client -> SUBSET CallId]
        /\ \A d \in Client :
             state'[d].status \notin {"idle", "ended"} => state'[d].call \in CallId
    <3>1. CASE /\ armed' = [armed EXCEPT ![c] = @ \ {timer[c]}]
               /\ Become(c, InCall("connected", pc[c].call, state[c].stream))
      <4>1. InCall("connected", pc[c].call, state[c].stream).call \in CallId
        BY <2>2 DEF InCall
      <4> QED BY <2>5, <3>1, <4>1 DEF Become, Named
    <3>2. CASE UNCHANGED <<armed, state>>
      BY <3>2 DEF Named
    <3> QED BY <1>3, <3>1, <3>2 DEF Connected, ClearTimer
  <2>8. TypeOK'
    BY <2>3, <2>4, <2>6, <2>7 DEF wire, browser, history
  <2> QED BY <2>3, <2>4, <2>6, <2>7, <2>8 DEF Named
<1>4. CASE Failed(c)
  <2>1. pc[c].call \in CallId
    BY <1>4 DEF Failed, NoConnection, Named
  <2> QED BY <1>4, <2>1, EndCallType DEF Failed
<1> QED BY <1>1, <1>2, <1>3, <1>4

(* Sends. *)
LEMMA SendType ==
  ASSUME TypeInv, NEW c \in Client, Deliver(c) \/ Lose(c)
  PROVE  TypeInv'
<1> USE DEF TypeInv, TypeOK
<1>1. UNCHANGED <<machine, browser, media, used, answered, refused>> /\ losses' \in Nat
  BY DEF Deliver, Lose, history
<1>2. /\ tasks' \in [Client -> SUBSET Activation]
      /\ \A d \in Client : \A u \in tasks'[d] : u.id # 0
  <2>1. CASE Deliver(c)
    BY <2>1 DEF Deliver, Named
  <2>2. CASE Lose(c) /\ UNCHANGED tasks
    BY <2>2 DEF Named
  <2>3. ASSUME NEW e \in out[c],
               tasks' = [tasks EXCEPT ![c] = {t \in @ : ~(t.step = "send" /\ t.id = e.id)}]
        PROVE  /\ tasks' \in [Client -> SUBSET Activation]
               /\ \A d \in Client : \A u \in tasks'[d] : u.id # 0
    BY <2>3 DEF Named
  <2> QED BY <2>1, <2>2, <2>3 DEF Lose
<1>3. net' \in [Client -> Seq(Envelope)] /\ out' \in [Client -> SUBSET Envelope]
  <2>1. ASSUME NEW e \in out[c], out' = [out EXCEPT ![c] = @ \ {e}],
               UNCHANGED net \/ net' = [net EXCEPT ![Peer(c)] = Append(@, e)]
        PROVE  net' \in [Client -> Seq(Envelope)] /\ out' \in [Client -> SUBSET Envelope]
    <3>1. e \in Envelope /\ Peer(c) \in Client
      BY PeerType
    <3>2. Append(net[Peer(c)], e) \in Seq(Envelope)
      BY <3>1
    <3> QED BY <2>1, <3>1, <3>2
  <2>2. ASSUME NEW n \in 1 .. Len(net[c]), Skip(c, n), UNCHANGED out
        PROVE  net' \in [Client -> Seq(Envelope)] /\ out' \in [Client -> SUBSET Envelope]
    <3>1. SubSeq(net[c], n + 1, Len(net[c])) \in Seq(Envelope)
      BY SkipAt
    <3> QED BY <2>2, <3>1 DEF Skip
  <2> QED BY <2>1, <2>2 DEF Deliver, Lose
<1> QED BY <1>1, <1>2, <1>3 DEF machine, browser, Named

LEMMA TypeNext == TypeInv /\ [Next]_vars => TypeInv'
<1> SUFFICES ASSUME TypeInv, [Next]_vars PROVE TypeInv'
  OBVIOUS
<1>1. CASE UNCHANGED vars
  BY <1>1 DEF TypeInv, TypeOK, Named, vars, machine, wire, browser, history
<1>2. CASE Next
  BY <1>2, UserType, GoesOnType, PollType, EventType, SendType DEF Next
<1> QED BY <1>1, <1>2

LEMMA TypeInvariant == Spec => []TypeInv
BY TypeInit, TypeNext, PTL DEF Spec

(***************************************************************************)
(* Type correctness: every variable of both clients keeps its type in      *)
(* every behaviour of call.ts, whatever the calls and the bounds.          *)
(***************************************************************************)
THEOREM TypeCorrect == Spec => []TypeOK
BY TypeInvariant, PTL DEF TypeInv

-----------------------------------------------------------------------------
LEMMA TimedInit == Init => TimedInv
<1> SUFFICES ASSUME Init, NEW c \in Client PROVE Timed(c)
  BY DEF TimedInv
<1>1. state[c].status = "idle" /\ armed[c] = {} /\ answered[c] = {} /\ tasks[c] = {}
  BY DEF Init, Without
<1> QED BY <1>1 DEF Timed, Starts, Rings

(* A step of one client leaves the other's timing alone. *)
LEMMA TimedFrame ==
  ASSUME TimedInv, NEW c \in Client, used \subseteq used', Timed(c)',
         \A d \in Client \ {c} :
           /\ state'[d] = state[d] /\ timer'[d] = timer[d] /\ armed'[d] = armed[d]
           /\ answered'[d] = answered[d] /\ tasks'[d] = tasks[d]
  PROVE  TimedInv'
<1>1. ASSUME NEW d \in Client \ {c} PROVE Timed(d)'
  <2>1. Timed(d)
    BY DEF TimedInv
  <2> QED BY <2>1 DEF Timed, Starts, Rings
<1> QED BY <1>1 DEF TimedInv

(* A step that starts and arms nothing, answers nothing, and rings only as before. *)
LEMMA TimedCalm ==
  ASSUME NEW c \in Client, Timed(c), used \subseteq used',
         armed'[c] \subseteq armed[c], answered'[c] = answered[c],
         \A u \in Starts(c)' : \E v \in Starts(c) : v.call = u.call,
         \A t, u \in Starts(c)' : t.call = u.call => t = u,
         Rings(c)' => state'[c] = state[c] /\ timer'[c] = timer[c] /\ armed'[c] = armed[c]
  PROVE  Timed(c)'
<1>1. \A u \in Starts(c)' : u.call \in used \ (armed[c] \cup answered[c])
  BY DEF Timed
<1>2. CASE Rings(c)'
  <2>1. Rings(c)
    BY <1>2 DEF Rings
  <2> QED BY <1>1, <1>2, <2>1 DEF Timed
<1>3. CASE ~Rings(c)'
  BY <1>1, <1>3 DEF Timed
<1> QED BY <1>2, <1>3

(* The same, for a step after which fewer calls are starting. *)
LEMMA TimedCalmer ==
  ASSUME TimedInv, NEW c \in Client, used \subseteq used',
         armed'[c] \subseteq armed[c], answered'[c] = answered[c],
         \A u \in tasks'[c] : u \in tasks[c] \/ u.op # "start",
         Rings(c)' => state'[c] = state[c] /\ timer'[c] = timer[c] /\ armed'[c] = armed[c],
         \A d \in Client \ {c} :
           /\ state'[d] = state[d] /\ timer'[d] = timer[d] /\ armed'[d] = armed[d]
           /\ answered'[d] = answered[d] /\ tasks'[d] = tasks[d]
  PROVE  TimedInv'
<1>1. Timed(c)
  BY DEF TimedInv
<1>2. Starts(c)' \subseteq Starts(c)
  BY DEF Starts
<1>3. \A t, u \in Starts(c)' : t.call = u.call => t = u
  BY <1>1, <1>2 DEF Timed
<1>4. \A u \in Starts(c)' : \E v \in Starts(c) : v.call = u.call
  BY <1>2
<1>5. Timed(c)'
  BY <1>1, <1>3, <1>4, TimedCalm
<1> QED BY <1>5, TimedFrame

(* An activation that only goes on to its next step. *)
LEMMA TimedGoto ==
  ASSUME TypeInv, TimedInv, NEW c \in Client, NEW t \in tasks[c],
         NEW s \in {"media", "local", "remote", "ice", "send"}, Goto(c, t, s),
         UNCHANGED <<state, timer, armed, answered, used>>
  PROVE  TimedInv'
<1> DEFINE r == [t EXCEPT !.step = s]
<1>1. t \in Activation /\ Timed(c)
  BY DEF TypeInv, TypeOK, TimedInv
<1>2. r.call = t.call /\ r.op = t.op
  BY <1>1 DEF Activation
<1> HIDE DEF r
<1>3. tasks' = [tasks EXCEPT ![c] = (@ \ {t}) \cup {r}] /\ tasks \in [Client -> SUBSET Activation]
  BY DEF Goto, r, TypeInv, TypeOK
<1>4. tasks'[c] = (tasks[c] \ {t}) \cup {r} /\ \A d \in Client \ {c} : tasks'[d] = tasks[d]
  BY <1>3
<1>5. \A u \in Starts(c)' : u \in Starts(c) \ {t} \/ (u = r /\ t \in Starts(c))
  BY <1>2, <1>4 DEF Starts
<1>6. \A u \in Starts(c)' : \E v \in Starts(c) : v.call = u.call
  BY <1>2, <1>5
<1>7. \A u, v \in Starts(c)' : u.call = v.call => u = v
  BY <1>1, <1>2, <1>5 DEF Timed
<1>8. Timed(c)'
  BY <1>1, <1>6, <1>7, TimedCalm DEF Rings
<1> QED BY <1>4, <1>8, TimedFrame

(* Ended calls do not ring; activations are not touched. *)
LEMMA TimedOver ==
  ASSUME TypeInv, TimedInv, NEW c \in Client, NEW fired, Over(c, fired),
         UNCHANGED tasks, UNCHANGED answered, UNCHANGED used
  PROVE  TimedInv'
<1>1. /\ armed'[c] \subseteq armed[c] /\ state'[c] = Without("ended")
      /\ \A d \in Client \ {c} :
           state'[d] = state[d] /\ timer'[d] = timer[d] /\ armed'[d] = armed[d]
  BY DEF TypeInv, TypeOK, Over, Cleanup, ClearTimer, Become
<1>2. ~Rings(c)'
  BY <1>1, StateType DEF Rings
<1> QED BY <1>1, <1>2, TimedCalmer

LEMMA TimedUser ==
  ASSUME TypeInv, TimedInv, NEW c \in Client, User(c)
  PROVE  TimedInv'
<1>1. CASE StartCall(c)
  <2>1. PICK k \in CallId \ used : Click(c, "start", k) /\ used' = used \cup {k}
    BY <1>1 DEF StartCall
  <2> DEFINE t == [op |-> "start", step |-> "media", call |-> k,
                   id |-> media[c] + 1, stream |-> media[c] + 1]
  <2>2. t.op = "start" /\ t.call = k /\ tasks' = [tasks EXCEPT ![c] = @ \cup {t}]
    BY <2>1 DEF Click, Begin
  <2> HIDE DEF t
  <2>3. /\ armed'[c] \subseteq armed[c] /\ tasks'[c] = tasks[c] \cup {t}
        /\ UNCHANGED <<state, answered>>
        /\ \A d \in Client \ {c} :
             tasks'[d] = tasks[d] /\ timer'[d] = timer[d] /\ armed'[d] = armed[d]
    BY <1>1, <2>2 DEF StartCall, Cleanup, ClearTimer, TypeInv, TypeOK
  <2>4. ~Rings(c)'
    BY <1>1, <2>3 DEF StartCall, Offered, Rings
  <2>5. Timed(c)
    BY DEF TimedInv
  <2>6. \A u \in Starts(c)' : u \in Starts(c) \/ u = t
    BY <2>3 DEF Starts
  <2>7. k \notin armed[c] \cup answered[c] /\ \A u \in Starts(c) : u.call # k
    BY <2>1, <2>5 DEF Timed
  <2>8. \A u, v \in Starts(c)' : u.call = v.call => u = v
    BY <2>2, <2>5, <2>6, <2>7 DEF Timed
  <2>9. \A u \in Starts(c)' : u.call \in used' \ (armed[c]' \cup answered[c]')
    BY <2>1, <2>2, <2>3, <2>5, <2>6, <2>7 DEF Timed
  <2>10. Timed(c)'
    BY <2>1, <2>3, <2>4, <2>5, <2>8, <2>9 DEF Timed
  <2> QED BY <2>1, <2>3, <2>10, TimedFrame
<1>2. CASE AcceptCall(c)
  <2>1. PICK t : t.op = "accept" /\ tasks' = [tasks EXCEPT ![c] = @ \cup {t}]
    BY <1>2 DEF AcceptCall, Click, Begin
  <2>2. tasks'[c] = tasks[c] \cup {t} /\ \A d \in Client \ {c} : tasks'[d] = tasks[d]
    BY <2>1 DEF TypeInv, TypeOK
  <2>3. UNCHANGED <<state, timer, armed, answered, used>>
    BY <1>2 DEF AcceptCall, machine
  <2> QED BY <2>1, <2>2, <2>3, TimedCalmer
<1>3. CASE DeclineCall(c) \/ HangUp(c)
  BY <1>3, TimedOver DEF DeclineCall, HangUp, EndCall, history
<1> QED BY <1>1, <1>2, <1>3 DEF User

LEMMA TimedGoesOn ==
  ASSUME TypeInv, TimedInv, NEW c \in Client, NEW t \in tasks[c], GoesOn(c, t)
  PROVE  TimedInv'
<1>1. ASSUME End(c, t)
      PROVE  tasks'[c] = tasks[c] \ {t} /\ \A d \in Client \ {c} : tasks'[d] = tasks[d]
  BY <1>1 DEF End, TypeInv, TypeOK
<1>2. ASSUME End(c, t), UNCHANGED <<state, timer, armed, answered, used>>
      PROVE  TimedInv'
  BY <1>1, <1>2, TimedCalmer
<1>3. CASE Media(c, t)
  BY <1>3, TimedGoto DEF Media, history
<1>4. CASE Denied(c, t)
  BY <1>2, <1>4 DEF Denied, machine, history
<1>5. CASE AcceptRemote(c, t)
  BY <1>2, <1>5, TimedGoto DEF AcceptRemote, machine, history
<1>6. CASE Local(c, t)
  BY <1>2, <1>6, TimedGoto DEF Local, history
<1>7. CASE StartSent(c, t)
  <2>1. /\ t.op = "start" /\ End(c, t) /\ UNCHANGED <<answered, used>>
        /\ state' = [state EXCEPT ![c] = InCall("outgoing-ringing", t.call, t.stream)]
        /\ timer' = [timer EXCEPT ![c] = t.call]
        /\ armed' = [armed EXCEPT ![c] = @ \cup {t.call}]
    BY <1>7 DEF StartSent, ArmTimer, Become, history
  <2>2. /\ state'[c].call = t.call /\ timer'[c] = t.call /\ armed'[c] = armed[c] \cup {t.call}
        /\ \A d \in Client \ {c} :
             state'[d] = state[d] /\ timer'[d] = timer[d] /\ armed'[d] = armed[d]
    BY <2>1 DEF InCall, TypeInv, TypeOK
  <2>3. Timed(c) /\ t \in Starts(c) /\ Starts(c)' = Starts(c) \ {t}
    BY <1>1, <2>1 DEF TimedInv, Starts
  <2>4. \A u \in Starts(c)' : u.call # t.call
    BY <2>3 DEF Timed
  <2>5. Timed(c)'
    BY <2>1, <2>2, <2>3, <2>4 DEF Timed
  <2> QED BY <1>1, <2>1, <2>2, <2>5, TimedFrame
<1>8. CASE AcceptSent(c, t) \/ AnswerReady(c, t)
  <2>1. CASE Become(c, InCall("connecting", t.call, t.stream))
    <3>1. /\ state'[c].status = "connecting"
          /\ \A d \in Client \ {c} : state'[d] = state[d]
      BY <2>1 DEF Become, InCall, TypeInv, TypeOK
    <3>2. End(c, t) /\ UNCHANGED <<timer, armed, answered, used>> /\ ~Rings(c)'
      BY <1>8, <3>1 DEF AcceptSent, AnswerReady, Refuse, history, Rings
    <3> QED BY <1>1, <3>1, <3>2, TimedCalmer
  <2>2. CASE AnswerReady(c, t) /\ UNCHANGED state
    BY <1>2, <2>2 DEF AnswerReady, Refuse, history
  <2> QED BY <1>8, <2>1, <2>2 DEF AcceptSent, AnswerReady, Refuse
<1>9. CASE AnswerRemote(c, t)
  BY <1>2, <1>9, TimedGoto DEF AnswerRemote, Refuse, history
<1> QED BY <1>3, <1>4, <1>5, <1>6, <1>7, <1>8, <1>9 DEF GoesOn

LEMMA TimedPoll ==
  ASSUME TypeInv, TimedInv, NEW c \in Client, Poll(c)
  PROVE  TimedInv'
<1>1. CASE HandleOffer(c)
  <2>1. /\ UNCHANGED <<timer, armed, tasks, answered, used>>
        /\ state'[c].status = "incoming-ringing" \/ UNCHANGED state
        /\ \A d \in Client \ {c} : state'[d] = state[d]
    BY <1>1 DEF HandleOffer, history, Become, InCall, TypeInv, TypeOK
  <2> QED BY <2>1, TimedCalmer DEF Rings
<1>2. CASE HandleAnswer(c)
  <2> DEFINE k == Head(net[c]).call
  <2>1. CASE Expected(c, k)
    <3> DEFINE t == [op |-> "answer", step |-> "remote", call |-> k,
                     id |-> pc[c].id, stream |-> state[c].stream]
    <3>1. t.op = "answer" /\ Begin(c, t)
      BY <1>2, <2>1 DEF HandleAnswer, ClearTimer
    <3> HIDE DEF t
    <3>2. /\ armed' = [armed EXCEPT ![c] = @ \ {timer[c]}]
          /\ answered' = [answered EXCEPT ![c] = @ \cup {k}]
          /\ UNCHANGED <<state, timer, used>>
      BY <1>2, <2>1 DEF HandleAnswer, ClearTimer
    <3>3. /\ armed'[c] = armed[c] \ {timer[c]} /\ answered'[c] = answered[c] \cup {k}
          /\ tasks'[c] = tasks[c] \cup {t}
          /\ \A d \in Client \ {c} :
               tasks'[d] = tasks[d] /\ armed'[d] = armed[d] /\ answered'[d] = answered[d]
      BY <3>1, <3>2 DEF Begin, TypeInv, TypeOK
    <3>4. Timed(c) /\ Rings(c) /\ state[c].call = k
      BY <2>1 DEF TimedInv, Expected, Rings
    <3>5. timer[c] = k /\ k \in used /\ \A u \in Starts(c) : u.call # k
      BY <3>4 DEF Timed
    <3>6. Starts(c)' = Starts(c)
      BY <3>1, <3>3 DEF Starts
    <3>7. Timed(c)'
      BY <3>2, <3>3, <3>4, <3>5, <3>6 DEF Timed
    <3> QED BY <3>2, <3>3, <3>7, TimedFrame
  <2>2. CASE ~Expected(c, k)
    BY <1>2, <2>2, TimedCalmer DEF HandleAnswer
  <2> QED BY <2>1, <2>2
<1>3. CASE HandleEnd(c)
  <2>1. CASE Over(c, {})
    BY <1>3, <2>1, TimedOver DEF HandleEnd, history
  <2>2. CASE UNCHANGED <<machine, browser>>
    BY <1>3, <2>2, TimedCalmer DEF HandleEnd, history, machine
  <2> QED BY <1>3, <2>1, <2>2 DEF HandleEnd
<1> QED BY <1>1, <1>2, <1>3 DEF Poll

LEMMA TimedEvent ==
  ASSUME TypeInv, TimedInv, NEW c \in Client,
         AnswerTimeout(c) \/ IdleReset(c) \/ Connected(c) \/ Failed(c)
  PROVE  TimedInv'
<1>1. CASE AnswerTimeout(c)
  BY <1>1, TimedOver DEF AnswerTimeout, EndCall, history
<1>2. CASE IdleReset(c)
  <2>1. /\ state'[c] = Without("idle") /\ UNCHANGED <<timer, armed, tasks, answered, used>>
        /\ \A d \in Client \ {c} : state'[d] = state[d]
    BY <1>2 DEF IdleReset, Become, history, TypeInv, TypeOK
  <2>2. ~Rings(c)'
    BY <2>1, StateType DEF Rings
  <2> QED BY <2>1, <2>2, TimedCalmer
<1>3. CASE Connected(c)
  <2>1. UNCHANGED <<timer, tasks, answered, used>>
    BY <1>3 DEF Connected, history
  <2>2. CASE UNCHANGED <<armed, state>>
    BY <2>1, <2>2, TimedCalmer
  <2>3. CASE /\ armed' = [armed EXCEPT ![c] = @ \ {timer[c]}]
             /\ Become(c, InCall("connected", pc[c].call, state[c].stream))
    <3>1. /\ armed'[c] \subseteq armed[c] /\ state'[c].status = "connected"
          /\ \A d \in Client \ {c} : state'[d] = state[d] /\ armed'[d] = armed[d]
      BY <2>3 DEF Become, InCall, TypeInv, TypeOK
    <3> QED BY <2>1, <3>1, TimedCalmer DEF Rings
  <2> QED BY <1>3, <2>2, <2>3 DEF Connected, ClearTimer
<1>4. CASE Failed(c)
  BY <1>4, TimedOver DEF Failed, EndCall, history
<1> QED BY <1>1, <1>2, <1>3, <1>4

LEMMA TimedSend ==
  ASSUME TypeInv, TimedInv, NEW c \in Client, Deliver(c) \/ Lose(c)
  PROVE  TimedInv'
<1>1. UNCHANGED <<state, timer, armed, answered, used>>
  BY DEF Deliver, Lose, machine, history
<1>2. tasks'[c] \subseteq tasks[c] /\ \A d \in Client \ {c} : tasks'[d] = tasks[d]
  BY DEF Deliver, Lose, TypeInv, TypeOK
<1> QED BY <1>1, <1>2, TimedCalmer

LEMMA TimedNext == TypeInv /\ TimedInv /\ [Next]_vars => TimedInv'
<1> SUFFICES ASSUME TypeInv, TimedInv, [Next]_vars PROVE TimedInv'
  OBVIOUS
<1>1. CASE UNCHANGED vars
  BY <1>1 DEF TimedInv, Timed, Starts, Rings, vars, machine, history
<1>2. CASE Next
  BY <1>2, TimedUser, TimedGoesOn, TimedPoll, TimedEvent, TimedSend DEF Next
<1> QED BY <1>1, <1>2

LEMMA TimedInvariant == Spec => []TimedInv
BY TypeInvariant, TimedInit, TimedNext, PTL DEF Spec

(***************************************************************************)
(* A call that rings out ends by itself or was answered, however many      *)
(* calls are started at once and whatever the peer sends: answerTimer may  *)
(* be overwritten by another call's, but the call's own is still armed.    *)
(***************************************************************************)
THEOREM RingsTimed == Spec => []RingHasDeadline
<1>1. TimedInv => RingHasDeadline
  BY DEF TimedInv, Timed, Rings, RingHasDeadline
<1> QED BY <1>1, TimedInvariant, PTL

(***************************************************************************)
(* A call that was answered does not end at its own timeout: the answer    *)
(* clears the call's own timer, and nothing arms it again.  The timer of   *)
(* an earlier call, which answerTimer no longer names, may still end it.   *)
(***************************************************************************)
THEOREM AnswerStopsTimer == Spec => []NoLateTimeout
<1>1. TimedInv => NoLateTimeout
  BY DEF TimedInv, Timed, NoLateTimeout
<1> QED BY <1>1, TimedInvariant, PTL

-----------------------------------------------------------------------------
(***************************************************************************)
(* Every call id there is anywhere is of a call that was started; a call   *)
(* of handleCallSignal that handles an answer is at one of its own awaits. *)
(***************************************************************************)
KnownCalls(c) ==
  /\ offer[c] # None => offer[c] \in used
  /\ state[c].status \notin {"idle", "ended"} => state[c].call \in used
  /\ pc[c] # NoConnection => pc[c].call \in used
  /\ \A t \in tasks[c] : t.call \in used /\ (t.op = "answer" => t.step \in {"remote", "ice"})
  /\ \A m \in out[c] : m.call \in used
  /\ refused[c] \subseteq used

KnownInv ==
  /\ \A c \in Client : KnownCalls(c)
  /\ \A c \in Client : \A i \in DOMAIN net[c] : net[c][i].call \in used

(***************************************************************************)
(* What is on its way: in a set of sends, or in a queue, where an offer    *)
(* can only be the first.                                                  *)
(***************************************************************************)
Sends(o, kind) == \E m \in o : m.kind = kind
Has(s, kind) == \E i \in DOMAIN s : s[i].kind = kind
OfferFirst(s) == \A i \in DOMAIN s : s[i].kind = "offer" => i = 1

(* Client e has not heard of the call of client d. *)
Untouched(d, e) ==
  /\ tasks[e] = {} /\ state[e].status = "idle" /\ offer[e] = None /\ pc[e].link = "new"
  /\ out[e] = {} /\ net[d] = <<>>
  /\ answered[d] = {}

(* Client d has called client e, and nobody else has called anybody. *)
Roles(d, e) ==
  /\ offer[d] = None /\ state[d].status # "incoming-ringing"
  /\ \A t \in tasks[d] : t.op # "accept"
  /\ ~Sends(out[d], "answer") /\ ~Has(net[e], "answer")
  /\ armed[e] = {} /\ state[e].status # "outgoing-ringing"
  /\ \A t \in tasks[e] : t.op = "accept"
  /\ \A t \in tasks[d] : t.op = "answer" => answered[d] # {}
  /\ ~Sends(out[e], "offer") /\ ~Has(net[d], "offer")

(* What d has and has sent until startCall returns *)
Dialing(d, e) ==
  \A t \in Starts(d) :
    /\ tasks[d] = {t} /\ t.id = t.stream
    /\ state[d].status \in {"idle", "ended"} /\ pc[d].link \in {"new", "local"} /\ ~reset[d]
    /\ ~Sends(out[d], "end") /\ ~Has(net[e], "end")
    /\ t.step # "media" => pc[d].id = t.id /\ t.id \in open[d]
    /\ t.step # "send" => out[d] = {} /\ net[e] = <<>> /\ Untouched(d, e)

(* There is one offer, e has not heard of the call before it polls it, and no *)
(* call-end can overtake it, as startCall waits for it to be sent.            *)
Offering(d, e) ==
  /\ \A m \in out[d] :
       m.kind = "offer" => \E t \in Starts(d) : t.step = "send" /\ m.id = t.id /\ m.call = t.call
  /\ Sends(out[d], "offer") => ~Has(net[e], "offer")
  /\ Sends(out[d], "offer") \/ Has(net[e], "offer") => Untouched(d, e)
  /\ OfferFirst(net[e])

(* The caller's ringing: its connection and stream are those of the call, and *)
(* an answer is being worked at, unless the connection refused it.            *)
RingsOut(d) ==
  Rings(d) =>
    /\ ~reset[d] /\ state[d].stream = pc[d].id /\ pc[d].id \in open[d]
    /\ \A t \in tasks[d] : t.op = "answer" => t.id = pc[d].id /\ t.stream = pc[d].id
    /\ answered[d] # {} => refused[d] # {} \/ \E t \in tasks[d] : t.op = "answer"

(* The callee's ringing: acceptCall sends an answer before it stops it, and a *)
(* call-end comes after it.                                                   *)
Accepting(e) == \E t \in tasks[e] : t.op = "accept" /\ t.step = "send"
Answering(d, e) ==
  Sends(out[e], "answer") \/ Has(net[d], "answer") \/ answered[d] # {}
RingsIn(d, e) ==
  state[e].status = "incoming-ringing" =>
    /\ offer[e] # None
    /\ ~Sends(out[e], "end") /\ ~Has(net[d], "end")
    /\ Answering(d, e) => Accepting(e)

(* While e rings, or is about to, d rings or is about to, unless one of them *)
(* has already done what ends the ringing of e.                              *)
Together(d, e) ==
  Has(net[e], "offer") \/ state[e].status = "incoming-ringing" =>
    \/ Starts(d) # {} \/ Rings(d)
    \/ Sends(out[d], "end") \/ Has(net[e], "end")
    \/ Accepting(e)

Lone(d, e) ==
  /\ used # {}
  /\ Roles(d, e) /\ Dialing(d, e) /\ Offering(d, e)
  /\ RingsOut(d) /\ RingsIn(d, e) /\ Together(d, e)

(* Before the first call *)
Blank ==
  /\ used = {}
  /\ \A c \in Client :
       /\ tasks[c] = {} /\ out[c] = {} /\ net[c] = <<>> /\ offer[c] = None
       /\ state[c].status = "idle" /\ pc[c].link = "new" /\ ~reset[c]

LoneInv == Undisturbed => Blank \/ \E d \in Client : Lone(d, Peer(d))

(* The two clients *)
Pair(d, e) == d \in Client /\ e \in Client /\ d # e /\ Client = {d, e} /\ Peer(d) = e /\ Peer(e) = d

-----------------------------------------------------------------------------
(* What a step of client c leaves alone of another client. *)
Same(d) ==
  /\ state'[d] = state[d] /\ pc'[d] = pc[d] /\ offer'[d] = offer[d]
  /\ armed'[d] = armed[d] /\ reset'[d] = reset[d] /\ open'[d] = open[d]
  /\ tasks'[d] = tasks[d] /\ out'[d] = out[d]
  /\ answered'[d] = answered[d] /\ refused'[d] = refused[d]

(* A sequence without its first element, and with one more. *)
LEMMA TailAt ==
  ASSUME NEW S, NEW s \in Seq(S), s # <<>>
  PROVE  /\ 1 \in DOMAIN s /\ Head(s) = s[1] /\ Head(s) \in S
         /\ \A i \in DOMAIN Tail(s) : i \in Nat \ {0} /\ i + 1 \in DOMAIN s /\ Tail(s)[i] = s[i + 1]
         /\ \A i \in DOMAIN s : i = 1 \/ (i - 1 \in DOMAIN Tail(s) /\ Tail(s)[i - 1] = s[i])
  OBVIOUS

LEMMA AppendAt ==
  ASSUME NEW S, NEW s \in Seq(S), NEW e \in S
  PROVE  /\ \A i \in DOMAIN s : i \in DOMAIN Append(s, e) /\ Append(s, e)[i] = s[i]
         /\ \A i \in DOMAIN Append(s, e) :
              (i \in DOMAIN s /\ Append(s, e)[i] = s[i]) \/ (i = Len(s) + 1 /\ Append(s, e)[i] = e)
         /\ Len(s) + 1 \in DOMAIN Append(s, e) /\ Append(s, e)[Len(s) + 1] = e
  OBVIOUS

(* cleanup, what follows it, and endCall, client by client *)
LEMMA CleanupAt ==
  ASSUME TypeInv, NEW c \in Client, NEW fired, Cleanup(c, fired)
  PROVE  /\ pc'[c] = NoConnection /\ offer'[c] = None /\ armed'[c] \subseteq armed[c]
         /\ \A d \in Client \ {c} :
              /\ pc'[d] = pc[d] /\ offer'[d] = offer[d] /\ armed'[d] = armed[d] /\ open'[d] = open[d]
  BY DEF TypeInv, TypeOK, Cleanup, ClearTimer

LEMMA OverAt ==
  ASSUME TypeInv, NEW c \in Client, NEW fired, Over(c, fired)
  PROVE  /\ pc'[c] = NoConnection /\ offer'[c] = None /\ armed'[c] \subseteq armed[c]
         /\ state'[c].status = "ended"
         /\ \A d \in Client \ {c} :
              /\ pc'[d] = pc[d] /\ offer'[d] = offer[d] /\ armed'[d] = armed[d] /\ open'[d] = open[d]
              /\ state'[d] = state[d] /\ reset'[d] = reset[d]
  BY CleanupAt, StateType DEF TypeInv, TypeOK, Over, Become

LEMMA EndCallAt ==
  ASSUME TypeInv, NEW c \in Client, NEW k, NEW fired, EndCall(c, k, fired),
         UNCHANGED <<tasks, net, history>>
  PROVE  /\ Over(c, fired)
         /\ out'[c] = out[c] \cup {[kind |-> "end", call |-> k, id |-> 0]}
         /\ UNCHANGED <<tasks, net, answered, refused, used>>
         /\ \A d \in Client \ {c} : Same(d)
  BY OverAt DEF TypeInv, TypeOK, EndCall, Post, history, Same

(* The steps of an activation, and of a state, client by client *)
LEMMA TaskAt ==
  ASSUME TypeInv, NEW c \in Client, NEW t
  PROVE  /\ Begin(c, t) => tasks'[c] = tasks[c] \cup {t}
         /\ End(c, t) => tasks'[c] = tasks[c] \ {t}
         /\ \A s : Goto(c, t, s) => tasks'[c] = (tasks[c] \ {t}) \cup {[t EXCEPT !.step = s]}
         /\ \A d \in Client \ {c} :
              Begin(c, t) \/ End(c, t) \/ (\E s : Goto(c, t, s)) => tasks'[d] = tasks[d]
  BY DEF TypeInv, TypeOK, Begin, End, Goto

LEMMA TaskType ==
  ASSUME TypeInv, NEW c \in Client, NEW t \in tasks[c]
  PROVE  /\ t \in Activation /\ t.id # 0
         /\ \A s : /\ [t EXCEPT !.step = s].step = s
                   /\ \A u : u = [t EXCEPT !.step = s] =>
                        u.op = t.op /\ u.call = t.call /\ u.id = t.id /\ u.stream = t.stream
  BY DEF TypeInv, TypeOK, Named, Activation

LEMMA BecomeAt ==
  ASSUME TypeInv, NEW c \in Client, NEW s, Become(c, s)
  PROVE  state'[c] = s /\ \A d \in Client \ {c} : state'[d] = state[d]
  BY DEF TypeInv, TypeOK, Become

LEMMA LinkAt ==
  ASSUME TypeInv, NEW c \in Client, NEW t, t.id # 0, NEW l \in Link,
         Described(c, t, l) \/ SetAnswer(c, t)
  PROVE  /\ pc'[c].id = pc[c].id /\ pc'[c].call = pc[c].call
         /\ pc[c] = NoConnection => pc'[c] = NoConnection
         /\ pc'[c].link \in {pc[c].link, l} \/ SetAnswer(c, t)
         /\ \A d \in Client \ {c} : pc'[d] = pc[d]
<1>1. CASE pc' = pc
  BY <1>1
<1>2. CASE pc' # pc
  BY <1>2, DescribedAt DEF TypeInv, TypeOK
<1> QED BY <1>1, <1>2

LEMMA LinkType == {"local", "remote", "both"} \subseteq Link
BY DEF Link

(* The poll that handles the answer stops. *)
LEMMA RefuseAt ==
  ASSUME TypeInv, NEW c \in Client, NEW t \in tasks[c], Refuse(c, t)
  PROVE  /\ refused'[c] \subseteq refused[c] \cup {t.call}
         /\ refused[c] \subseteq refused'[c]
         /\ t.id \in open[c] => t.call \in refused'[c]
         /\ \A i \in DOMAIN net'[c] : \E j \in DOMAIN net[c] : net'[c][i] = net[c][j]
         /\ \A d \in Client \ {c} : refused'[d] = refused[d] /\ net'[d] = net[d]
<1>1. PICK n \in 0 .. Len(net[c]) : net' = [net EXCEPT ![c] = SubSeq(@, n + 1, Len(@))]
  BY DEF Refuse, Skip
<1>2. net[c] \in Seq(Envelope) /\ net'[c] = SubSeq(net[c], n + 1, Len(net[c]))
  BY <1>1 DEF TypeInv, TypeOK
<1>3. \A i \in DOMAIN net'[c] : \E j \in DOMAIN net[c] : net'[c][i] = net[c][j]
  BY <1>2, SkipAt
<1>4. refused' = [refused EXCEPT ![c] = IF t.id \in open[c] THEN @ \cup {t.call} ELSE @]
  BY DEF Refuse, Settles
<1> QED BY <1>1, <1>3, <1>4 DEF TypeInv, TypeOK

-----------------------------------------------------------------------------
LEMMA KnownInit == Init => KnownInv
BY DEF Init, KnownInv, KnownCalls, Without

(* A step of one client leaves what the other knows. *)
LEMMA KnownFrame ==
  ASSUME KnownInv, NEW c \in Client, used \subseteq used', KnownCalls(c)',
         \A d \in Client \ {c} : Same(d),
         \A d \in Client : \A i \in DOMAIN net'[d] : net'[d][i].call \in used
  PROVE  KnownInv'
<1>1. ASSUME NEW d \in Client \ {c} PROVE KnownCalls(d)'
  <2>1. KnownCalls(d)
    BY DEF KnownInv
  <2> QED BY <2>1 DEF KnownCalls, Same
<1> QED BY <1>1 DEF KnownInv

(* Polling takes what was queued. *)
LEMMA KnownSignal ==
  ASSUME TypeInv, KnownInv, NEW c \in Client, NEW kind, Signal(c, kind), Consume(c)
  PROVE  /\ Head(net[c]).call \in used
         /\ \A d \in Client : \A i \in DOMAIN net'[d] : net'[d][i].call \in used
<1>1. net[c] \in Seq(Envelope) /\ net[c] # <<>> /\ net' = [net EXCEPT ![c] = Tail(@)]
  BY DEF TypeInv, TypeOK, Signal, Consume
<1>2. \A d \in Client \ {c} : net'[d] = net[d]
  BY <1>1 DEF TypeInv, TypeOK
<1>3. net'[c] = Tail(net[c])
  BY <1>1 DEF TypeInv, TypeOK
<1>4. Head(net[c]).call \in used
  BY <1>1, TailAt DEF KnownInv
<1>5. \A i \in DOMAIN Tail(net[c]) : Tail(net[c])[i].call \in used
  BY <1>1, TailAt DEF KnownInv
<1> QED BY <1>2, <1>3, <1>4, <1>5 DEF KnownInv

(* Hanging up and the like send the id of a known call. *)
LEMMA KnownOver ==
  ASSUME TypeInv, KnownInv, NEW c \in Client, NEW fired, Over(c, fired),
         UNCHANGED <<tasks, used, refused>>, \A d \in Client \ {c} : Same(d),
         \A m \in out'[c] : m.call \in used,
         \A d \in Client : \A i \in DOMAIN net'[d] : net'[d][i].call \in used
  PROVE  KnownInv'
<1>1. KnownCalls(c)'
  BY OverAt DEF KnownInv, KnownCalls
<1> QED BY <1>1, KnownFrame

LEMMA KnownEndCall ==
  ASSUME TypeInv, KnownInv, NEW c \in Client, NEW k \in used, NEW fired, EndCall(c, k, fired),
         UNCHANGED <<tasks, net, history>>
  PROVE  KnownInv'
<1>1. \A m \in out'[c] : m.call \in used
  BY EndCallAt DEF KnownInv, KnownCalls
<1>2. \A d \in Client : \A i \in DOMAIN net'[d] : net'[d][i].call \in used
  BY EndCallAt DEF KnownInv
<1> QED BY <1>1, <1>2, EndCallAt, KnownOver

(* A step that leaves the queues alone and starts no call. *)
LEMMA KnownStep ==
  ASSUME KnownInv, NEW c \in Client, UNCHANGED <<net, used>>, KnownCalls(c)',
         \A d \in Client \ {c} : Same(d)
  PROVE  KnownInv'
<1>1. \A d \in Client : \A i \in DOMAIN net'[d] : net'[d][i].call \in used
  BY DEF KnownInv
<1> QED BY <1>1, KnownFrame

LEMMA KnownUser ==
  ASSUME TypeInv, KnownInv, NEW c \in Client, User(c)
  PROVE  KnownInv'
<1> KnownCalls(c)
  BY DEF KnownInv
<1>1. CASE StartCall(c)
  <2>1. PICK k : Click(c, "start", k) /\ used' = used \cup {k}
    BY <1>1 DEF StartCall
  <2>2. PICK t : t.call = k /\ t.op = "start" /\ Begin(c, t)
    BY <2>1 DEF Click
  <2>3. Cleanup(c, {}) /\ UNCHANGED <<state, reset, out, net, answered, refused>>
    BY <1>1 DEF StartCall, wire
  <2>4. KnownCalls(c)'
    BY <2>1, <2>2, <2>3, TaskAt, CleanupAt DEF KnownCalls
  <2>5. \A d \in Client \ {c} : Same(d)
    BY <2>2, <2>3, TaskAt, CleanupAt DEF Same
  <2>6. \A d \in Client : \A i \in DOMAIN net'[d] : net'[d][i].call \in used
    BY <2>3 DEF KnownInv
  <2> QED BY <2>1, <2>4, <2>5, <2>6, KnownFrame
<1>2. CASE AcceptCall(c)
  <2>1. PICK t : t.call = offer[c] /\ t.op = "accept" /\ Begin(c, t)
    BY <1>2 DEF AcceptCall, Click
  <2>2. offer[c] \in used /\ UNCHANGED <<state, pc, offer, armed, reset, out, net, open, used, answered, refused>>
    BY <1>2 DEF AcceptCall, machine, wire, browser, KnownCalls
  <2>3. KnownCalls(c)' /\ \A d \in Client \ {c} : Same(d)
    BY <2>1, <2>2, TaskAt DEF KnownCalls, Same
  <2> QED BY <2>2, <2>3, KnownStep
<1>3. CASE DeclineCall(c)
  BY <1>3, KnownEndCall DEF DeclineCall, KnownCalls
<1>4. CASE HangUp(c)
  BY <1>4, KnownEndCall DEF HangUp, Offered, KnownCalls
<1> QED BY <1>1, <1>2, <1>3, <1>4 DEF User

(* What every step of an activation leaves alone *)
LEMMA GoesOnAt ==
  ASSUME TypeInv, NEW c \in Client, NEW t \in tasks[c], GoesOn(c, t)
  PROVE  /\ UNCHANGED <<reset, used, answered, losses>>
         /\ \/ End(c, t)
            \/ \E s : /\ Goto(c, t, s)
                      /\ t.op = "answer" /\ t.step # "media" /\ t.step # "local" => s = "ice"
         /\ \A d \in Client \ {c} : Same(d) /\ net'[d] = net[d]
         /\ (Refuse(c, t) /\ t.op = "answer") \/ UNCHANGED <<net, refused>>
<1>0. \/ End(c, t)
      \/ \E s : /\ Goto(c, t, s)
                /\ t.op = "answer" /\ t.step # "media" /\ t.step # "local" => s = "ice"
  BY DEF GoesOn, Media, Denied, AcceptRemote, Local, StartSent, AcceptSent, AnswerRemote,
         AnswerReady, Refuse
<1>1. End(c, t) \/ \E s : Goto(c, t, s)
  BY <1>0
<1>2. \A d \in Client \ {c} : tasks'[d] = tasks[d]
  BY <1>1, TaskAt
<1>3. t.id # 0
  BY TaskType
<1>4. CASE Media(c, t)
  BY <1>1, <1>2, <1>4 DEF Media, wire, history, Same, TypeInv, TypeOK
<1>5. CASE Denied(c, t)
  BY <1>1, <1>2, <1>5 DEF Denied, machine, wire, browser, history, Same
<1>6. CASE AcceptRemote(c, t) \/ Local(c, t)
  <2>1. \A d \in Client \ {c} : pc'[d] = pc[d]
    BY <1>3, <1>6, LinkAt, LinkType DEF AcceptRemote, Local
  <2>2. \A d \in Client \ {c} : out'[d] = out[d]
    BY <1>6 DEF AcceptRemote, Local, Post, wire, TypeInv, TypeOK
  <2> QED BY <1>1, <1>2, <1>6, <2>1, <2>2 DEF AcceptRemote, Local, wire, browser, history, Same
<1>7. CASE StartSent(c, t)
  <2>1. \A d \in Client \ {c} : state'[d] = state[d] /\ armed'[d] = armed[d]
    BY <1>7, BecomeAt DEF StartSent, ArmTimer, TypeInv, TypeOK
  <2> QED BY <1>1, <1>2, <1>7, <2>1 DEF StartSent, wire, browser, history, Same
<1>8. CASE AcceptSent(c, t)
  <2>1. \A d \in Client \ {c} : state'[d] = state[d] /\ offer'[d] = offer[d]
    BY <1>8, BecomeAt DEF AcceptSent, TypeInv, TypeOK
  <2> QED BY <1>1, <1>2, <1>8, <2>1 DEF AcceptSent, wire, browser, history, Same
<1>9. CASE AnswerRemote(c, t) \/ AnswerReady(c, t)
  <2>1. /\ UNCHANGED <<offer, timer, armed, reset, out, browser, media, used, answered, losses>>
        /\ t.op = "answer"
    BY <1>9 DEF AnswerRemote, AnswerReady
  <2>2. CASE Refuse(c, t)
    BY <1>0, <1>2, <2>1, <2>2, RefuseAt DEF Refuse, browser, Same
  <2>3. CASE ~Refuse(c, t)
    <3>1. UNCHANGED <<net, refused>>
      BY <1>9, <2>3 DEF AnswerRemote, AnswerReady
    <3>2. \A d \in Client \ {c} : pc'[d] = pc[d] /\ state'[d] = state[d]
      BY <1>3, <1>9, <2>3, LinkAt, LinkType, BecomeAt DEF AnswerRemote, AnswerReady
    <3> QED BY <1>0, <1>2, <2>1, <3>1, <3>2 DEF browser, Same
  <2> QED BY <2>2, <2>3
<1> QED BY <1>0, <1>4, <1>5, <1>6, <1>7, <1>8, <1>9 DEF GoesOn

LEMMA KnownGoesOn ==
  ASSUME TypeInv, KnownInv, NEW c \in Client, NEW t \in tasks[c], GoesOn(c, t)
  PROVE  KnownInv'
<1>1. KnownCalls(c) /\ t.call \in used /\ t.id # 0
  BY TaskType DEF KnownInv, KnownCalls
<1>2. UNCHANGED used /\ \A d \in Client \ {c} : Same(d)
  BY GoesOnAt
<1>3. \A u \in tasks'[c] : u.call \in used /\ (u.op = "answer" => u.step \in {"remote", "ice"})
  <2>1. CASE End(c, t)
    BY <1>1, <2>1, TaskAt DEF KnownCalls
  <2>2. ASSUME NEW s, Goto(c, t, s), t.op = "answer" => s = "ice"
      PROVE  \A u \in tasks'[c] : u.call \in used /\ (u.op = "answer" => u.step \in {"remote", "ice"})
    <3> DEFINE r == [t EXCEPT !.step = s]
    <3>1. r.call = t.call /\ r.op = t.op /\ r.step = s
      BY TaskType
    <3>2. tasks'[c] = (tasks[c] \ {t}) \cup {r}
      BY <2>2, TaskAt
    <3> HIDE DEF r
    <3> QED BY <1>1, <2>2, <3>1, <3>2 DEF KnownCalls
  <2>3. t.op = "answer" => t.step # "media" /\ t.step # "local"
    BY <1>1 DEF KnownCalls
  <2> QED BY <2>1, <2>2, <2>3, GoesOnAt
<1>4. refused'[c] \subseteq used
  BY <1>1, GoesOnAt, RefuseAt DEF KnownCalls
<1>5. \A d \in Client : \A i \in DOMAIN net'[d] : net'[d][i].call \in used
  BY GoesOnAt, RefuseAt DEF KnownInv
<1> SUFFICES /\ offer'[c] # None => offer'[c] \in used
             /\ state'[c].status \notin {"idle", "ended"} => state'[c].call \in used
             /\ pc'[c] # NoConnection => pc'[c].call \in used
             /\ \A m \in out'[c] : m.call \in used
  BY <1>2, <1>3, <1>4, <1>5, KnownFrame DEF KnownCalls
<1> USE DEF KnownCalls
<1>6. CASE Media(c, t)
  <2>1. pc'[c].call = t.call
    BY <1>6 DEF Media, TypeInv, TypeOK
  <2> QED BY <1>1, <1>6, <2>1 DEF Media, wire
<1>7. CASE Denied(c, t)
  BY <1>1, <1>7 DEF Denied, machine, wire
<1>8. CASE AcceptRemote(c, t) \/ Local(c, t)
  <2>1. \A m \in out'[c] : m \in out[c] \/ m.call = t.call
    BY <1>8 DEF AcceptRemote, Local, Post, wire, TypeInv, TypeOK
  <2>2. pc'[c].call = pc[c].call /\ (pc[c] = NoConnection => pc'[c] = NoConnection)
    BY <1>1, <1>8, LinkAt, LinkType DEF AcceptRemote, Local
  <2> QED BY <1>1, <1>8, <2>1, <2>2 DEF AcceptRemote, Local
<1>9. CASE StartSent(c, t)
  <2>1. state'[c].call = t.call
    BY <1>9, BecomeAt DEF StartSent, InCall
  <2> QED BY <1>1, <1>9, <2>1 DEF StartSent, wire
<1>10. CASE AcceptSent(c, t)
  <2>1. state'[c].call = t.call /\ offer'[c] = None
    BY <1>10, BecomeAt DEF AcceptSent, InCall, TypeInv, TypeOK
  <2> QED BY <1>1, <1>10, <2>1 DEF AcceptSent, wire
<1>11. CASE AnswerRemote(c, t) \/ AnswerReady(c, t)
  <2>1. pc'[c].call = pc[c].call /\ (pc[c] = NoConnection => pc'[c] = NoConnection)
    BY <1>1, <1>11, LinkAt, LinkType DEF AnswerRemote, AnswerReady, Refuse
  <2>2. state'[c].call = t.call \/ UNCHANGED state
    BY <1>11, BecomeAt DEF AnswerRemote, AnswerReady, Refuse, InCall
  <2> QED BY <1>1, <1>11, <2>1, <2>2 DEF AnswerRemote, AnswerReady
<1> QED BY <1>6, <1>7, <1>8, <1>9, <1>10, <1>11 DEF GoesOn

LEMMA KnownPoll ==
  ASSUME TypeInv, KnownInv, NEW c \in Client, Poll(c)
  PROVE  KnownInv'
<1>1. KnownCalls(c)
  BY DEF KnownInv
<1>2. /\ Head(net[c]).call \in used
      /\ \A d \in Client : \A i \in DOMAIN net'[d] : net'[d][i].call \in used
  BY KnownSignal DEF Poll, HandleOffer, HandleAnswer, HandleEnd
<1>3. CASE HandleOffer(c)
  <2>1. UNCHANGED <<pc, armed, reset, tasks, out, open, used, answered, refused>>
    BY <1>3 DEF HandleOffer, browser, history
  <2>2. /\ offer'[c] \in used \/ UNCHANGED offer
        /\ state'[c].call \in used \/ UNCHANGED state
        /\ \A d \in Client \ {c} : state'[d] = state[d] /\ offer'[d] = offer[d]
    BY <1>2, <1>3, BecomeAt DEF HandleOffer, InCall, TypeInv, TypeOK
  <2>3. KnownCalls(c)' /\ \A d \in Client \ {c} : Same(d)
    BY <1>1, <2>1, <2>2 DEF KnownCalls, Same
  <2> QED BY <1>2, <2>1, <2>3, KnownFrame
<1>4. CASE HandleAnswer(c)
  <2>1. UNCHANGED <<state, pc, offer, reset, out, open, used, refused>>
    BY <1>4 DEF HandleAnswer, browser
  <2>2. /\ \A d \in Client \ {c} : armed'[d] = armed[d] /\ answered'[d] = answered[d]
        /\ \A u \in tasks'[c] : u \in tasks[c] \/ (u.call \in used /\ u.step = "remote")
        /\ \A d \in Client \ {c} : tasks'[d] = tasks[d]
    BY <1>2, <1>4, TaskAt DEF HandleAnswer, ClearTimer, TypeInv, TypeOK
  <2>3. KnownCalls(c)' /\ \A d \in Client \ {c} : Same(d)
    BY <1>1, <2>1, <2>2 DEF KnownCalls, Same
  <2> QED BY <1>2, <2>1, <2>3, KnownFrame
<1>5. CASE HandleEnd(c)
  <2>1. UNCHANGED <<tasks, out, used, answered, refused>>
    BY <1>5 DEF HandleEnd, history
  <2>2. CASE Over(c, {})
    <3>1. \A d \in Client \ {c} : Same(d)
      BY <2>1, <2>2, OverAt DEF Same
    <3> QED BY <1>1, <1>2, <2>1, <2>2, <3>1, KnownOver DEF KnownCalls
  <2>3. CASE UNCHANGED <<machine, browser>>
    <3>1. KnownCalls(c)' /\ \A d \in Client \ {c} : Same(d)
      BY <1>1, <2>1, <2>3 DEF KnownCalls, Same, machine, browser
    <3> QED BY <1>2, <2>1, <3>1, KnownFrame
  <2> QED BY <1>5, <2>2, <2>3 DEF HandleEnd
<1> QED BY <1>3, <1>4, <1>5 DEF Poll

LEMMA KnownEvent ==
  ASSUME TypeInv, TimedInv, KnownInv, NEW c \in Client,
         AnswerTimeout(c) \/ IdleReset(c) \/ Connected(c) \/ Failed(c)
  PROVE  KnownInv'
<1>1. KnownCalls(c) /\ armed[c] \subseteq used
  BY DEF KnownInv, TimedInv, Timed
<1>2. CASE AnswerTimeout(c)
  BY <1>1, <1>2, KnownEndCall DEF AnswerTimeout
<1>3. CASE IdleReset(c)
  <2>1. UNCHANGED <<pc, offer, armed, tasks, out, net, open, used, answered, refused>>
    BY <1>3 DEF IdleReset, wire, browser, history
  <2>2. /\ state'[c].status = "idle"
        /\ \A d \in Client \ {c} : state'[d] = state[d] /\ reset'[d] = reset[d]
    BY <1>3, BecomeAt, StateType DEF IdleReset, TypeInv, TypeOK
  <2>3. KnownCalls(c)' /\ \A d \in Client \ {c} : Same(d)
    BY <1>1, <2>1, <2>2 DEF KnownCalls, Same
  <2> QED BY <2>1, <2>3, KnownStep
<1>4. CASE Connected(c)
  <2>1. UNCHANGED <<offer, reset, tasks, out, net, open, used, answered, refused>>
    BY <1>4 DEF Connected, wire, browser, history
  <2>2. pc[c] # NoConnection
    BY <1>4 DEF Connected, NoConnection
  <2>3. /\ pc'[c].call = pc[c].call
        /\ \A d \in Client \ {c} : pc'[d] = pc[d]
    BY <1>4 DEF Connected, TypeInv, TypeOK, Connection
  <2>4. /\ state'[c].call = pc[c].call \/ UNCHANGED state
        /\ \A d \in Client \ {c} : state'[d] = state[d] /\ armed'[d] = armed[d]
    BY <1>4, BecomeAt DEF Connected, ClearTimer, InCall, TypeInv, TypeOK
  <2>5. KnownCalls(c)' /\ \A d \in Client \ {c} : Same(d)
    BY <1>1, <2>1, <2>2, <2>3, <2>4 DEF KnownCalls, Same
  <2> QED BY <2>1, <2>5, KnownStep
<1>5. CASE Failed(c)
  <2>1. pc[c].call \in used
    BY <1>1, <1>5 DEF Failed, NoConnection, KnownCalls
  <2> QED BY <1>5, <2>1, KnownEndCall DEF Failed
<1> QED BY <1>2, <1>3, <1>4, <1>5

(* A send moves an envelope to the peer's queue, or loses it; a poll that *)
(* fails loses envelopes.                                                  *)
LEMMA SendAt ==
  ASSUME TypeInv, NEW c \in Client, Deliver(c) \/ Lose(c)
  PROVE  /\ UNCHANGED <<state, pc, offer, armed, reset, open, used, answered, refused>>
         /\ tasks'[c] \subseteq tasks[c]
         /\ out'[c] \subseteq out[c]
         /\ \A d \in Client \ {c} : Same(d)
         /\ \A d \in Client : \A i \in DOMAIN net'[d] :
              \/ \E j \in DOMAIN net[d] : net'[d][i] = net[d][j]
              \/ net'[d][i] \in out[c]
<1>1. /\ UNCHANGED <<state, pc, offer, armed, reset, open, used, answered, refused>>
      /\ tasks'[c] \subseteq tasks[c]
      /\ \A d \in Client \ {c} : tasks'[d] = tasks[d]
  BY DEF Deliver, Lose, machine, browser, history, TypeInv, TypeOK
<1>2. out'[c] \subseteq out[c] /\ \A d \in Client \ {c} : out'[d] = out[d]
  BY DEF Deliver, Lose, TypeInv, TypeOK
<1>3. ASSUME NEW d \in Client, NEW i \in DOMAIN net'[d]
      PROVE  (\E j \in DOMAIN net[d] : net'[d][i] = net[d][j]) \/ net'[d][i] \in out[c]
  <2>1. CASE UNCHANGED net
    BY <1>3, <2>1
  <2>2. ASSUME NEW m \in out[c], net' = [net EXCEPT ![Peer(c)] = Append(@, m)]
        PROVE  (\E j \in DOMAIN net[d] : net'[d][i] = net[d][j]) \/ net'[d][i] \in out[c]
    <3>1. m \in Envelope /\ net[d] \in Seq(Envelope)
      BY DEF TypeInv, TypeOK
    <3>2. net'[d] = net[d] \/ net'[d] = Append(net[d], m)
      BY <2>2 DEF TypeInv, TypeOK
    <3> QED BY <1>3, <3>1, <3>2, AppendAt
  <2>3. ASSUME NEW n \in 1 .. Len(net[c]), Skip(c, n)
        PROVE  \E j \in DOMAIN net[d] : net'[d][i] = net[d][j]
    <3>1. net[c] \in Seq(Envelope) /\ n \in 0 .. Len(net[c])
      BY DEF TypeInv, TypeOK
    <3>2. net'[d] = net[d] \/ (d = c /\ net'[c] = SubSeq(net[c], n + 1, Len(net[c])))
      BY <2>3 DEF Skip, TypeInv, TypeOK
    <3>3. CASE net'[d] = net[d]
      BY <1>3, <3>3
    <3>4. CASE d = c /\ net'[c] = SubSeq(net[c], n + 1, Len(net[c]))
      BY <1>3, <3>1, <3>4, SkipAt
    <3> QED BY <3>2, <3>3, <3>4
  <2> QED BY <2>1, <2>2, <2>3 DEF Deliver, Lose
<1> QED BY <1>1, <1>2, <1>3 DEF Same

LEMMA KnownSend ==
  ASSUME TypeInv, KnownInv, NEW c \in Client, Deliver(c) \/ Lose(c)
  PROVE  KnownInv'
<1>1. \A m \in out[c] : m.call \in used
  BY DEF KnownInv, KnownCalls
<1>2. \A d \in Client : \A i \in DOMAIN net'[d] : net'[d][i].call \in used
  BY <1>1, SendAt DEF KnownInv
<1>3. KnownCalls(c)'
  BY SendAt DEF KnownInv, KnownCalls
<1> QED BY <1>2, <1>3, SendAt, KnownFrame

LEMMA KnownNext == TypeInv /\ TimedInv /\ KnownInv /\ [Next]_vars => KnownInv'
<1> SUFFICES ASSUME TypeInv, TimedInv, KnownInv, [Next]_vars PROVE KnownInv'
  OBVIOUS
<1>1. CASE UNCHANGED vars
  BY <1>1 DEF KnownInv, KnownCalls, vars, machine, wire, history
<1>2. CASE Next
  BY <1>2, KnownUser, KnownGoesOn, KnownPoll, KnownEvent, KnownSend DEF Next
<1> QED BY <1>1, <1>2

LEMMA KnownInvariant == Spec => []KnownInv
BY TypeInvariant, TimedInvariant, KnownInit, KnownNext, PTL DEF Spec

-----------------------------------------------------------------------------
LEMMA Peers ==
  /\ \A c \in Client : Pair(c, Peer(c))
  /\ \A d, e : Pair(d, e) => Pair(e, d) /\ Client \ {d} = {e} /\ Client \ {e} = {d}
<1>1. PICK a, b \in Client : a # b /\ Client = {a, b}
  BY CallAssumption
<1>2. Peer(a) = b /\ Peer(b) = a
  BY <1>1 DEF Peer
<1> QED BY <1>1, <1>2 DEF Pair

(* With one call, every known id is that of the call. *)
LEMMA SameCall ==
  ASSUME Undisturbed, NEW k \in used, NEW l \in used
  PROVE  k = l
  BY DEF Undisturbed

(* What is queued and sent after a step: one more, or one fewer. *)
LEMMA TailHas ==
  ASSUME NEW s \in Seq(Envelope), s # <<>>
  PROVE  /\ \A kind : Has(Tail(s), kind) => Has(s, kind)
         /\ \A kind : Has(s, kind) /\ Head(s).kind # kind => Has(Tail(s), kind)
         /\ Has(s, Head(s).kind)
         /\ OfferFirst(s) => OfferFirst(Tail(s)) /\ ~Has(Tail(s), "offer")
         /\ OfferFirst(s) /\ Has(s, "offer") => Head(s).kind = "offer"
<1>1. OfferFirst(s) => ~Has(Tail(s), "offer")
  BY TailAt DEF Has, OfferFirst
<1>2. \A kind : Has(Tail(s), kind) => Has(s, kind)
  BY TailAt DEF Has
<1>3. ASSUME NEW kind, NEW i \in DOMAIN s, s[i].kind = kind, Head(s).kind # kind
      PROVE  Has(Tail(s), kind)
  <2>1. i # 1
    BY <1>3, TailAt
  <2>2. i - 1 \in DOMAIN Tail(s) /\ Tail(s)[i - 1].kind = kind
    BY <1>3, <2>1, TailAt
  <2> QED BY <2>2 DEF Has
<1>4. Has(s, Head(s).kind)
  BY TailAt DEF Has
<1>5. OfferFirst(s) => OfferFirst(Tail(s))
  BY <1>1 DEF Has, OfferFirst
<1>6. OfferFirst(s) /\ Has(s, "offer") => Head(s).kind = "offer"
  BY TailAt DEF Has, OfferFirst
<1>7. \A kind : Has(s, kind) /\ Head(s).kind # kind => Has(Tail(s), kind)
  BY <1>3 DEF Has
<1> QED BY <1>1, <1>2, <1>4, <1>5, <1>6, <1>7

LEMMA AppendHas ==
  ASSUME NEW s \in Seq(Envelope), NEW m \in Envelope
  PROVE  /\ \A kind : Has(Append(s, m), kind) <=> Has(s, kind) \/ m.kind = kind
         /\ OfferFirst(s) /\ (m.kind = "offer" => s = <<>>) => OfferFirst(Append(s, m))
<1>1. \A kind : Has(Append(s, m), kind) <=> Has(s, kind) \/ m.kind = kind
  BY AppendAt DEF Has
<1>2. s = <<>> => Len(s) + 1 = 1
  OBVIOUS
<1>3. OfferFirst(s) /\ (m.kind = "offer" => s = <<>>) => OfferFirst(Append(s, m))
  BY <1>2, AppendAt DEF OfferFirst
<1> QED BY <1>1, <1>3

LEMMA NothingHas == \A kind : ~Has(<<>>, kind) /\ ~Sends({}, kind)
BY DEF Has, Sends

LEMMA EndSent ==
  ASSUME NEW o, NEW k, NEW p, p = o \cup {[kind |-> "end", call |-> k, id |-> 0]}
  PROVE  Sends(p, "end") /\ \A kind : kind # "end" /\ Sends(p, kind) => Sends(o, kind)
<1> DEFINE m == [kind |-> "end", call |-> k, id |-> 0]
<1>1. m.kind = "end" /\ p = o \cup {m}
  OBVIOUS
<1> HIDE DEF m
<1> QED BY <1>1 DEF Sends

LEMMA MoreSent ==
  ASSUME NEW o, NEW m
  PROVE  /\ \A kind : Sends(o \cup {m}, kind) <=> Sends(o, kind) \/ m.kind = kind
         /\ \A kind : Sends(o \ {m}, kind) => Sends(o, kind)
         /\ \A kind : Sends(o, kind) /\ m.kind # kind => Sends(o \ {m}, kind)
         /\ m \in o => Sends(o, m.kind)
BY DEF Sends

(* The caller's side ends the call: a hang-up, a timeout, a failed connection. *)
LEMMA CallerEnds ==
  ASSUME TypeInv, NEW d, NEW e, Pair(d, e), Lone(d, e), Starts(d) = {},
         NEW k, NEW fired, EndCall(d, k, fired), UNCHANGED <<tasks, net, history>>
  PROVE  Lone(d, e)'
<1>1. /\ Same(e) /\ UNCHANGED <<tasks, net, used, answered, refused>>
      /\ state'[d].status = "ended" /\ pc'[d] = NoConnection /\ offer'[d] = None
      /\ out'[d] = out[d] \cup {[kind |-> "end", call |-> k, id |-> 0]}
  BY EndCallAt, OverAt, Peers DEF Pair
<1>2. Sends(out'[d], "end") /\ \A kind : kind # "end" /\ Sends(out'[d], kind) => Sends(out[d], kind)
  BY <1>1, EndSent
<1>3. Starts(d)' = {} /\ Starts(d)' = Starts(d)
  BY <1>1 DEF Starts
<1> USE <1>1, <1>2, <1>3 DEF Lone
<1>4. Roles(d, e)'
  BY DEF Roles, Same
<1>5. Dialing(d, e)'
  BY DEF Dialing
<1>6. Offering(d, e)'
  <2>1. \A m \in out'[d] : m.kind # "offer"
    BY DEF Offering
  <2> QED BY <2>1 DEF Offering, Untouched, Same, Sends
<1>7. RingsOut(d)'
  BY DEF RingsOut, Rings
<1>8. RingsIn(d, e)'
  BY DEF RingsIn, Same, Answering, Accepting
<1>9. Together(d, e)'
  BY DEF Together
<1> QED BY <1>4, <1>5, <1>6, <1>7, <1>8, <1>9

(* The callee's side ends the call, once it has heard of it. *)
LEMMA CalleeEnds ==
  ASSUME TypeInv, NEW d, NEW e, Pair(d, e), Lone(d, e), ~Untouched(d, e),
         NEW k, NEW fired, EndCall(e, k, fired), UNCHANGED <<tasks, net, history>>
  PROVE  Lone(d, e)'
<1>1. /\ Same(d) /\ UNCHANGED <<tasks, net, used, answered, refused>> /\ armed'[e] \subseteq armed[e]
      /\ state'[e].status = "ended" /\ pc'[e] = NoConnection /\ offer'[e] = None
      /\ out'[e] = out[e] \cup {[kind |-> "end", call |-> k, id |-> 0]}
  BY EndCallAt, OverAt, Peers DEF Pair
<1>2. \A kind : kind # "end" /\ Sends(out'[e], kind) => Sends(out[e], kind)
  BY <1>1, EndSent
<1>3. Starts(d)' = Starts(d) /\ Rings(d)' = Rings(d)
  BY <1>1 DEF Starts, Rings, Same
<1> USE <1>1, <1>2, <1>3 DEF Lone
<1>4. Roles(d, e)'
  BY DEF Roles, Same
<1>5. Dialing(d, e)'
  BY DEF Dialing, Same
<1>6. Offering(d, e)'
  BY DEF Offering, Same
<1>7. RingsOut(d)'
  BY DEF RingsOut, Same
<1>8. RingsIn(d, e)'
  BY DEF RingsIn
<1>9. Together(d, e)'
  BY DEF Together, Offering
<1> QED BY <1>4, <1>5, <1>6, <1>7, <1>8, <1>9

(* While d is dialling its call has no timer. *)
LEMMA DialingCalm ==
  ASSUME TypeInv, TimedInv, Undisturbed, NEW d, NEW e, Pair(d, e), Lone(d, e), Starts(d) # {}
  PROVE  /\ armed[d] = {} /\ answered[d] = {} /\ state[d].status \in {"idle", "ended"}
         /\ pc[d].link \in {"new", "local"} /\ ~reset[d]
<1>1. PICK t \in Starts(d) : TRUE
  OBVIOUS
<1>2. Timed(d) /\ t.call \in used
  BY <1>1 DEF TimedInv, Timed, Pair
<1>3. armed[d] = {} /\ answered[d] = {}
  BY <1>1, <1>2, SameCall DEF Timed
<1> QED BY <1>1, <1>3 DEF Lone, Dialing

LEMMA LoneUser ==
  ASSUME TypeInv, TimedInv, KnownInv, Undisturbed, Undisturbed',
         NEW d, NEW e, Pair(d, e), Lone(d, e), NEW c \in Client, User(c)
  PROVE  Lone(d, e)'
<1>1. CASE StartCall(c)
  <2>1. PICK k \in CallId \ used : used' = used \cup {k}
    BY <1>1 DEF StartCall
  <2>2. PICK l \in used : TRUE
    BY DEF Lone
  <2> QED BY <2>1, <2>2 DEF Undisturbed
<1>2. CASE AcceptCall(c)
  <2>1. state[c].status = "incoming-ringing"
    BY <1>2 DEF AcceptCall, Offered
  <2>2. c = e
    BY <2>1 DEF Lone, Roles, Pair
  <2>3. PICK t : t.op = "accept" /\ Begin(e, t)
    BY <1>2, <2>2 DEF AcceptCall, Click
  <2>4. /\ tasks'[e] = tasks[e] \cup {t} /\ tasks'[d] = tasks[d]
        /\ UNCHANGED <<state, pc, offer, armed, reset, out, net, open, used, answered, refused>>
    BY <1>2, <2>2, <2>3, TaskAt DEF AcceptCall, machine, wire, browser, Pair
  <2>5. Starts(d)' = Starts(d) /\ Rings(d)' = Rings(d) /\ (Accepting(e) => Accepting(e)')
    BY <2>4 DEF Starts, Rings, Accepting
  <2>6. ~Untouched(d, e)
    BY <2>1, <2>2 DEF Untouched
  <2> USE <2>4, <2>5 DEF Lone
  <2>7. Roles(d, e)'
    BY <2>3 DEF Roles
  <2>8. Dialing(d, e)' /\ Offering(d, e)'
    BY <2>6 DEF Dialing, Offering
  <2>9. RingsOut(d)' /\ RingsIn(d, e)'
    BY DEF RingsOut, RingsIn, Answering
  <2>10. Together(d, e)'
    BY DEF Together
  <2> QED BY <2>7, <2>8, <2>9, <2>10
<1>3. CASE DeclineCall(c)
  <2>1. state[c].status = "incoming-ringing"
    BY <1>3 DEF DeclineCall, Offered
  <2>2. c = e /\ ~Untouched(d, e)
    BY <2>1 DEF Lone, Roles, Pair, Untouched
  <2> QED BY <1>3, <2>2, CalleeEnds DEF DeclineCall
<1>4. CASE HangUp(c)
  <2>1. state[c].status \notin {"idle", "ended", "incoming-ringing"}
    BY <1>4 DEF HangUp, Offered
  <2>2. CASE c = d
    <3>1. Starts(d) = {}
      BY <2>1, <2>2 DEF Lone, Dialing
    <3> QED BY <1>4, <2>2, <3>1, CallerEnds DEF HangUp
  <2>3. CASE c = e
    BY <1>4, <2>1, <2>3, CalleeEnds DEF HangUp, Untouched
  <2> QED BY <2>2, <2>3 DEF Pair
<1> QED BY <1>1, <1>2, <1>3, <1>4 DEF User

(* A step that changes only a client's connection, its timer, or a state that *)
(* does not ring.                                                             *)
LEMMA CallerState ==
  ASSUME TypeInv, NEW d, NEW e, Pair(d, e), Lone(d, e), Starts(d) = {}, Same(e),
         UNCHANGED <<tasks, net, offer, out, open, used, answered, refused>>,
         pc'[d].id = pc[d].id,
         Rings(d)' <=> Rings(d), Rings(d) => state'[d] = state[d] /\ reset'[d] = reset[d],
         state'[d].status # "incoming-ringing"
  PROVE  Lone(d, e)'
<1>1. Starts(d)' = {}
  BY DEF Starts
<1> USE <1>1 DEF Lone
<1>2. Roles(d, e)'
  BY DEF Roles, Same
<1>3. Dialing(d, e)'
  BY DEF Dialing
<1>4. Offering(d, e)'
  BY DEF Offering, Untouched, Same
<1>5. RingsOut(d)'
  BY DEF RingsOut, Rings
<1>6. RingsIn(d, e)'
  BY DEF RingsIn, Answering, Accepting, Same
<1>7. Together(d, e)'
  BY DEF Together, Accepting, Same
<1> QED BY <1>2, <1>3, <1>4, <1>5, <1>6, <1>7

LEMMA CalleeState ==
  ASSUME TypeInv, NEW d, NEW e, Pair(d, e), Lone(d, e), Same(d),
         UNCHANGED <<tasks, net, offer, out, open, used, answered, refused>>, armed'[e] \subseteq armed[e],
         Untouched(d, e) => state'[e].status = "idle" /\ pc'[e] = pc[e],
         state'[e].status = "incoming-ringing" => state'[e] = state[e],
         state'[e].status # "outgoing-ringing"
  PROVE  Lone(d, e)'
<1>1. Starts(d)' = Starts(d) /\ Rings(d)' = Rings(d) /\ Accepting(e)' = Accepting(e)
  BY DEF Starts, Rings, Accepting, Same
<1>2. Untouched(d, e) => Untouched(d, e)'
  BY DEF Untouched
<1> USE <1>1 DEF Lone
<1>3. Roles(d, e)'
  BY DEF Roles, Same
<1>4. Dialing(d, e)'
  BY <1>2 DEF Dialing, Same
<1>5. Offering(d, e)'
  BY <1>2 DEF Offering, Same
<1>6. RingsOut(d)'
  BY DEF RingsOut, Same
<1>7. RingsIn(d, e)'
  BY DEF RingsIn, Answering
<1>8. Together(d, e)'
  BY DEF Together
<1> QED BY <1>3, <1>4, <1>5, <1>6, <1>7, <1>8

LEMMA LoneEvent ==
  ASSUME TypeInv, TimedInv, KnownInv, Undisturbed,
         NEW d, NEW e, Pair(d, e), Lone(d, e), NEW c \in Client,
         AnswerTimeout(c) \/ IdleReset(c) \/ Connected(c) \/ Failed(c)
  PROVE  Lone(d, e)'
<1>1. CASE AnswerTimeout(c)
  <2>1. armed[c] # {}
    BY <1>1 DEF AnswerTimeout
  <2>2. c = d
    BY <2>1 DEF Lone, Roles, Pair
  <2>3. Starts(d) = {}
    BY <2>1, <2>2, DialingCalm
  <2> QED BY <1>1, <2>2, <2>3, CallerEnds DEF AnswerTimeout
<1>2. CASE Failed(c)
  <2>1. pc[c].link \notin {"new", "local"}
    BY <1>2 DEF Failed
  <2>2. CASE c = d
    <3>1. Starts(d) = {}
      BY <2>1, <2>2, DialingCalm
    <3> QED BY <1>2, <2>2, <3>1, CallerEnds DEF Failed
  <2>3. CASE c = e
    BY <1>2, <2>1, <2>3, CalleeEnds DEF Failed, Untouched
  <2> QED BY <2>2, <2>3 DEF Pair
<1>3. CASE IdleReset(c)
  <2>1. /\ reset[c] /\ UNCHANGED <<pc, offer, armed, tasks, out, net, open, used, answered, refused>>
        /\ state'[c].status = "idle"
        /\ \A b \in Client \ {c} : state'[b] = state[b] /\ reset'[b] = reset[b]
    BY <1>3, BecomeAt, StateType DEF IdleReset, wire, browser, history, TypeInv, TypeOK
  <2>2. \A b \in Client \ {c} : Same(b)
    BY <2>1 DEF Same
  <2>3. CASE c = d
    <3>1. Starts(d) = {}
      BY <2>1, <2>3, DialingCalm
    <3>2. ~Rings(d) /\ ~Rings(d)'
      BY <2>1, <2>3 DEF Lone, RingsOut, Rings
    <3>3. Same(e) /\ state'[d].status = "idle" /\ pc'[d].id = pc[d].id
      BY <2>1, <2>2, <2>3 DEF Pair
    <3> QED BY <2>1, <3>1, <3>2, <3>3, CallerState
  <2>4. CASE c = e
    BY <2>1, <2>2, <2>4, Peers, CalleeState DEF Pair
  <2> QED BY <2>3, <2>4 DEF Pair
<1>4. CASE Connected(c)
  <2>1. /\ UNCHANGED <<offer, reset, tasks, out, net, open, used, answered, refused>>
        /\ pc[c].link = "both"
    BY <1>4 DEF Connected, wire, browser, history
  <2>2. pc'[c].id = pc[c].id /\ \A b \in Client \ {c} : pc'[b] = pc[b]
    BY <1>4 DEF Connected, TypeInv, TypeOK, Connection
  <2>3. /\ armed'[c] \subseteq armed[c]
        /\ \/ state'[c] = state[c]
           \/ state[c].status = "connecting" /\ state'[c].status = "connected"
        /\ \A b \in Client \ {c} : state'[b] = state[b] /\ armed'[b] = armed[b]
    BY <1>4, BecomeAt DEF Connected, ClearTimer, InCall, TypeInv, TypeOK
  <2>4. \A b \in Client \ {c} : Same(b)
    BY <2>1, <2>2, <2>3 DEF Same
  <2>5. CASE c = d
    <3>1. Starts(d) = {}
      BY <2>1, <2>5, DialingCalm
    <3>2. (Rings(d)' <=> Rings(d)) /\ (Rings(d) => state'[d] = state[d])
      BY <2>3, <2>5 DEF Rings
    <3>3. state'[d].status # "incoming-ringing"
      BY <2>3, <2>5 DEF Lone, Roles
    <3> QED BY <2>1, <2>2, <2>4, <2>5, <3>1, <3>2, <3>3, Peers, CallerState DEF Pair
  <2>6. CASE c = e
    <3>1. state'[e].status # "outgoing-ringing" /\ ~Untouched(d, e)
      BY <2>1, <2>3, <2>6 DEF Lone, Roles, Untouched
    <3>2. state'[e].status = "incoming-ringing" => state'[e] = state[e]
      BY <2>3, <2>6
    <3>3. Pair(d, e) /\ Same(d) /\ armed'[e] \subseteq armed[e]
      BY <2>3, <2>4, <2>6 DEF Pair
    <3> QED BY <2>1, <3>1, <3>2, <3>3, CalleeState
  <2> QED BY <2>5, <2>6 DEF Pair
<1> QED BY <1>1, <1>2, <1>3, <1>4

(* The call's startCall goes on: media, an offer, and its ringing. *)
LEMMA StartGoesOn ==
  ASSUME TypeInv, TimedInv, KnownInv, Undisturbed,
         NEW d, NEW e, Pair(d, e), Lone(d, e), NEW t \in Starts(d), GoesOn(d, t)
  PROVE  Lone(d, e)'
<1>1. /\ t \in tasks[d] /\ t.op = "start" /\ tasks[d] = {t} /\ t.id = t.stream
      /\ state[d].status \in {"idle", "ended"} /\ pc[d].link \in {"new", "local"} /\ ~reset[d]
      /\ ~Sends(out[d], "end") /\ ~Has(net[e], "end")
      /\ t.step # "media" => pc[d].id = t.id /\ t.id \in open[d]
      /\ t.step # "send" => out[d] = {} /\ net[e] = <<>> /\ Untouched(d, e)
  BY DEF Lone, Dialing, Starts
<1>2. /\ t \in Activation /\ t.id # 0 /\ UNCHANGED <<reset, used, answered>> /\ Same(e)
      /\ UNCHANGED <<net, refused>>
      /\ d \in Client /\ ~Rings(d) /\ answered[d] = {} /\ t.stream \in Nat /\ t.call \in CallId
  BY <1>1, GoesOnAt, TaskType, DialingCalm, Peers DEF Pair, Rings, Activation
<1>3. Accepting(e)' = Accepting(e)
  BY <1>2 DEF Accepting, Same
<1> DEFINE r(s) == [t EXCEPT !.step = s]
<1>4. \A s : /\ r(s).op = "start" /\ r(s).id = t.id /\ r(s).stream = t.stream
             /\ r(s).call = t.call /\ r(s).step = s
  BY <1>1, TaskType, <1>2
<1>5. \A s : Goto(d, t, s) => tasks'[d] = {r(s)}
  BY <1>1, <1>2, TaskAt
<1>6. End(d, t) => tasks'[d] = {}
  BY <1>1, <1>2, TaskAt
<1> HIDE DEF r
<1> USE <1>1, <1>2, <1>3 DEF Lone
<1>7. CASE t.step # "send" /\ tasks'[d] = {} /\ UNCHANGED <<state, pc, offer, open, out>>
  <2>1. Starts(d)' = {} /\ ~Rings(d)'
    BY <1>7 DEF Starts, Rings
  <2>2. Untouched(d, e)'
    BY <1>7 DEF Untouched, Same
  <2>3. Roles(d, e)' /\ Dialing(d, e)'
    BY <1>7, <2>1 DEF Roles, Dialing, Same
  <2>4. Offering(d, e)'
    BY <1>7, <2>2, NothingHas DEF Offering, OfferFirst
  <2>5. RingsOut(d)' /\ RingsIn(d, e)' /\ Together(d, e)'
    BY <1>7, <2>1, <2>2, NothingHas DEF RingsOut, RingsIn, Together, Untouched
  <2> QED BY <2>3, <2>4, <2>5
<1>8. CASE Media(d, t)
  <2>1. /\ tasks'[d] = {r("local")} /\ UNCHANGED <<state, offer, out>>
        /\ pc'[d].id = t.id /\ pc'[d].link = "new" /\ t.id \in open'[d] /\ t.step = "media"
    BY <1>5, <1>8 DEF Media, wire, TypeInv, TypeOK
  <2>2. Starts(d)' = {r("local")} /\ ~Rings(d)'
    BY <1>4, <2>1 DEF Starts, Rings
  <2>3. Untouched(d, e)'
    BY <1>4, <2>1 DEF Untouched, Same
  <2>4. Roles(d, e)'
    BY <1>4, <2>1 DEF Roles, Same
  <2>5. Dialing(d, e)'
    BY <1>4, <2>1, <2>2, <2>3 DEF Dialing
  <2>6. Offering(d, e)'
    BY <2>1, <2>3, NothingHas DEF Offering, OfferFirst
  <2>7. RingsOut(d)' /\ RingsIn(d, e)' /\ Together(d, e)'
    BY <2>1, <2>2, <2>3, NothingHas DEF RingsOut, RingsIn, Together, Untouched
  <2> QED BY <2>4, <2>5, <2>6, <2>7
<1>9. CASE Local(d, t)
  <2>0. CASE End(d, t) /\ UNCHANGED <<pc, out>>
    BY <1>6, <1>7, <1>9, <2>0 DEF Local, browser
  <2> SUFFICES ASSUME ~(End(d, t) /\ UNCHANGED <<pc, out>>) PROVE Lone(d, e)'
    BY <2>0
  <2>1. t.step = "local"
    BY <1>9 DEF Local
  <2>2. /\ Goto(d, t, "send") /\ Post(d, "offer", t.call, t.id) /\ UNCHANGED <<state, offer, open>>
        /\ pc'[d].id = pc[d].id /\ pc'[d].link \in {"new", "local"}
    <3>1. /\ Goto(d, t, "send") /\ Post(d, "offer", t.call, t.id) /\ Described(d, t, "local")
          /\ UNCHANGED <<state, offer, open>>
      BY <1>9 DEF Local, browser
    <3>2. pc'[d].link = "local"
      BY <2>1, <3>1, DescribedAt, LinkType
    <3> QED BY <3>1, <3>2, LinkAt, LinkType
  <2>3. PICK m : /\ m.kind = "offer" /\ m.id = t.id /\ m.call = t.call /\ out'[d] = {m}
                 /\ tasks'[d] = {r("send")}
    <3> DEFINE o == [kind |-> "offer", call |-> t.call, id |-> t.id]
    <3>1. out' = [out EXCEPT ![d] = @ \cup {o}]
      BY <2>2 DEF Post
    <3>2. o.kind = "offer" /\ o.id = t.id /\ o.call = t.call
      OBVIOUS
    <3> HIDE DEF o
    <3>3. out'[d] = {o}
      BY <2>1, <3>1 DEF TypeInv, TypeOK
    <3>4. tasks'[d] = {r("send")}
      BY <1>5, <2>2
    <3> QED BY <3>2, <3>3, <3>4
  <2>4. Starts(d)' = {r("send")} /\ ~Rings(d)'
    BY <1>4, <2>2, <2>3 DEF Starts, Rings
  <2>5. Untouched(d, e)'
    BY <1>4, <2>1, <2>2, <2>3 DEF Untouched, Same
  <2>6. ~Sends(out'[d], "answer") /\ ~Sends(out'[d], "end")
    BY <2>3 DEF Sends
  <2>7. Roles(d, e)'
    BY <1>4, <2>2, <2>3, <2>6 DEF Roles, Same
  <2>8. Dialing(d, e)'
    BY <1>4, <2>1, <2>2, <2>3, <2>4, <2>6 DEF Dialing
  <2>9. Offering(d, e)'
    BY <1>4, <2>1, <2>3, <2>4, <2>5, NothingHas DEF Offering, OfferFirst
  <2>10. RingsOut(d)' /\ RingsIn(d, e)' /\ Together(d, e)'
    BY <2>1, <2>4, <2>5, NothingHas DEF RingsOut, RingsIn, Together, Untouched
  <2> QED BY <2>7, <2>8, <2>9, <2>10
<1>10. CASE StartSent(d, t)
  <2>1. /\ t.step = "send" /\ tasks'[d] = {} /\ UNCHANGED <<pc, offer, open, out>>
        /\ state'[d].status = "outgoing-ringing" /\ state'[d].stream = t.stream
    BY <1>6, <1>10, BecomeAt DEF StartSent, InCall, wire, browser
  <2>2. ~Sends(out[d], "offer")
    <3>1. \A m \in out[d] : ~(m.id = t.id /\ m.call = t.call)
      BY <1>10 DEF StartSent, Sending
    <3>2. Starts(d) = {t}
      BY DEF Starts
    <3> QED BY <3>1, <3>2 DEF Offering, Sends
  <2>3. Starts(d)' = {} /\ Rings(d)'
    BY <2>1 DEF Starts, Rings
  <2>4. Untouched(d, e) => Untouched(d, e)'
    BY <2>1 DEF Untouched, Same
  <2>5. Roles(d, e)' /\ Dialing(d, e)'
    BY <2>1, <2>3 DEF Roles, Dialing, Same
  <2>6. Offering(d, e)'
    BY <2>1, <2>2, <2>4 DEF Offering, Sends
  <2>7. RingsOut(d)'
    BY <2>1 DEF RingsOut
  <2>8. RingsIn(d, e)' /\ Together(d, e)'
    BY <2>1, <2>3 DEF RingsIn, Together, Answering, Same
  <2> QED BY <2>5, <2>6, <2>7, <2>8
<1>11. CASE Denied(d, t)
  BY <1>6, <1>7, <1>11 DEF Denied, machine, wire, browser
<1> QED BY <1>8, <1>9, <1>10, <1>11 DEF GoesOn, AcceptRemote, AcceptSent, AnswerRemote, AnswerReady

(* The caller works at an answer. *)
LEMMA AnswerGoesOn ==
  ASSUME TypeInv, KnownInv,
         NEW d, NEW e, Pair(d, e), Lone(d, e), NEW t \in tasks[d], t.op = "answer", GoesOn(d, t)
  PROVE  Lone(d, e)'
<1>1. /\ UNCHANGED <<reset, used, answered>> /\ Same(e) /\ net'[e] = net[e]
      /\ t.id # 0 /\ t.step \in {"remote", "ice"} /\ d \in Client
  BY GoesOnAt, TaskType, Peers DEF Pair, KnownInv, KnownCalls
<1>2. /\ Starts(d) = {} /\ ~Untouched(d, e) /\ answered[d] # {}
      /\ \A kind : Has(net'[d], kind) => Has(net[d], kind)
  <2>1. \A i \in DOMAIN net'[d] : \E j \in DOMAIN net[d] : net'[d][i] = net[d][j]
    BY <1>1, GoesOnAt, RefuseAt
  <2> QED BY <2>1 DEF Lone, Roles, Dialing, Untouched, Starts, Has
<1>3. Accepting(e)' = Accepting(e)
  BY <1>1 DEF Accepting, Same
<1> DEFINE r == [t EXCEPT !.step = "ice"]
<1>4. r.op = "answer" /\ r.id = t.id /\ r.stream = t.stream
  BY <1>1, TaskType
<1>5. Goto(d, t, "ice") => tasks'[d] = (tasks[d] \ {t}) \cup {r}
  BY <1>1, TaskAt
<1>6. End(d, t) => tasks'[d] = tasks[d] \ {t}
  BY <1>1, TaskAt
<1> HIDE DEF r
<1>7. /\ UNCHANGED <<offer, open, out>> /\ pc'[d].id = pc[d].id
      /\ \/ /\ state'[d] = state[d] /\ (Rings(d) => refused'[d] # {})
            /\ tasks'[d] = tasks[d] \ {t}
         \/ state'[d] = state[d] /\ tasks'[d] = (tasks[d] \ {t}) \cup {r}
         \/ state'[d].status = "connecting" /\ tasks'[d] = tasks[d] \ {t}
  <2>1. AnswerRemote(d, t) \/ AnswerReady(d, t)
    BY <1>1 DEF GoesOn, Media, Denied, AcceptRemote, Local, StartSent, AcceptSent
  <2>2. UNCHANGED <<offer, open, out>>
    BY <2>1 DEF AnswerRemote, AnswerReady, browser
  <2>3. CASE Refuse(d, t)
    <3>1. UNCHANGED <<state, pc>> /\ tasks'[d] = tasks[d] \ {t}
      BY <1>6, <2>3 DEF Refuse
    <3>2. Rings(d) => refused'[d] # {}
      BY <1>1, <2>3, RefuseAt DEF Lone, RingsOut
    <3> QED BY <2>2, <3>1, <3>2
  <2>4. CASE Goto(d, t, "ice") /\ Described(d, t, "both") /\ UNCHANGED state
    BY <1>1, <1>5, <2>2, <2>4, LinkAt, LinkType
  <2>5. CASE Become(d, InCall("connecting", t.call, t.stream)) /\ End(d, t) /\ UNCHANGED pc
    BY <1>1, <1>6, <2>2, <2>5, BecomeAt DEF InCall
  <2> QED BY <2>1, <2>3, <2>4, <2>5 DEF AnswerRemote, AnswerReady
<1>8. /\ Starts(d)' = {} /\ \A u \in tasks'[d] : u.op # "accept"
      /\ Answering(d, e)' => Answering(d, e)
  BY <1>1, <1>2, <1>4, <1>7 DEF Starts, Lone, Roles, Answering, Same
<1>9. /\ Rings(d)' => Rings(d) /\ state'[d] = state[d]
      /\ Rings(d)' => refused'[d] # {} \/ tasks'[d] = (tasks[d] \ {t}) \cup {r}
  BY <1>7 DEF Rings
<1> USE <1>1, <1>2, <1>3, <1>7, <1>8 DEF Lone
<1>10. Roles(d, e)'
  BY DEF Roles, Same
<1>11. Dialing(d, e)' /\ Offering(d, e)'
  BY DEF Dialing, Offering
<1>12. RingsOut(d)'
  BY <1>4, <1>9 DEF RingsOut
<1>13. RingsIn(d, e)'
  BY DEF RingsIn, Same
<1>14. Together(d, e)'
  <2>1. state[e].status = "incoming-ringing" => Accepting(e)
    BY DEF RingsIn, Answering
  <2>2. ~Has(net[e], "offer")
    BY DEF Offering
  <2> QED BY <2>1, <2>2 DEF Together, Same
<1> QED BY <1>10, <1>11, <1>12, <1>13, <1>14

(* The callee accepts. *)
LEMMA AcceptGoesOn ==
  ASSUME TypeInv, KnownInv,
         NEW d, NEW e, Pair(d, e), Lone(d, e), NEW t \in tasks[e], GoesOn(e, t)
  PROVE  Lone(d, e)'
<1>1. /\ UNCHANGED <<reset, used, answered, net, refused>> /\ Same(d)
      /\ t.op = "accept" /\ e \in Client
  BY GoesOnAt, Peers DEF Pair, Lone, Roles
<1>2. ~Untouched(d, e)
  BY DEF Untouched
<1>3. Starts(d)' = Starts(d) /\ Rings(d)' = Rings(d)
  BY <1>1 DEF Starts, Rings, Same
<1>4. \A s : Goto(e, t, s) =>
        \E r : tasks'[e] = (tasks[e] \ {t}) \cup {r} /\ r.op = "accept" /\ r.step = s
  <2> TAKE s
  <2> DEFINE r == [t EXCEPT !.step = s]
  <2>1. r.op = "accept" /\ r.step = s
    BY <1>1, TaskType
  <2>2. Goto(e, t, s) => tasks'[e] = (tasks[e] \ {t}) \cup {r}
    BY <1>1, TaskAt
  <2> HIDE DEF r
  <2> QED BY <2>1, <2>2
<1>5. End(e, t) => tasks'[e] = tasks[e] \ {t}
  BY <1>1, TaskAt
<1>6. \A u \in tasks'[e] : u.op = "accept"
  BY <1>1, <1>4, <1>5, GoesOnAt DEF Lone, Roles
<1>7. /\ armed'[e] = armed[e]
      /\ \/ state'[e] = state[e] /\ offer'[e] = offer[e] /\ (Accepting(e) => Accepting(e)')
         \/ state'[e].status = "connecting"
      /\ \/ out'[e] = out[e]
         \/ /\ \E m : m.kind = "answer" /\ out'[e] = out[e] \cup {m}
            /\ Accepting(e)'
  <2>1. CASE t.step # "send" /\ UNCHANGED <<state, offer, armed, out>>
    BY <1>1, <1>4, <1>5, <2>1, GoesOnAt DEF Accepting
  <2>2. CASE Media(e, t) \/ Denied(e, t) \/ AcceptRemote(e, t)
    BY <2>1, <2>2 DEF Media, Denied, AcceptRemote, machine, wire
  <2>3. CASE Local(e, t)
    <3>1. t.step = "local" /\ UNCHANGED <<state, offer, armed>>
      BY <2>3 DEF Local
    <3>2. CASE UNCHANGED out
      BY <2>1, <3>1, <3>2
    <3>3. CASE Goto(e, t, "send") /\ Post(e, "answer", t.call, t.id)
      <4> DEFINE m == [kind |-> "answer", call |-> t.call, id |-> t.id]
      <4>1. m.kind = "answer" /\ out' = [out EXCEPT ![e] = @ \cup {m}]
        BY <3>3 DEF Post
      <4> HIDE DEF m
      <4>2. out'[e] = out[e] \cup {m}
        BY <1>1, <4>1 DEF TypeInv, TypeOK
      <4>3. Accepting(e)'
        BY <1>4, <3>3 DEF Accepting
      <4> QED BY <3>1, <4>1, <4>2, <4>3
    <3> QED BY <1>1, <2>3, <3>2, <3>3 DEF Local
  <2>4. CASE AcceptSent(e, t)
    BY <1>1, <2>4, BecomeAt DEF AcceptSent, InCall, wire
  <2> QED BY <1>1, <2>2, <2>3, <2>4 DEF GoesOn, StartSent, AnswerRemote, AnswerReady
<1>8. \A kind : kind # "answer" => (Sends(out'[e], kind) => Sends(out[e], kind))
  BY <1>7 DEF Sends
<1>9. Answering(d, e)' => Answering(d, e) \/ Accepting(e)'
  BY <1>1, <1>7 DEF Answering, Same
<1> USE <1>1, <1>2, <1>3, <1>6, <1>7, <1>8, <1>9 DEF Lone
<1>10. Roles(d, e)'
  BY DEF Roles, Same
<1>11. Dialing(d, e)'
  BY DEF Dialing, Same
<1>12. Offering(d, e)'
  BY DEF Offering, Same
<1>13. RingsOut(d)'
  BY DEF RingsOut, Same
<1>14. RingsIn(d, e)'
  BY DEF RingsIn
<1>15. Together(d, e)'
  BY DEF Together, Same, Offering
<1> QED BY <1>10, <1>11, <1>12, <1>13, <1>14, <1>15

(* What a poll does to the queues *)
LEMMA ConsumeAt ==
  ASSUME TypeInv, NEW c \in Client, net[c] # <<>>, Consume(c)
  PROVE  /\ net[c] \in Seq(Envelope) /\ net'[c] = Tail(net[c])
         /\ \A b \in Client \ {c} : net'[b] = net[b]
  BY DEF TypeInv, TypeOK, Consume

(* The caller polls an answer or the callee's call-end. *)
LEMMA CallerPolls ==
  ASSUME TypeInv, TimedInv, KnownInv, Undisturbed, NEW d, NEW e, Pair(d, e), Lone(d, e), Poll(d)
  PROVE  Lone(d, e)'
<1>1. d \in Client /\ net[d] # <<>> /\ Consume(d)
  BY DEF Poll, HandleOffer, HandleAnswer, HandleEnd, Signal, Pair
<1>2. /\ net[d] \in Seq(Envelope) /\ net'[d] = Tail(net[d]) /\ net'[e] = net[e]
      /\ \A kind : Has(net'[d], kind) => Has(net[d], kind)
      /\ Has(net[d], Head(net[d]).kind)
  <2>1. net[d] \in Seq(Envelope) /\ net'[d] = Tail(net[d]) /\ net'[e] = net[e]
    BY <1>1, ConsumeAt DEF Pair
  <2> QED BY <1>1, <2>1, TailHas
<1>3. ~Untouched(d, e) /\ ~HandleOffer(d)
  BY <1>1, <1>2 DEF Untouched, HandleOffer, Signal, Lone, Roles
<1> USE <1>1, <1>2, <1>3 DEF Lone
<1>4. CASE HandleAnswer(d) /\ Expected(d, Head(net[d]).call)
  <2>1. /\ UNCHANGED <<state, pc, offer, reset, out, open, used>>
        /\ armed'[d] \subseteq armed[d] /\ armed'[e] = armed[e]
        /\ Rings(d) /\ Starts(d) = {}
    BY <1>4 DEF HandleAnswer, Expected, ClearTimer, Rings, browser, Dialing, TypeInv, TypeOK, Pair
  <2>0. answered'[d] # {}
    BY <1>4 DEF HandleAnswer, TypeInv, TypeOK
  <2>2. PICK t : /\ t.op = "answer" /\ t.id = pc[d].id /\ t.stream = state[d].stream
                 /\ tasks'[d] = tasks[d] \cup {t} /\ tasks'[e] = tasks[e]
    <3>1. PICK t : Begin(d, t) /\ t.op = "answer" /\ t.id = pc[d].id /\ t.stream = state[d].stream
      BY <1>4 DEF HandleAnswer
    <3> QED BY <3>1, TaskAt, Peers DEF Pair
  <2>3. Starts(d)' = {} /\ Rings(d)' /\ (Accepting(e)' <=> Accepting(e))
    BY <2>1, <2>2 DEF Starts, Rings, Accepting
  <2>4. Has(net[d], "answer")
    BY <1>4 DEF HandleAnswer, Signal
  <2> USE <2>1, <2>3
  <2>5. Roles(d, e)'
    BY <2>0, <2>2 DEF Roles
  <2>6. Dialing(d, e)' /\ Offering(d, e)'
    BY DEF Dialing, Offering
  <2>7. RingsOut(d)'
    BY <2>2 DEF RingsOut
  <2>8. RingsIn(d, e)'
    BY <2>4 DEF RingsIn, Answering
  <2>9. Together(d, e)'
    BY DEF Together
  <2> QED BY <2>5, <2>6, <2>7, <2>8, <2>9
<1>5. CASE UNCHANGED <<state, pc, offer, reset, armed, answered, refused, tasks, out, open, used>>
  <2>1. Starts(d)' = Starts(d) /\ Rings(d)' = Rings(d) /\ Accepting(e)' = Accepting(e)
    BY <1>5 DEF Starts, Rings, Accepting
  <2> USE <1>5, <2>1
  <2>2. Roles(d, e)'
    BY DEF Roles
  <2>3. Dialing(d, e)' /\ Offering(d, e)'
    BY DEF Dialing, Offering
  <2>4. RingsOut(d)' /\ RingsIn(d, e)' /\ Together(d, e)'
    BY DEF RingsOut, RingsIn, Together, Answering
  <2> QED BY <2>2, <2>3, <2>4
<1>6. CASE HandleEnd(d) /\ ActiveCall(d) = Head(net[d]).call /\ Over(d, {})
  <2>1. /\ UNCHANGED <<tasks, out, used, answered, refused>> /\ state'[d].status = "ended" /\ offer'[d] = None
        /\ \A b \in Client \ {d} : state'[b] = state[b] /\ offer'[b] = offer[b] /\ armed'[b] = armed[b]
    BY <1>6, OverAt DEF HandleEnd, history
  <2>2. state'[e] = state[e] /\ offer'[e] = offer[e] /\ armed'[e] = armed[e]
    BY <2>1 DEF Pair
  <2>3. Starts(d) = {} /\ Starts(d)' = {}
    <3>1. ActiveCall(d) \in used /\ offer[d] = None
      BY <1>6, KnownSignal DEF HandleEnd, Roles
    <3>2. None \notin used
      BY CallAssumption DEF TypeInv, TypeOK
    <3>3. state[d].status \notin {"idle", "ended"}
      BY <3>1, <3>2 DEF ActiveCall
    <3> QED BY <2>1, <3>3 DEF Dialing, Starts
  <2>4. state[e].status # "incoming-ringing"
    BY <1>6 DEF RingsIn, HandleEnd, Signal
  <2> USE <2>1, <2>2, <2>3, <2>4
  <2>5. Roles(d, e)'
    BY DEF Roles
  <2>6. Dialing(d, e)' /\ Offering(d, e)'
    BY DEF Dialing, Offering
  <2>7. RingsOut(d)' /\ RingsIn(d, e)' /\ Together(d, e)'
    BY DEF RingsOut, Rings, RingsIn, Together, Offering
  <2> QED BY <2>5, <2>6, <2>7
<1>7. CASE HandleEnd(d) /\ UNCHANGED <<machine, browser>>
  BY <1>5, <1>7 DEF HandleEnd, machine, browser, history
<1>8. CASE HandleAnswer(d) /\ ~Expected(d, Head(net[d]).call)
  BY <1>5, <1>8 DEF HandleAnswer, browser
<1> QED BY <1>4, <1>6, <1>7, <1>8 DEF Poll, HandleEnd

(* The callee polls the offer or the caller's call-end. *)
LEMMA CalleePolls ==
  ASSUME TypeInv, KnownInv, Undisturbed, NEW d, NEW e, Pair(d, e), Lone(d, e), Poll(e)
  PROVE  Lone(d, e)'
<1>1. e \in Client /\ net[e] # <<>> /\ Consume(e)
  BY DEF Poll, HandleOffer, HandleAnswer, HandleEnd, Signal, Pair
<1>2. net[e] \in Seq(Envelope) /\ net'[e] = Tail(net[e]) /\ net'[d] = net[d]
  BY <1>1, ConsumeAt DEF Pair
<1>3. /\ \A kind : Has(net'[e], kind) => Has(net[e], kind)
      /\ \A kind : Has(net[e], kind) /\ Head(net[e]).kind # kind => Has(net'[e], kind)
      /\ Has(net[e], Head(net[e]).kind)
      /\ OfferFirst(net'[e]) /\ ~Has(net'[e], "offer")
      /\ Has(net[e], "offer") => Head(net[e]).kind = "offer"
  BY <1>1, <1>2, TailHas DEF Lone, Offering
<1>4. ~HandleAnswer(e)
  BY <1>3 DEF HandleAnswer, Signal, Lone, Roles
<1>5. \A t \in Starts(d) : t.step = "send"
  BY <1>1 DEF Lone, Dialing
<1> USE <1>1, <1>2, <1>3, <1>5 DEF Lone
<1>6. CASE HandleOffer(e)
  <2>1. UNCHANGED <<pc, armed, reset, tasks, out, open, used, answered, refused>> /\ Head(net[e]).kind = "offer"
    BY <1>6 DEF HandleOffer, browser, history, Signal
  <2>2. Untouched(d, e)
    BY <2>1 DEF Offering
  <2>3. ~Sends(out[d], "offer")
    BY <2>1 DEF Offering
  <2>4. /\ state'[e].status = "incoming-ringing" /\ offer'[e] \in used
        /\ state'[d] = state[d] /\ offer'[d] = offer[d]
    <3>1. Head(net[e]).call \in used
      BY KnownSignal, <1>6 DEF HandleOffer
    <3> QED BY <1>6, <2>2, <3>1, BecomeAt DEF HandleOffer, InCall, Untouched, TypeInv, TypeOK, Pair
  <2>5. offer'[e] # None
    BY <2>4, CallAssumption DEF TypeInv, TypeOK
  <2>6. Starts(d)' = Starts(d) /\ Rings(d)' = Rings(d) /\ Accepting(e)' = Accepting(e)
    BY <2>1, <2>4 DEF Starts, Rings, Accepting
  <2> USE <2>1, <2>2, <2>4, <2>5, <2>6
  <2>7. Roles(d, e)'
    BY DEF Roles
  <2>8. Dialing(d, e)'
    BY DEF Dialing
  <2>9. Offering(d, e)'
    BY <2>3 DEF Offering, Sends
  <2>10. RingsOut(d)'
    BY DEF RingsOut
  <2>11. RingsIn(d, e)'
    BY NothingHas DEF RingsIn, Answering, Untouched
  <2>12. Together(d, e)'
    BY DEF Together
  <2> QED BY <2>7, <2>8, <2>9, <2>10, <2>11, <2>12
<1>7. CASE HandleEnd(e)
  <2>1. /\ UNCHANGED <<tasks, out, used, answered, refused>> /\ Head(net[e]).kind = "end"
        /\ Starts(d) = {} /\ ~Has(net[e], "offer")
    BY <1>7 DEF HandleEnd, history, Signal, Dialing
  <2>2. /\ state'[d] = state[d] /\ offer'[d] = offer[d] /\ pc'[d] = pc[d] /\ open'[d] = open[d]
        /\ reset'[d] = reset[d] /\ armed'[d] = armed[d] /\ armed'[e] \subseteq armed[e]
        /\ state'[e].status # "incoming-ringing" /\ state'[e].status # "outgoing-ringing"
    <3>1. CASE Over(e, {})
      BY <3>1, OverAt DEF Pair
    <3>2. CASE ActiveCall(e) # Head(net[e]).call /\ UNCHANGED <<machine, browser>>
      <4>1. Head(net[e]).call \in used
        BY <1>7, KnownSignal DEF HandleEnd
      <4>2. offer[e] # None => offer[e] \in used
        BY DEF KnownInv, KnownCalls
      <4>3. state[e].status # "incoming-ringing"
        BY <3>2, <4>1, <4>2, SameCall DEF ActiveCall, RingsIn
      <4> QED BY <3>2, <4>3 DEF machine, browser, Roles
    <3> QED BY <1>7, <3>1, <3>2 DEF HandleEnd
  <2>3. Starts(d)' = {} /\ Rings(d)' = Rings(d)
    BY <2>1, <2>2 DEF Starts, Rings
  <2> USE <2>1, <2>2, <2>3
  <2>4. Roles(d, e)'
    BY DEF Roles
  <2>5. Dialing(d, e)'
    BY DEF Dialing
  <2>6. Offering(d, e)'
    <3>1. \A m \in out[d] : m.kind # "offer"
      BY DEF Offering
    <3> QED BY <3>1 DEF Offering, Sends
  <2>7. RingsOut(d)'
    BY DEF RingsOut
  <2>8. RingsIn(d, e)' /\ Together(d, e)'
    BY DEF RingsIn, Together
  <2> QED BY <2>4, <2>5, <2>6, <2>7, <2>8
<1> QED BY <1>4, <1>6, <1>7 DEF Poll

(* A send of either side arrives. *)
LEMMA CallerSends ==
  ASSUME TypeInv, NEW d, NEW e, Pair(d, e), Lone(d, e), Deliver(d)
  PROVE  Lone(d, e)'
<1>1. /\ UNCHANGED <<state, pc, offer, armed, reset, open, used, answered, refused, tasks>>
      /\ d \in Client /\ Same(e)
  BY SendAt DEF Deliver, Pair
<1>2. PICK m \in out[d] :
        /\ m \in Envelope /\ out'[d] = out[d] \ {m}
        /\ net'[e] = Append(net[e], m) /\ net'[d] = net[d]
  <2>1. PICK m \in out[d] :
          /\ out' = [out EXCEPT ![d] = @ \ {m}] /\ net' = [net EXCEPT ![e] = Append(@, m)]
    BY DEF Deliver, Pair
  <2> QED BY <2>1 DEF TypeInv, TypeOK, Pair
<1>3. net[e] \in Seq(Envelope) /\ out'[e] = out[e]
  BY <1>1 DEF TypeInv, TypeOK, Pair, Same
<1>4. /\ \A kind : Has(net'[e], kind) <=> Has(net[e], kind) \/ m.kind = kind
      /\ OfferFirst(net[e]) /\ (m.kind = "offer" => net[e] = <<>>) => OfferFirst(net'[e])
  BY <1>2, <1>3, AppendHas
<1>5. /\ \A kind : Sends(out'[d], kind) => Sends(out[d], kind)
      /\ \A kind : Sends(out[d], kind) => Sends(out'[d], kind) \/ m.kind = kind
      /\ Sends(out[d], m.kind)
  BY <1>2 DEF Sends
<1>6. Starts(d)' = Starts(d) /\ Rings(d)' = Rings(d) /\ Accepting(e)' = Accepting(e)
  BY <1>1 DEF Starts, Rings, Accepting
<1>7. Untouched(d, e) => Untouched(d, e)'
  BY <1>1, <1>2, <1>3 DEF Untouched
<1>8. \A t \in Starts(d) : t.step = "send"
  BY <1>2 DEF Lone, Dialing
<1> USE <1>1, <1>2, <1>3, <1>4, <1>5, <1>6, <1>7, <1>8 DEF Lone
<1>9. Roles(d, e)'
  BY DEF Roles
<1>10. Dialing(d, e)'
  BY DEF Dialing
<1>11. Offering(d, e)'
  <2>1. CASE m.kind = "offer"
    <3>1. Untouched(d, e) /\ ~Has(net[e], "offer")
      BY <2>1 DEF Offering
    <3>2. PICK t \in Starts(d) : m.id = t.id /\ m.call = t.call
      BY <2>1 DEF Offering
    <3>3. ~Has(net[e], "end") /\ ~Has(net[e], "answer")
      BY DEF Dialing, Roles
    <3>4. net[e] = <<>>
      <4>1. ASSUME NEW i \in DOMAIN net[e] PROVE FALSE
        <5>1. net[e][i] \in Envelope
          BY <4>1
        <5>2. net[e][i].kind \in {"offer", "answer", "end"}
          BY <5>1 DEF Envelope
        <5> QED BY <3>1, <3>3, <4>1, <5>2 DEF Has
      <4> QED BY <4>1
    <3>5. ~Sends(out'[d], "offer")
      <4> SUFFICES ASSUME NEW n \in out'[d], n.kind = "offer" PROVE FALSE
        BY DEF Sends
      <4>1. PICK u \in Starts(d) : n.id = u.id /\ n.call = u.call
        BY DEF Offering
      <4>2. u = t
        BY <3>2, <4>1 DEF Dialing, Starts
      <4>3. n \in Envelope /\ n # m
        BY DEF TypeInv, TypeOK, Pair
      <4> QED BY <2>1, <3>2, <4>1, <4>2, <4>3 DEF Envelope
    <3> QED BY <2>1, <3>1, <3>4, <3>5 DEF Offering, Sends
  <2>2. CASE m.kind # "offer"
    BY <2>2 DEF Offering
  <2> QED BY <2>1, <2>2
<1>12. RingsOut(d)'
  BY DEF RingsOut
<1>13. RingsIn(d, e)'
  BY DEF RingsIn, Answering
<1>14. Together(d, e)'
  BY DEF Together, Offering
<1> QED BY <1>9, <1>10, <1>11, <1>12, <1>13, <1>14

LEMMA CalleeSends ==
  ASSUME TypeInv, NEW d, NEW e, Pair(d, e), Lone(d, e), Deliver(e)
  PROVE  Lone(d, e)'
<1>1. /\ UNCHANGED <<state, pc, offer, armed, reset, open, used, answered, refused, tasks>>
      /\ e \in Client /\ Same(d)
  BY SendAt, Peers DEF Deliver, Pair
<1>2. PICK m \in out[e] :
        /\ m \in Envelope /\ out'[e] = out[e] \ {m}
        /\ net'[d] = Append(net[d], m) /\ net'[e] = net[e]
  <2>1. PICK m \in out[e] :
          /\ out' = [out EXCEPT ![e] = @ \ {m}] /\ net' = [net EXCEPT ![d] = Append(@, m)]
    BY DEF Deliver, Pair
  <2> QED BY <2>1 DEF TypeInv, TypeOK, Pair
<1>3. net[d] \in Seq(Envelope) /\ out'[d] = out[d]
  BY <1>1 DEF TypeInv, TypeOK, Pair, Same
<1>4. \A kind : Has(net'[d], kind) <=> Has(net[d], kind) \/ m.kind = kind
  BY <1>2, <1>3, AppendHas
<1>5. /\ \A kind : Sends(out'[e], kind) => Sends(out[e], kind)
      /\ Sends(out[e], m.kind)
  BY <1>2 DEF Sends
<1>6. Starts(d)' = Starts(d) /\ Rings(d)' = Rings(d) /\ Accepting(e)' = Accepting(e)
  BY <1>1 DEF Starts, Rings, Accepting
<1>7. ~Untouched(d, e)
  BY <1>2 DEF Untouched
<1> USE <1>1, <1>2, <1>3, <1>4, <1>5, <1>6, <1>7 DEF Lone
<1>8. Roles(d, e)'
  BY DEF Roles
<1>9. Dialing(d, e)' /\ Offering(d, e)'
  BY DEF Dialing, Offering
<1>10. RingsOut(d)'
  BY DEF RingsOut
<1>11. RingsIn(d, e)'
  BY DEF RingsIn, Answering
<1>12. Together(d, e)'
  BY DEF Together
<1> QED BY <1>8, <1>9, <1>10, <1>11, <1>12

(* The first call begins; before, nothing else can happen. *)
LEMMA FirstCall ==
  ASSUME TypeInv, TimedInv, Blank, NEW c \in Client, StartCall(c)
  PROVE  Lone(c, Peer(c))'
<1> DEFINE e == Peer(c)
<1>0. Pair(c, e)
  BY Peers
<1> HIDE DEF e
<1>1. /\ used' # {} /\ Cleanup(c, {}) /\ UNCHANGED <<state, reset, out, net, answered, refused>>
  BY DEF StartCall, wire
<1>2. PICK t : /\ t.op = "start" /\ t.step = "media" /\ t.id = t.stream
               /\ tasks'[c] = {t} /\ tasks'[e] = {}
  <2>1. PICK t : t.op = "start" /\ t.step = "media" /\ t.id = t.stream /\ Begin(c, t)
    BY DEF StartCall, Click
  <2> QED BY <2>1, <1>0, TaskAt DEF Blank, Pair
<1>3. /\ pc'[c].link = "new" /\ offer'[c] = None
      /\ pc'[e].link = "new" /\ offer'[e] = None /\ armed'[e] = {}
  <2>1. armed[e] = {}
    BY <1>0 DEF TimedInv, Timed, Blank, Pair
  <2> QED BY <1>0, <1>1, <2>1, CleanupAt DEF Blank, Pair, NoConnection
<1>4. Starts(c)' = {t}
  BY <1>2 DEF Starts
<1>5. \A kind : ~Sends(out'[c], kind) /\ ~Sends(out'[e], kind) /\ ~Has(net'[c], kind) /\ ~Has(net'[e], kind)
  BY <1>0, <1>1, NothingHas DEF Blank, Pair
<1>6. Untouched(c, e)'
  BY <1>0, <1>1, <1>2, <1>3 DEF Untouched, TimedInv, Timed, Blank, Pair
<1> USE <1>0, <1>1, <1>2, <1>3, <1>4, <1>5, <1>6 DEF Blank, Pair
<1>7. Roles(c, e)'
  BY DEF Roles
<1>8. Dialing(c, e)'
  BY DEF Dialing
<1>9. Offering(c, e)'
  BY DEF Offering, OfferFirst
<1>10. RingsOut(c)' /\ RingsIn(c, e)' /\ Together(c, e)'
  BY DEF RingsOut, RingsIn, Together, Rings
<1>11. Lone(c, e)'
  BY <1>7, <1>8, <1>9, <1>10 DEF Lone
<1> QED BY <1>11 DEF e

LEMMA BlankNext ==
  ASSUME TypeInv, TimedInv, Blank, NEW c \in Client,
         \/ User(c) \/ Poll(c) \/ Deliver(c)
         \/ AnswerTimeout(c) \/ IdleReset(c) \/ Connected(c) \/ Failed(c)
         \/ \E t \in tasks[c] : GoesOn(c, t)
  PROVE  StartCall(c)
<1>1. armed[c] = {}
  BY DEF TimedInv, Timed, Blank
<1>2. ~(AcceptCall(c) \/ DeclineCall(c) \/ HangUp(c))
  BY DEF Blank, AcceptCall, DeclineCall, HangUp, Offered
<1>3. ~Poll(c) /\ ~Deliver(c) /\ ~\E t \in tasks[c] : GoesOn(c, t)
  BY DEF Blank, Poll, HandleOffer, HandleAnswer, HandleEnd, Signal, Deliver
<1>4. ~(AnswerTimeout(c) \/ IdleReset(c) \/ Connected(c) \/ Failed(c))
  BY <1>1 DEF Blank, AnswerTimeout, IdleReset, Connected, Failed
<1> QED BY <1>2, <1>3, <1>4 DEF User

(* Any step of a client, once there is a call *)
LEMMA LoneStep ==
  ASSUME TypeInv, TimedInv, KnownInv, Undisturbed, Undisturbed',
         NEW d, NEW e, Pair(d, e), Lone(d, e), NEW c \in Client,
         \/ User(c) \/ Poll(c) \/ Deliver(c)
         \/ AnswerTimeout(c) \/ IdleReset(c) \/ Connected(c) \/ Failed(c)
         \/ \E t \in tasks[c] : GoesOn(c, t)
  PROVE  Lone(d, e)'
<1>1. c = d \/ c = e
  BY DEF Pair
<1>2. CASE Deliver(c)
  BY <1>1, <1>2, CallerSends, CalleeSends
<1>3. CASE Poll(c)
  BY <1>1, <1>3, CallerPolls, CalleePolls
<1>4. ASSUME NEW t \in tasks[c], GoesOn(c, t) PROVE Lone(d, e)'
  <2>1. CASE c = d
    <3>1. t \in Starts(d) \/ t.op = "answer"
      BY <1>4, <2>1, TaskType DEF Lone, Roles, Starts, Activation
    <3> QED BY <1>4, <2>1, <3>1, StartGoesOn, AnswerGoesOn
  <2>2. CASE c = e
    BY <1>4, <2>2, AcceptGoesOn
  <2> QED BY <1>1, <2>1, <2>2
<1> QED BY <1>2, <1>3, <1>4, LoneUser, LoneEvent

LEMMA LoneInit == Init => LoneInv
BY DEF Init, LoneInv, Blank, Without, NoConnection

LEMMA LoneNext == TypeInv /\ TimedInv /\ KnownInv /\ LoneInv /\ [Next]_vars => LoneInv'
<1> SUFFICES ASSUME TypeInv, TimedInv, KnownInv, LoneInv, [Next]_vars, Undisturbed'
             PROVE  Blank' \/ \E d \in Client : Lone(d, Peer(d))'
  BY DEF LoneInv
<1>1. CASE UNCHANGED vars
  <2>1. Undisturbed /\ (Blank => Blank')
    BY <1>1 DEF Undisturbed, Blank, vars, machine, wire, history
  <2>2. ASSUME NEW d \in Client, Lone(d, Peer(d)) PROVE Lone(d, Peer(d))'
    BY <1>1, <2>2 DEF Lone, Roles, Dialing, Offering, RingsOut, RingsIn, Together, Untouched,
                      Starts, Rings, Answering, Accepting, vars, machine, wire, browser, history
  <2> QED BY <2>1, <2>2 DEF LoneInv
<1>2. ASSUME NEW c \in Client, Lose(c) PROVE FALSE
  BY <1>2 DEF Lose, Undisturbed, TypeInv, TypeOK
<1>3. ASSUME NEW c \in Client,
             \/ User(c) \/ Poll(c) \/ Deliver(c)
             \/ AnswerTimeout(c) \/ IdleReset(c) \/ Connected(c) \/ Failed(c)
             \/ \E t \in tasks[c] : GoesOn(c, t)
      PROVE  Blank' \/ \E d \in Client : Lone(d, Peer(d))'
  <2>1. Undisturbed
    <3>1. used \subseteq used' /\ losses' = losses
      <4>1. CASE User(c)
        BY <4>1 DEF User, StartCall, AcceptCall, DeclineCall, HangUp, history
      <4>2. CASE Poll(c) \/ Deliver(c)
        BY <4>2 DEF Poll, HandleOffer, HandleAnswer, HandleEnd, Deliver, history
      <4>3. CASE AnswerTimeout(c) \/ IdleReset(c) \/ Connected(c) \/ Failed(c)
        BY <4>3 DEF AnswerTimeout, IdleReset, Connected, Failed, history
      <4> QED BY <1>3, <4>1, <4>2, <4>3, GoesOnAt
    <3> QED BY <3>1 DEF Undisturbed
  <2>2. CASE Blank
    BY <1>3, <2>2, BlankNext, FirstCall
  <2>3. ASSUME NEW d \in Client, Lone(d, Peer(d)) PROVE Lone(d, Peer(d))'
    BY <1>3, <2>1, <2>3, Peers, LoneStep
  <2> QED BY <2>1, <2>2, <2>3 DEF LoneInv
<1> QED BY <1>1, <1>2, <1>3 DEF Next

LEMMA LoneInvariant == Spec => []LoneInv
BY TypeInvariant, TimedInvariant, KnownInvariant, LoneInit, LoneNext, PTL DEF Spec

(***************************************************************************)
(* While there is one call and no send or poll failed: once nothing is     *)
(* under way between the clients, the callee rings only if the caller does *)
(* and the caller's answer timer is to fire (startCall, handleCallSignal,  *)
(* acceptCall), so the callee needs no timer of its own.  The caller rings *)
(* without a timer only if its own connection refused the answer.          *)
(***************************************************************************)
THEOREM NobodyRingsAlone == Spec => []NoLoneRing
<1>1. TypeInv /\ TimedInv /\ KnownInv /\ LoneInv => NoLoneRing
  <2> SUFFICES ASSUME TypeInv, TimedInv, KnownInv, LoneInv, Undisturbed, Quiet, NEW c \in Client
               PROVE  /\ state[c].status = "outgoing-ringing" => state[c].call \in armed[c] \cup refused[c]
                      /\ state[c].status = "incoming-ringing" =>
                           /\ state[Peer(c)].status = "outgoing-ringing"
                           /\ state[Peer(c)].call = state[c].call
                           /\ state[Peer(c)].call \in armed[Peer(c)]
    BY DEF NoLoneRing
  <2>1. CASE Blank
    BY <2>1 DEF Blank
  <2>2. ASSUME NEW d \in Client, Lone(d, Peer(d))
        PROVE  /\ state[c].status = "outgoing-ringing" => state[c].call \in armed[c] \cup refused[c]
               /\ state[c].status = "incoming-ringing" =>
                    /\ state[Peer(c)].status = "outgoing-ringing"
                    /\ state[Peer(c)].call = state[c].call
                    /\ state[Peer(c)].call \in armed[Peer(c)]
    <3> DEFINE e == Peer(d)
    <3>1. Pair(d, e) /\ Lone(d, e)
      BY <2>2, Peers
    <3> HIDE DEF e
    <3>2. c = d \/ c = e
      BY <3>1 DEF Pair
    <3>3. tasks[d] = {} /\ tasks[e] = {} /\ out[d] = {} /\ net[e] = <<>>
      BY <3>1 DEF Quiet, Pair
    <3>4. Rings(d) => state[d].call \in armed[d] \cup refused[d]
      <4>1. Rings(d) /\ answered[d] # {} => refused[d] # {}
        BY <3>1, <3>3 DEF Lone, RingsOut
      <4>2. Rings(d) => state[d].call \in armed[d] \/ answered[d] # {}
        BY <3>1 DEF TimedInv, Timed, Pair
      <4>3. Rings(d) => state[d].call \in used /\ refused[d] \subseteq used
        BY <3>1 DEF KnownInv, KnownCalls, Rings, Pair
      <4> QED BY <4>1, <4>2, <4>3, SameCall
    <3>5. state[e].status = "incoming-ringing" => Rings(d)
      BY <3>1, <3>3, NothingHas DEF Lone, Together, Starts, Accepting
    <3>6. state[d].status # "incoming-ringing" /\ state[e].status # "outgoing-ringing"
      BY <3>1 DEF Lone, Roles
    <3>7. state[e].status = "incoming-ringing" => state[d].call = state[e].call
      <4>1. ASSUME NEW b \in {d, e}, state[b].status \notin {"idle", "ended"}
            PROVE  state[b].call \in used
        BY <3>1, <4>1 DEF KnownInv, KnownCalls, Pair
      <4> QED BY <3>5, <4>1, SameCall DEF Rings
    <3>8. state[e].status = "incoming-ringing" => state[d].call \in armed[d]
      <4>1. state[e].status = "incoming-ringing" => answered[d] = {}
        BY <3>1, <3>3 DEF Lone, RingsIn, Answering, Accepting
      <4> QED BY <3>1, <3>5, <4>1 DEF TimedInv, Timed, Pair
    <3> QED BY <3>1, <3>2, <3>4, <3>5, <3>6, <3>7, <3>8 DEF Rings, Pair
  <2> QED BY <2>1, <2>2 DEF LoneInv
<1> QED BY <1>1, TypeInvariant, TimedInvariant, KnownInvariant, LoneInvariant, PTL

=============================================================================
