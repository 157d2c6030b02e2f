---------------------------- MODULE HistoryProofs -----------------------------
(***************************************************************************)
(* Proofs about History: types, what a history keeps and loses, and where  *)
(* a message is, from the user who sends it to the history of the other.   *)
(***************************************************************************)
EXTENDS History, TLAPS

-----------------------------------------------------------------------------
(* What an activation carries fits what it does *)

Text == [type : {"message"}, id : Id]
Opening == [type : {"file-opened"}, id : Id]
TimerChange == [type : {"timer"}, on : BOOLEAN]

ActOK(a) ==
  /\ a \in Activation \cup {Idle}
  /\ a.op = "send" => a.what \in Text
  /\ a.op = "open" => a.what \in Opening
  /\ a.op = "timer" => a.what \in TimerChange
  /\ a.step = "post" => a.op \in {"send", "open", "timer"}
  /\ a.step = "set" => a.op = "timer"
  /\ a.step \in {"delivered", "read"} => a.batch # <<>> /\ Head(a.batch).type = "message"
  /\ ~a.some => a.batch = <<>>

TypeInv == TypeOK /\ \A u \in User, s \in Slot : ActOK(act[u][s])

LEMMA PeerType == \A u \in User : Peer(u) \in User
  BY HistoryAssumption DEF Peer

LEMMA EmptyType == Empty \in Copy /\ Ids(Empty) = {}
  BY DEF Empty, Copy, Ids

(* An activation in progress or none *)
AnyActivation ==
  [op : {"none", "send", "open", "timer", "poll"},
   step : {"none", "post", "load", "save", "set", "fetch", "handle", "delivered", "read"},
   what : Envelope \cup {None}, batch : Seq(Envelope), some : BOOLEAN, copy : Copy,
   stale : BOOLEAN]

LEMMA IdleType == Idle \in AnyActivation
  BY EmptyType DEF Idle, AnyActivation

LEMMA IdleOK == ActOK(Idle)
  BY EmptyType DEF ActOK, Idle

LEMMA EnvelopeTypes == Text \cup Opening \cup TimerChange \subseteq Envelope
  BY DEF Text, Opening, TimerChange, Envelope

LEMMA SlotSplit == Handler \subseteq Slot /\ Poller \subseteq Slot
  BY DEF Slot

(* The activation becomes a *)
Becomes(u, s, a) == act' = [act EXCEPT ![u][s] = a]

LEMMA OneChanges ==
  ASSUME TypeInv, NEW u \in User, NEW s \in Slot, NEW a, ActOK(a),
         Becomes(u, s, a)
  PROVE  /\ act' \in [User -> [Slot -> Activation \cup {Idle}]]
         /\ act'[u][s] = a
         /\ \A v \in User, r \in Slot : <<v, r>> # <<u, s>> => act'[v][r] = act[v][r]
         /\ \A v \in User, r \in Slot : ActOK(act'[v][r])
<1>1. act \in [User -> [Slot -> Activation \cup {Idle}]]
  BY DEF TypeInv, TypeOK
<1>2. a \in Activation \cup {Idle}
  BY DEF ActOK
<1>3. act' \in [User -> [Slot -> Activation \cup {Idle}]]
  BY <1>1, <1>2 DEF Becomes
<1>4. act'[u][s] = a /\ \A v \in User, r \in Slot : <<v, r>> # <<u, s>> => act'[v][r] = act[v][r]
  BY <1>1 DEF Becomes
<1>5. \A v \in User, r \in Slot : ActOK(act'[v][r])
  BY <1>4 DEF TypeInv
<1> QED
  BY <1>3, <1>4, <1>5

LEMMA BeginChanges ==
  ASSUME TypeInv, NEW u \in User, NEW s \in Slot, NEW what,
         NEW op \in {"send", "open", "timer", "poll"}, NEW step \in {"post", "fetch"},
         \/ op = "send" /\ step = "post" /\ what \in Text
         \/ op = "open" /\ step = "post" /\ what \in Opening
         \/ op = "timer" /\ step = "post" /\ what \in TimerChange
         \/ op = "poll" /\ step = "fetch" /\ what = None,
         Begin(u, s, op, step, what)
  PROVE  /\ act' \in [User -> [Slot -> Activation \cup {Idle}]]
         /\ act[u][s] = Idle
         /\ act'[u][s].op = op /\ act'[u][s].step = step
         /\ \A v \in User, r \in Slot : <<v, r>> # <<u, s>> => act'[v][r] = act[v][r]
         /\ \A v \in User, r \in Slot : ActOK(act'[v][r])
         /\ overlapped' \in [User -> BOOLEAN]
<1> DEFINE a == [Idle EXCEPT !.op = op, !.step = step, !.what = what]
<1>1. /\ a.op = op /\ a.step = step /\ a.what = what /\ a.batch = <<>>
  BY DEF Idle
<1>2. what \in Envelope \cup {None}
  BY EnvelopeTypes
<1>3. a \in Activation
  BY <1>2, IdleType DEF Activation, AnyActivation
<1>4. ActOK(a)
  <2> HIDE DEF a
  <2> QED
    BY <1>1, <1>3 DEF ActOK
<1>5. Becomes(u, s, a) /\ act[u][s] = Idle
  BY DEF Begin, Becomes
<1>6. overlapped' \in [User -> BOOLEAN]
  BY DEF Begin, TypeInv, TypeOK, Busy
<1> HIDE DEF a
<1>7. /\ act' \in [User -> [Slot -> Activation \cup {Idle}]] /\ act'[u][s] = a
      /\ \A v \in User, r \in Slot : <<v, r>> # <<u, s>> => act'[v][r] = act[v][r]
      /\ \A v \in User, r \in Slot : ActOK(act'[v][r])
  BY <1>4, <1>5, OneChanges
<1>8. act'[u][s].op = op /\ act'[u][s].step = step
  BY ONLY <1>1, <1>7
<1> QED
  BY ONLY <1>5, <1>6, <1>7, <1>8

-----------------------------------------------------------------------------
(* The histories that activations hold *)

LEMMA MarkedType ==
  ASSUME NEW old \in ChatMessage, NEW type \in {"delivered", "read", "file-opened"}
  PROVE  Marked(old, type) \in ChatMessage
<1> DEFINE date == old.expires \/ (type = "read" /\ old.timed)
<1>1. old = [status |-> old.status, timed |-> old.timed, expires |-> old.expires]
  BY DEF ChatMessage
<1>2. old.timed \in BOOLEAN /\ old.expires \in BOOLEAN /\ date \in BOOLEAN
  BY DEF ChatMessage
<1>3. Marked(old, type) =
        IF type = "file-opened" THEN [old EXCEPT !.status = "opened"]
        ELSE [old EXCEPT !.status = type, !.expires = date]
  BY DEF Marked
<1> HIDE DEF date
<1> QED
  BY <1>1, <1>2, <1>3 DEF ChatMessage

LEMMA AbsentIsNone == Absent \notin ChatMessage /\ Absent.expires = FALSE
<1>1. Absent.status = "none" /\ Absent.expires = FALSE
  BY DEF Absent
<1>2. \A c \in ChatMessage : c.status # "none"
  BY DEF ChatMessage
<1> QED
  BY <1>1, <1>2

LEMMA PutType ==
  ASSUME NEW copy \in Copy, NEW m \in Id, NEW c \in ChatMessage
  PROVE  /\ [copy EXCEPT ![m] = c] \in Copy
         /\ Ids([copy EXCEPT ![m] = c]) = Ids(copy) \cup {m}
  BY AbsentIsNone DEF Copy, Ids

LEMMA DropType ==
  ASSUME NEW copy \in Copy, NEW m \in Id
  PROVE  /\ [copy EXCEPT ![m] = Absent] \in Copy
         /\ Ids([copy EXCEPT ![m] = Absent]) = Ids(copy) \ {m}
  BY DEF Copy, Ids

LEMMA AliveType ==
  ASSUME NEW u \in User, NEW copy \in Copy
  PROVE  /\ Alive(u, copy) \in Copy
         /\ Ids(copy) \ due[u] \subseteq Ids(Alive(u, copy))
         /\ \A m \in due[u] \cap Id : ~Alive(u, copy)[m].expires
  BY AbsentIsNone DEF Alive, Copy, Ids

LEMMA SentType ==
  ASSUME TypeOK, NEW u \in User, NEW m \in Id
  PROVE  Sent(u, m) \in ChatMessage
  BY DEF Sent, ChatMessage, TypeOK

LEMMA ArrivedType ==
  ASSUME TypeOK, NEW u \in User, NEW m \in Id
  PROVE  Arrived(u, m) \in ChatMessage
  BY DEF Arrived, ChatMessage, TypeOK

-----------------------------------------------------------------------------
(* Types *)

LEMMA GotoChanges ==
  ASSUME TypeInv, NEW u \in User, NEW s \in Slot, act[u][s] # Idle,
         NEW step \in {"load", "set", "read"},
         \/ step = "load"
         \/ step = "set" /\ act[u][s].op = "timer"
         \/ step = "read" /\ act[u][s].step = "delivered",
         Goto(u, s, step)
  PROVE  /\ act' \in [User -> [Slot -> Activation \cup {Idle}]]
         /\ act'[u][s].op = act[u][s].op /\ act'[u][s].step = step
         /\ \A v \in User, r \in Slot : <<v, r>> # <<u, s>> => act'[v][r] = act[v][r]
         /\ \A v \in User, r \in Slot : ActOK(act'[v][r])
<1>1. PICK b : b = act[u][s]
  OBVIOUS
<1>2. ActOK(b) /\ b \in Activation
  BY <1>1 DEF TypeInv, ActOK
<1>0. PICK a : a = [b EXCEPT !.step = step]
  OBVIOUS
<1>3. a \in Activation /\ a.op = b.op /\ a.step = step /\ a.what = b.what
      /\ a.batch = b.batch /\ a.some = b.some
  BY <1>0, <1>2 DEF Activation
<1>4. ActOK(a)
  BY <1>1, <1>2, <1>3 DEF ActOK
<1>5. act' = [act EXCEPT ![u][s] = a]
  BY <1>0, <1>1 DEF Goto
<1>6. /\ act' \in [User -> [Slot -> Activation \cup {Idle}]] /\ act'[u][s] = a
      /\ \A v \in User, r \in Slot : <<v, r>> # <<u, s>> => act'[v][r] = act[v][r]
      /\ \A v \in User, r \in Slot : ActOK(act'[v][r])
  <2>1. act \in [User -> [Slot -> Activation \cup {Idle}]] /\ a \in Activation \cup {Idle}
    BY <1>3 DEF TypeInv, TypeOK
  <2>2. act' \in [User -> [Slot -> Activation \cup {Idle}]]
    BY <1>5, <2>1
  <2>3. act'[u][s] = a /\ \A v \in User, r \in Slot : <<v, r>> # <<u, s>> => act'[v][r] = act[v][r]
    BY <1>5, <2>1
  <2>4. \A v \in User, r \in Slot : ActOK(act'[v][r])
    BY <1>4, <2>3 DEF TypeInv
  <2> QED
    BY <2>2, <2>3, <2>4
<1>7. act'[u][s].op = act[u][s].op /\ act'[u][s].step = step
  BY <1>1, <1>3, <1>6
<1> QED
  BY <1>6, <1>7

LEMMA HoldsChanges ==
  ASSUME TypeInv, NEW u \in User, NEW s \in Slot, act[u][s] # Idle,
         NEW step \in {"save", "handle"}, NEW copy \in Copy,
         Holds(u, s, step, copy)
  PROVE  /\ act' \in [User -> [Slot -> Activation \cup {Idle}]]
         /\ act'[u][s].op = act[u][s].op /\ act'[u][s].step = step
         /\ act'[u][s].what = act[u][s].what
         /\ act'[u][s].copy = copy /\ act'[u][s].stale = act[u][s].stale
         /\ act'[u][s].batch = act[u][s].batch /\ act'[u][s].some = act[u][s].some
         /\ \A v \in User, r \in Slot : <<v, r>> # <<u, s>> => act'[v][r] = act[v][r]
         /\ \A v \in User, r \in Slot : ActOK(act'[v][r])
<1>1. PICK b : b = act[u][s]
  OBVIOUS
<1>2. ActOK(b) /\ b \in Activation
  BY <1>1 DEF TypeInv, ActOK
<1>0. PICK a : a = [b EXCEPT !.step = step, !.copy = copy]
  OBVIOUS
<1>3. a \in Activation /\ a.op = b.op /\ a.step = step /\ a.what = b.what
      /\ a.batch = b.batch /\ a.some = b.some /\ a.copy = copy /\ a.stale = b.stale
  BY <1>0, <1>2 DEF Activation
<1>4. ActOK(a)
  BY <1>1, <1>2, <1>3 DEF ActOK
<1>5. act' = [act EXCEPT ![u][s] = a]
  BY <1>0, <1>1 DEF Holds
<1>6. /\ act' \in [User -> [Slot -> Activation \cup {Idle}]] /\ act'[u][s] = a
      /\ \A v \in User, r \in Slot : <<v, r>> # <<u, s>> => act'[v][r] = act[v][r]
      /\ \A v \in User, r \in Slot : ActOK(act'[v][r])
  <2>1. act \in [User -> [Slot -> Activation \cup {Idle}]] /\ a \in Activation \cup {Idle}
    BY <1>3 DEF TypeInv, TypeOK
  <2>2. act' \in [User -> [Slot -> Activation \cup {Idle}]]
    BY <1>5, <2>1
  <2>3. act'[u][s] = a /\ \A v \in User, r \in Slot : <<v, r>> # <<u, s>> => act'[v][r] = act[v][r]
    BY <1>5, <2>1
  <2>4. \A v \in User, r \in Slot : ActOK(act'[v][r])
    BY <1>4, <2>3 DEF TypeInv
  <2> QED
    BY <2>2, <2>3, <2>4
<1>7. /\ act'[u][s].op = act[u][s].op /\ act'[u][s].step = step
      /\ act'[u][s].what = act[u][s].what
      /\ act'[u][s].copy = copy /\ act'[u][s].stale = act[u][s].stale
      /\ act'[u][s].batch = act[u][s].batch /\ act'[u][s].some = act[u][s].some
  BY <1>1, <1>3, <1>6
<1> QED
  BY <1>6, <1>7

LEMMA ReturnChanges ==
  ASSUME TypeInv, NEW u \in User, NEW s \in Slot, act' = [act EXCEPT ![u][s] = Idle]
  PROVE  /\ act' \in [User -> [Slot -> Activation \cup {Idle}]]
         /\ act'[u][s] = Idle
         /\ \A v \in User, r \in Slot : <<v, r>> # <<u, s>> => act'[v][r] = act[v][r]
         /\ \A v \in User, r \in Slot : ActOK(act'[v][r])
  BY IdleOK, OneChanges DEF Becomes

(* The message that a poll handles, or receipts *)
LEMMA BatchHead ==
  ASSUME TypeInv, NEW u \in User, NEW s \in Slot, act[u][s].batch # <<>>
  PROVE  /\ Head(act[u][s].batch) \in Envelope
         /\ Tail(act[u][s].batch) \in Seq(Envelope)
         /\ act[u][s].some = TRUE
<1>1. act[u][s].batch \in Seq(Envelope) /\ act[u][s].some \in BOOLEAN
  BY IdleType DEF TypeInv, TypeOK, Activation, AnyActivation
<1> QED
  BY <1>1 DEF TypeInv, ActOK

LEMMA PostType ==
  ASSUME TypeOK, NEW u \in User, NEW e \in Envelope, Post(u, e)
  PROVE  queue' \in [User -> Seq(Envelope)]
  BY PeerType DEF Post, TypeOK

-----------------------------------------------------------------------------
(* What an activation holds comes from the history: what it lacks of the    *)
(* history has expired or is the file it deletes, and without an envelope   *)
(* it is the history.                                                       *)

Comes(a, h, d) ==
  (a.step \in {"save", "handle", "delivered", "read"} /\ ~a.stale) =>
    \A m \in Ids(h) :
      m \in Ids(a.copy) \/ m \in d \/ (a.op = "open" /\ a.what.id = m)

Same(a, h) == (a.step = "handle" /\ ~a.stale /\ ~a.some) => a.copy = h

HoldInv ==
  \A u \in User, s \in Slot :
    Comes(act[u][s], history[u], due[u]) /\ Same(act[u][s], history[u])

Inv == TypeInv /\ HoldInv

LEMMA IdleHolds == \A h, d : Comes(Idle, h, d) /\ Same(Idle, h)
  BY DEF Comes, Same, Idle

(* One activation changes, no history does *)
LEMMA OneHolds ==
  ASSUME Inv, NEW u \in User, NEW s \in Slot, history' = history, due' = due,
         \A v \in User, r \in Slot : <<v, r>> # <<u, s>> => act'[v][r] = act[v][r],
         Comes(act'[u][s], history[u], due[u]), Same(act'[u][s], history[u])
  PROVE  HoldInv'
<1> SUFFICES ASSUME NEW v \in User, NEW r \in Slot
             PROVE  Comes(act'[v][r], history[v], due[v]) /\ Same(act'[v][r], history[v])
  BY DEF HoldInv
<1>1. CASE <<v, r>> = <<u, s>>
  BY <1>1
<1>2. CASE <<v, r>> # <<u, s>>
  BY <1>2 DEF Inv, HoldInv
<1> QED
  BY <1>1, <1>2

(* An activation that does not hold a history *)
LEMMA NotHolding ==
  ASSUME NEW a, NEW h, NEW d, a.step \notin {"save", "handle", "delivered", "read"}
  PROVE  Comes(a, h, d) /\ Same(a, h)
  BY DEF Comes, Same

LEMMA StepIsNotIdle == Idle.step = "none" /\ Idle.op = "none" /\ Idle.batch = <<>>
  BY DEF Idle

-----------------------------------------------------------------------------
(* Each action preserves the invariant *)

LEMMA InitInv == Init => Inv
<1> SUFFICES ASSUME Init PROVE Inv
  OBVIOUS
<1>1. TypeOK
  <2>1. history \in [User -> Copy] /\ timer \in [User -> BOOLEAN]
    BY EmptyType DEF Init
  <2>2. queue \in [User -> Seq(Envelope)] /\ shown \in [User -> SUBSET Id]
    BY DEF Init
  <2>3. act \in [User -> [Slot -> Activation \cup {Idle}]]
    <3>1. act = [u \in User |-> [s \in Slot |-> Idle]]
      BY DEF Init
    <3> QED
      BY <3>1
  <2>4. message \in [Id -> [by : User, kind : Kinds] \cup {None}]
    BY DEF Init
  <2>5. due \in [User -> SUBSET Id] /\ destroyed \in [User -> SUBSET Id]
    BY DEF Init
  <2>6. clobbered \in [User -> BOOLEAN] /\ overlapped \in [User -> BOOLEAN]
    BY DEF Init
  <2>7. crossed \in BOOLEAN
    BY DEF Init
  <2>8. acts \in 0..MaxActs /\ failed \in 0..MaxFailed
    BY HistoryAssumption DEF Init
  <2> QED
    BY <2>1, <2>2, <2>3, <2>4, <2>5, <2>6, <2>7, <2>8 DEF TypeOK
<1>2. \A u \in User, s \in Slot : act[u][s] = Idle
  BY DEF Init
<1>3. HoldInv
  BY <1>2, IdleHolds DEF HoldInv
<1> QED
  BY <1>1, <1>2, <1>3, IdleOK DEF Inv, TypeInv

LEMMA SendInv ==
  ASSUME Inv, NEW u \in User, NEW s \in Slot, Send(u, s)
  PROVE  Inv'
<1>1. PICK m \in Id, kind \in Kinds :
        /\ message' = [message EXCEPT ![m] = [by |-> u, kind |-> kind]]
        /\ Begin(u, s, "send", "post", [type |-> "message", id |-> m])
  BY DEF Send
<1>2. [type |-> "message", id |-> m] \in Text
  BY DEF Text
<1>3. /\ act' \in [User -> [Slot -> Activation \cup {Idle}]]
      /\ act'[u][s].step = "post"
      /\ \A v \in User, r \in Slot : <<v, r>> # <<u, s>> => act'[v][r] = act[v][r]
      /\ \A v \in User, r \in Slot : ActOK(act'[v][r])
      /\ overlapped' \in [User -> BOOLEAN]
  BY <1>1, <1>2, BeginChanges DEF Inv
<1>4. acts' \in 0..MaxActs
  BY HistoryAssumption DEF Send, Did, Inv, TypeInv, TypeOK
<1>5. message' \in [Id -> [by : User, kind : Kinds] \cup {None}]
  <2>1. [by |-> u, kind |-> kind] \in [by : User, kind : Kinds]
    OBVIOUS
  <2> QED
    BY <1>1, <2>1 DEF Inv, TypeInv, TypeOK
<1>6. TypeOK'
  BY <1>3, <1>4, <1>5 DEF Send, Inv, TypeInv, TypeOK, disk
<1>7. HoldInv'
  BY <1>3, NotHolding, OneHolds DEF Send, disk
<1> QED
  BY <1>3, <1>6, <1>7 DEF Inv, TypeInv

LEMMA OpenFileInv ==
  ASSUME Inv, NEW u \in User, NEW s \in Slot, OpenFile(u, s)
  PROVE  Inv'
<1>1. PICK m \in shown[u] :
        Begin(u, s, "open", "post", [type |-> "file-opened", id |-> m])
  BY DEF OpenFile
<1>2. [type |-> "file-opened", id |-> m] \in Opening
  BY DEF Opening, Inv, TypeInv, TypeOK
<1>3. /\ act' \in [User -> [Slot -> Activation \cup {Idle}]]
      /\ act'[u][s].step = "post"
      /\ \A v \in User, r \in Slot : <<v, r>> # <<u, s>> => act'[v][r] = act[v][r]
      /\ \A v \in User, r \in Slot : ActOK(act'[v][r])
      /\ overlapped' \in [User -> BOOLEAN]
  BY <1>1, <1>2, BeginChanges DEF Inv
<1>4. acts' \in 0..MaxActs
  BY HistoryAssumption DEF OpenFile, Did, Inv, TypeInv, TypeOK
<1>6. TypeOK'
  BY <1>3, <1>4 DEF OpenFile, Inv, TypeInv, TypeOK, disk
<1>7. HoldInv'
  BY <1>3, NotHolding, OneHolds DEF OpenFile, disk
<1> QED
  BY <1>3, <1>6, <1>7 DEF Inv, TypeInv

LEMMA SetTimerInv ==
  ASSUME Inv, NEW u \in User, NEW s \in Slot, SetTimer(u, s)
  PROVE  Inv'
<1>1. PICK on \in BOOLEAN : Begin(u, s, "timer", "post", [type |-> "timer", on |-> on])
  BY DEF SetTimer
<1>2. [type |-> "timer", on |-> on] \in TimerChange
  BY DEF TimerChange
<1>3. /\ act' \in [User -> [Slot -> Activation \cup {Idle}]]
      /\ act'[u][s].step = "post"
      /\ \A v \in User, r \in Slot : <<v, r>> # <<u, s>> => act'[v][r] = act[v][r]
      /\ \A v \in User, r \in Slot : ActOK(act'[v][r])
      /\ overlapped' \in [User -> BOOLEAN]
  BY <1>1, <1>2, BeginChanges DEF Inv
<1>4. acts' \in 0..MaxActs
  BY HistoryAssumption DEF SetTimer, Did, Inv, TypeInv, TypeOK
<1>6. TypeOK'
  BY <1>3, <1>4 DEF SetTimer, Inv, TypeInv, TypeOK, disk
<1>7. HoldInv'
  BY <1>3, NotHolding, OneHolds DEF SetTimer, disk
<1> QED
  BY <1>3, <1>6, <1>7 DEF Inv, TypeInv

LEMMA PollInv ==
  ASSUME Inv, NEW u \in User, NEW s \in Slot, Poll(u, s)
  PROVE  Inv'
<1>3. /\ act' \in [User -> [Slot -> Activation \cup {Idle}]]
      /\ act'[u][s].step = "fetch"
      /\ \A v \in User, r \in Slot : <<v, r>> # <<u, s>> => act'[v][r] = act[v][r]
      /\ \A v \in User, r \in Slot : ActOK(act'[v][r])
      /\ overlapped' \in [User -> BOOLEAN]
  BY BeginChanges DEF Inv, Poll
<1>6. TypeOK'
  BY <1>3 DEF Poll, Inv, TypeInv, TypeOK, disk
<1>7. HoldInv'
  BY <1>3, NotHolding, OneHolds DEF Poll, disk
<1> QED
  BY <1>3, <1>6, <1>7 DEF Inv, TypeInv

LEMMA PostedInv ==
  ASSUME Inv, NEW u \in User, NEW s \in Slot, Posted(u, s)
  PROVE  Inv'
<1> DEFINE step == IF act[u][s].op = "timer" THEN "set" ELSE "load"
<1>1. act[u][s].step = "post" /\ act[u][s] # Idle
  BY StepIsNotIdle DEF Posted
<1>2. Goto(u, s, step) /\ Post(u, act[u][s].what)
  BY DEF Posted
<1>3. step \in {"load", "set", "read"} /\ (step = "load" \/ (step = "set" /\ act[u][s].op = "timer"))
  OBVIOUS
<1>4. act[u][s].what \in Envelope
  BY <1>1, EnvelopeTypes DEF Inv, TypeInv, ActOK
<1>5. queue' \in [User -> Seq(Envelope)]
  BY <1>2, <1>4, PostType DEF Inv, TypeInv
<1> HIDE DEF step
<1>6. /\ act' \in [User -> [Slot -> Activation \cup {Idle}]]
      /\ act'[u][s].step = step
      /\ \A v \in User, r \in Slot : <<v, r>> # <<u, s>> => act'[v][r] = act[v][r]
      /\ \A v \in User, r \in Slot : ActOK(act'[v][r])
  BY <1>1, <1>2, <1>3, GotoChanges DEF Inv
<1>7. crossed' \in BOOLEAN
  BY DEF Posted, Inv, TypeInv, TypeOK, TimerUnderWay
<1>8. TypeOK'
  BY <1>5, <1>6, <1>7 DEF Posted, Inv, TypeInv, TypeOK, disk
<1>9. HoldInv'
  BY <1>3, <1>6, NotHolding, OneHolds DEF Posted, disk
<1> QED
  BY <1>6, <1>8, <1>9 DEF Inv, TypeInv

LEMMA EndInv ==
  ASSUME Inv, NEW u \in User, NEW s \in Slot, act' = [act EXCEPT ![u][s] = Idle]
  PROVE  /\ act' \in [User -> [Slot -> Activation \cup {Idle}]]
         /\ \A v \in User, r \in Slot : ActOK(act'[v][r])
         /\ (history' = history /\ due' = due) => HoldInv'
<1>1. /\ act' \in [User -> [Slot -> Activation \cup {Idle}]]
      /\ act'[u][s] = Idle
      /\ \A v \in User, r \in Slot : <<v, r>> # <<u, s>> => act'[v][r] = act[v][r]
      /\ \A v \in User, r \in Slot : ActOK(act'[v][r])
  BY ReturnChanges DEF Inv
<1> QED
  BY <1>1, IdleHolds, OneHolds

LEMMA TimerSetInv ==
  ASSUME Inv, NEW u \in User, NEW s \in Slot, TimerSet(u, s)
  PROVE  Inv'
<1>1. act[u][s].what.on \in BOOLEAN
  BY StepIsNotIdle DEF TimerSet, Inv, TypeInv, ActOK, TimerChange
<1>2. timer' \in [User -> BOOLEAN]
  BY <1>1 DEF TimerSet, Inv, TypeInv, TypeOK
<1>3. act' \in [User -> [Slot -> Activation \cup {Idle}]] /\ HoldInv'
      /\ \A v \in User, r \in Slot : ActOK(act'[v][r])
  BY EndInv DEF TimerSet, past
<1>4. TypeOK'
  BY <1>2, <1>3 DEF TimerSet, Inv, TypeInv, TypeOK, past
<1> QED
  BY <1>3, <1>4 DEF Inv, TypeInv

LEMMA AppendedInv ==
  ASSUME Inv, NEW u \in User, NEW s \in Slot, Appended(u, s)
  PROVE  Inv'
<1> DEFINE m == act[u][s].what.id
           copy == [history[u] EXCEPT ![m] = Sent(u, m)]
<1>1. act[u][s] # Idle /\ Holds(u, s, "save", copy)
  BY StepIsNotIdle DEF Appended
<1>2. m \in Id
  BY DEF Appended, Inv, TypeInv, ActOK, Text
<1>3. copy \in Copy /\ Ids(history[u]) \subseteq Ids(copy)
  <2>1. history[u] \in Copy /\ TypeOK
    BY DEF Inv, TypeInv, TypeOK
  <2>2. Sent(u, m) \in ChatMessage
    BY <1>2, <2>1, SentType
  <2> QED
    BY <1>2, <2>1, <2>2, PutType
<1> HIDE DEF copy
<1>4. /\ act' \in [User -> [Slot -> Activation \cup {Idle}]]
      /\ act'[u][s].step = "save" /\ act'[u][s].copy = copy
      /\ \A v \in User, r \in Slot : <<v, r>> # <<u, s>> => act'[v][r] = act[v][r]
      /\ \A v \in User, r \in Slot : ActOK(act'[v][r])
  BY <1>1, <1>3, HoldsChanges DEF Inv
<1>5. Comes(act'[u][s], history[u], due[u]) /\ Same(act'[u][s], history[u])
  BY <1>3, <1>4 DEF Comes, Same
<1>6. TypeOK' /\ history' = history /\ due' = due
  BY <1>4 DEF Appended, Inv, TypeInv, TypeOK, disk, past
<1>7. HoldInv'
  BY <1>4, <1>5, <1>6, OneHolds
<1> QED
  BY <1>4, <1>6, <1>7 DEF Inv, TypeInv

LEMMA OpenedInv ==
  ASSUME Inv, NEW u \in User, NEW s \in Slot, Opened(u, s)
  PROVE  Inv'
<1> DEFINE m == act[u][s].what.id
           copy == [history[u] EXCEPT ![m] = Absent]
<1>1. m \in Id /\ act[u][s] # Idle /\ act[u][s].op = "open"
  BY StepIsNotIdle DEF Opened, Inv, TypeInv, ActOK, Opening
<1>2. copy \in Copy /\ Ids(copy) = Ids(history[u]) \ {m}
  BY <1>1, DropType DEF Inv, TypeInv, TypeOK
<1>3. CASE Return(u, s, history[u])
  <2>1. act' = [act EXCEPT ![u][s] = Idle] /\ shown' \in [User -> SUBSET Id]
    BY <1>3 DEF Return, Inv, TypeInv, TypeOK, Ids
  <2>2. history' = history /\ due' = due
    BY DEF Opened, disk, past
  <2>3. act' \in [User -> [Slot -> Activation \cup {Idle}]] /\ HoldInv'
        /\ \A v \in User, r \in Slot : ActOK(act'[v][r])
    BY <2>1, <2>2, EndInv
  <2>4. TypeOK'
    BY <2>1, <2>3 DEF Opened, Inv, TypeInv, TypeOK, disk, past
  <2> QED
    BY <2>3, <2>4 DEF Inv, TypeInv
<1>4. CASE Holds(u, s, "save", copy) /\ UNCHANGED shown
  <2> HIDE DEF copy
  <2>1. /\ act' \in [User -> [Slot -> Activation \cup {Idle}]]
        /\ act'[u][s].op = "open" /\ act'[u][s].step = "save"
        /\ act'[u][s].what = act[u][s].what /\ act'[u][s].copy = copy
        /\ \A v \in User, r \in Slot : <<v, r>> # <<u, s>> => act'[v][r] = act[v][r]
        /\ \A v \in User, r \in Slot : ActOK(act'[v][r])
    BY <1>1, <1>2, <1>4, HoldsChanges DEF Inv
  <2>2. Comes(act'[u][s], history[u], due[u]) /\ Same(act'[u][s], history[u])
    BY <1>2, <2>1 DEF Comes, Same
  <2>3. TypeOK' /\ history' = history /\ due' = due
    BY <1>4, <2>1 DEF Opened, Inv, TypeInv, TypeOK, disk, past
  <2>4. HoldInv'
    BY <2>1, <2>2, <2>3, OneHolds
  <2> QED
    BY <2>1, <2>3, <2>4 DEF Inv, TypeInv
<1> QED
  BY <1>3, <1>4 DEF Opened

LEMMA PollLoadedInv ==
  ASSUME Inv, NEW u \in User, NEW s \in Slot, PollLoaded(u, s)
  PROVE  Inv'
<1>1. act[u][s] # Idle /\ Holds(u, s, "handle", history[u]) /\ history[u] \in Copy
  BY StepIsNotIdle DEF PollLoaded, Inv, TypeInv, TypeOK
<1>2. /\ act' \in [User -> [Slot -> Activation \cup {Idle}]]
      /\ act'[u][s].copy = history[u]
      /\ \A v \in User, r \in Slot : <<v, r>> # <<u, s>> => act'[v][r] = act[v][r]
      /\ \A v \in User, r \in Slot : ActOK(act'[v][r])
  BY <1>1, HoldsChanges DEF Inv
<1>3. Comes(act'[u][s], history[u], due[u]) /\ Same(act'[u][s], history[u])
  BY <1>2 DEF Comes, Same
<1>4. TypeOK' /\ history' = history /\ due' = due
  BY <1>2 DEF PollLoaded, Inv, TypeInv, TypeOK, disk, past
<1>5. HoldInv'
  BY <1>2, <1>3, <1>4, OneHolds
<1> QED
  BY <1>2, <1>4, <1>5 DEF Inv, TypeInv

LEMMA SweepInv ==
  ASSUME Inv, NEW u \in User, NEW s \in Slot, Sweep(u, s)
  PROVE  Inv'
<1> DEFINE alive == Alive(u, act[u][s].copy)
<1>1. act[u][s].step = "handle" /\ act[u][s] # Idle /\ act[u][s] \in Activation
  BY StepIsNotIdle DEF Sweep, Inv, TypeInv, ActOK
<1>2. act[u][s].copy \in Copy
  BY <1>1 DEF Activation
<1>3. alive \in Copy /\ Ids(act[u][s].copy) \ due[u] \subseteq Ids(alive)
  BY <1>2, AliveType
<1>4. CASE Return(u, s, alive)
  <2>1. act' = [act EXCEPT ![u][s] = Idle] /\ shown' \in [User -> SUBSET Id]
    BY <1>4 DEF Return, Inv, TypeInv, TypeOK, Ids
  <2>2. history' = history /\ due' = due
    BY DEF Sweep, disk, past
  <2>3. act' \in [User -> [Slot -> Activation \cup {Idle}]] /\ HoldInv'
        /\ \A v \in User, r \in Slot : ActOK(act'[v][r])
    BY <2>1, <2>2, EndInv
  <2>4. TypeOK'
    BY <2>1, <2>3 DEF Sweep, Inv, TypeInv, TypeOK, disk, past
  <2> QED
    BY <2>3, <2>4 DEF Inv, TypeInv
<1>5. CASE Holds(u, s, "save", alive) /\ UNCHANGED shown
  <2> HIDE DEF alive
  <2>1. /\ act' \in [User -> [Slot -> Activation \cup {Idle}]]
        /\ act'[u][s].op = act[u][s].op /\ act'[u][s].step = "save"
        /\ act'[u][s].what = act[u][s].what /\ act'[u][s].copy = alive
        /\ act'[u][s].stale = act[u][s].stale
        /\ \A v \in User, r \in Slot : <<v, r>> # <<u, s>> => act'[v][r] = act[v][r]
        /\ \A v \in User, r \in Slot : ActOK(act'[v][r])
    BY <1>1, <1>3, <1>5, HoldsChanges DEF Inv
  <2>2. Comes(act[u][s], history[u], due[u])
    BY DEF Inv, HoldInv
  <2>3. Comes(act'[u][s], history[u], due[u]) /\ Same(act'[u][s], history[u])
    BY <1>1, <1>3, <2>1, <2>2 DEF Comes, Same
  <2>4. TypeOK' /\ history' = history /\ due' = due
    BY <1>5, <2>1 DEF Sweep, Inv, TypeInv, TypeOK, disk, past
  <2>5. HoldInv'
    BY <2>1, <2>3, <2>4, OneHolds
  <2> QED
    BY <2>1, <2>4, <2>5 DEF Inv, TypeInv
<1> QED
  BY <1>4, <1>5 DEF Sweep

LEMMA FailInv ==
  ASSUME Inv, NEW u \in User, NEW s \in Slot, Fail(u, s)
  PROVE  Inv'
<1>1. act' \in [User -> [Slot -> Activation \cup {Idle}]] /\ HoldInv'
      /\ \A v \in User, r \in Slot : ActOK(act'[v][r])
  BY EndInv DEF Fail, disk
<1>2. failed' \in 0..MaxFailed
  BY HistoryAssumption DEF Fail, Failed, Inv, TypeInv, TypeOK
<1>3. TypeOK'
  BY <1>1, <1>2 DEF Fail, Inv, TypeInv, TypeOK, disk
<1> QED
  BY <1>1, <1>3 DEF Inv, TypeInv

LEMMA ExpireInv ==
  ASSUME Inv, NEW u \in User, Expire(u)
  PROVE  Inv'
<1>1. PICK m \in Id : due' = [due EXCEPT ![u] = @ \cup {m}]
  BY DEF Expire
<1>2. due' \in [User -> SUBSET Id] /\ \A v \in User : due[v] \subseteq due'[v]
  BY <1>1 DEF Inv, TypeInv, TypeOK
<1>3. act' = act /\ history' = history
  BY DEF Expire, disk
<1>4. HoldInv'
  BY <1>2, <1>3 DEF Inv, HoldInv, Comes
<1>5. TypeOK'
  BY <1>2 DEF Expire, Inv, TypeInv, TypeOK, disk
<1> QED
  BY <1>3, <1>4, <1>5 DEF Inv, TypeInv

LEMMA ReopenInv ==
  ASSUME Inv, NEW u \in User, Reopen(u)
  PROVE  Inv'
<1>1. /\ act' \in [User -> [Slot -> Activation \cup {Idle}]]
      /\ \A r \in Slot : act'[u][r] = Idle
      /\ \A v \in User \ {u}, r \in Slot : act'[v][r] = act[v][r]
  BY DEF Reopen, Inv, TypeInv, TypeOK
<1>2. \A v \in User, r \in Slot : ActOK(act'[v][r])
  BY <1>1, IdleOK DEF Inv, TypeInv
<1>3. history' = history /\ due' = due
  BY DEF Reopen, disk
<1>4. HoldInv'
  BY <1>1, <1>3, IdleHolds DEF Inv, HoldInv
<1>5. failed' \in 0..MaxFailed /\ shown' \in [User -> SUBSET Id]
  BY HistoryAssumption DEF Reopen, Failed, Ids, Inv, TypeInv, TypeOK
<1>6. TypeOK'
  BY <1>1, <1>5 DEF Reopen, Inv, TypeInv, TypeOK, disk
<1> QED
  BY <1>2, <1>4, <1>6 DEF Inv, TypeInv

LEMMA FetchInv ==
  ASSUME Inv, NEW u \in User, NEW s \in Slot, Fetch(u, s)
  PROVE  Inv'
<1>1. PICK b : b = act[u][s]
  OBVIOUS
<1>2. ActOK(b) /\ b \in Activation /\ queue[u] \in Seq(Envelope)
  BY <1>1, StepIsNotIdle DEF Fetch, Inv, TypeInv, TypeOK, ActOK
<1>3. PICK a : a = [b EXCEPT !.step = "load", !.batch = queue[u], !.some = queue[u] # <<>>]
  OBVIOUS
<1>4. /\ a \in Activation /\ a.op = b.op /\ a.step = "load" /\ a.what = b.what
      /\ a.batch = queue[u] /\ a.some = (queue[u] # <<>>)
  BY <1>2, <1>3 DEF Activation
<1>5. ActOK(a)
  BY <1>2, <1>4 DEF ActOK
<1>6. Becomes(u, s, a)
  BY <1>1, <1>3 DEF Fetch, Becomes
<1>7. /\ act' \in [User -> [Slot -> Activation \cup {Idle}]] /\ act'[u][s] = a
      /\ \A v \in User, r \in Slot : <<v, r>> # <<u, s>> => act'[v][r] = act[v][r]
      /\ \A v \in User, r \in Slot : ActOK(act'[v][r])
  BY <1>5, <1>6, OneChanges DEF Inv
<1>8. queue' \in [User -> Seq(Envelope)]
  BY DEF Fetch, Inv, TypeInv, TypeOK
<1>9. TypeOK' /\ history' = history /\ due' = due
  BY <1>7, <1>8 DEF Fetch, Inv, TypeInv, TypeOK, disk, past
<1>10. HoldInv'
  BY <1>4, <1>7, <1>9, NotHolding, OneHolds
<1> QED
  BY <1>7, <1>9, <1>10 DEF Inv, TypeInv

LEMMA ReceiptInv ==
  ASSUME Inv, NEW u \in User, NEW s \in Slot, Receipt(u, s)
  PROVE  Inv'
<1>1. PICK b : b = act[u][s]
  OBVIOUS
<1>2. /\ ActOK(b) /\ b \in Activation /\ b.step \in {"delivered", "read"}
      /\ b.batch \in Seq(Envelope) /\ b.batch # <<>> /\ b.some = TRUE
  <2>1. ActOK(b) /\ b \in Activation /\ b.step \in {"delivered", "read"}
    BY <1>1, StepIsNotIdle DEF Receipt, Inv, TypeInv, ActOK
  <2> QED
    BY <2>1 DEF ActOK, Activation
<1>3. Head(b.batch) \in Text /\ Tail(b.batch) \in Seq(Envelope)
  <2>1. Head(b.batch) \in Envelope /\ Head(b.batch).type = "message"
    BY <1>2 DEF ActOK
  <2> QED
    BY <1>2, <2>1 DEF Envelope, Text
<1>4. [type |-> b.step, id |-> Head(b.batch).id] \in Envelope
  BY <1>2, <1>3 DEF Text, Envelope
<1>5. queue' \in [User -> Seq(Envelope)]
  BY <1>1, <1>4, PostType DEF Receipt, Inv, TypeInv
<1>6. PICK a : /\ act' = [act EXCEPT ![u][s] = a]
               /\ \/ b.step = "delivered" /\ a = [b EXCEPT !.step = "read"]
                  \/ b.step = "read" /\ a = [b EXCEPT !.step = "handle", !.batch = Tail(@)]
  BY <1>1 DEF Receipt, Goto
<1>7. /\ a \in Activation /\ a.op = b.op /\ a.what = b.what /\ a.some = TRUE
      /\ a.copy = b.copy /\ a.stale = b.stale
      /\ \/ a.step = "read" /\ a.batch = b.batch
         \/ a.step = "handle"
  BY <1>2, <1>3, <1>6 DEF Activation
<1>8. ActOK(a)
  BY <1>2, <1>7 DEF ActOK
<1>9. /\ act' \in [User -> [Slot -> Activation \cup {Idle}]] /\ act'[u][s] = a
      /\ \A v \in User, r \in Slot : <<v, r>> # <<u, s>> => act'[v][r] = act[v][r]
      /\ \A v \in User, r \in Slot : ActOK(act'[v][r])
  <2>1. Becomes(u, s, a)
    BY <1>6 DEF Becomes
  <2> QED
    BY <1>8, <2>1, OneChanges DEF Inv
<1>10. Comes(b, history[u], due[u])
  BY <1>1 DEF Inv, HoldInv
<1>11. Comes(a, history[u], due[u]) /\ Same(a, history[u])
  BY <1>2, <1>7, <1>10 DEF Comes, Same
<1>12. TypeOK' /\ history' = history /\ due' = due
  BY <1>5, <1>9 DEF Receipt, Inv, TypeInv, TypeOK, disk, past
<1>13. HoldInv'
  BY <1>9, <1>11, <1>12, OneHolds
<1> QED
  BY <1>9, <1>12, <1>13 DEF Inv, TypeInv

(* What a poll makes of an envelope: nothing in the history is taken away *)
LEMMA HandledCopy ==
  ASSUME TypeOK, NEW u \in User, NEW old \in Copy, NEW e \in Envelope, NEW copy,
         \/ e.type = "timer" /\ copy = old
         \/ e.type = "message" /\ copy = [old EXCEPT ![e.id] = Arrived(u, e.id)]
         \/ /\ e.type \notin {"timer", "message"}
            /\ copy = IF old[e.id] = Absent \/ message[e.id].by # u THEN old
                      ELSE [old EXCEPT ![e.id] = Marked(@, e.type)]
  PROVE  copy \in Copy /\ Ids(old) \subseteq Ids(copy)
<1>0. ASSUME NEW m \in Id, NEW c \in ChatMessage, copy = [old EXCEPT ![m] = c]
      PROVE  copy \in Copy /\ Ids(old) \subseteq Ids(copy)
  <2>1. [old EXCEPT ![m] = c] \in Copy /\ Ids([old EXCEPT ![m] = c]) = Ids(old) \cup {m}
    BY PutType
  <2> QED
    BY ONLY <1>0, <2>1
<1>1. CASE e.type = "timer"
  BY <1>1
<1>2. CASE e.type = "message"
  <2>1. e.id \in Id
    BY <1>2 DEF Envelope
  <2>2. Arrived(u, e.id) \in ChatMessage
    BY <2>1, ArrivedType
  <2>3. copy = [old EXCEPT ![e.id] = Arrived(u, e.id)]
    BY <1>2
  <2> QED
    BY <1>0, <2>1, <2>2, <2>3
<1>3. CASE e.type \notin {"timer", "message"}
  <2>1. e.id \in Id /\ e.type \in {"delivered", "read", "file-opened"}
    BY <1>3 DEF Envelope
  <2>2. CASE copy = old
    BY <2>2
  <2>3. CASE old[e.id] # Absent /\ copy = [old EXCEPT ![e.id] = Marked(old[e.id], e.type)]
    <3>1. old[e.id] \in ChatMessage
      BY <2>1, <2>3 DEF Copy
    <3>2. Marked(old[e.id], e.type) \in ChatMessage
      BY <2>1, <3>1, MarkedType
    <3> QED
      BY <1>0, <2>1, <2>3, <3>2
  <2> QED
    BY <1>3, <2>2, <2>3
<1> QED
  BY <1>1, <1>2, <1>3

LEMMA HandleTakes ==
  ASSUME TypeInv, NEW u \in User, NEW s \in Slot, Handle(u, s)
  PROVE  \E a : a.step \in {"handle", "delivered"} /\ Becomes(u, s, a)
<1>1. PICK b : b = act[u][s]
  OBVIOUS
<1>2. b \in Activation
  <2>1. b.step = "handle"
    BY <1>1 DEF Handle
  <2> QED
    BY <1>1, <2>1, StepIsNotIdle DEF TypeInv, ActOK
<1>3. PICK step, copy :
        /\ act' = [act EXCEPT ![u][s] =
             [b EXCEPT !.step = step, !.copy = copy,
                       !.batch = IF step = "handle" THEN Tail(@) ELSE @]]
        /\ \/ Head(b.batch).type = "timer" /\ copy = b.copy /\ step = "handle"
           \/ /\ Head(b.batch).type = "message"
              /\ copy = [b.copy EXCEPT ![Head(b.batch).id] = Arrived(u, Head(b.batch).id)]
              /\ step = IF File(Head(b.batch).id) THEN "handle" ELSE "delivered"
           \/ /\ Head(b.batch).type \notin {"timer", "message"} /\ step = "handle"
              /\ copy = IF b.copy[Head(b.batch).id] = Absent \/ message[Head(b.batch).id].by # u
                        THEN b.copy
                        ELSE [b.copy EXCEPT ![Head(b.batch).id] = Marked(@, Head(b.batch).type)]
  BY <1>1 DEF Handle
<1>4. PICK a : a = [b EXCEPT !.step = step, !.copy = copy,
                             !.batch = IF step = "handle" THEN Tail(@) ELSE @]
  OBVIOUS
<1>5. a.step = step
  BY <1>2, <1>4 DEF Activation
<1>6. step \in {"handle", "delivered"}
  BY <1>3
<1>7. Becomes(u, s, a)
  BY <1>3, <1>4 DEF Becomes
<1> QED
  BY <1>5, <1>6, <1>7

LEMMA HandleInv ==
  ASSUME Inv, NEW u \in User, NEW s \in Slot, Handle(u, s)
  PROVE  Inv'
<1>1. PICK b : b = act[u][s]
  OBVIOUS
<1>2. /\ ActOK(b) /\ b \in Activation /\ b.step = "handle" /\ b.batch # <<>>
      /\ Head(b.batch) \in Envelope /\ Tail(b.batch) \in Seq(Envelope) /\ b.some = TRUE
  <2>1. b.step = "handle" /\ b.batch # <<>>
    BY <1>1 DEF Handle
  <2>2. ActOK(b) /\ b \in Activation
    BY <1>1, <2>1, StepIsNotIdle DEF Inv, TypeInv, ActOK
  <2> QED
    BY <1>1, <2>1, <2>2, BatchHead DEF Inv
<1>3. PICK step, copy :
        /\ act' = [act EXCEPT ![u][s] =
             [b EXCEPT !.step = step, !.copy = copy,
                       !.batch = IF step = "handle" THEN Tail(@) ELSE @]]
        /\ \/ Head(b.batch).type = "timer" /\ copy = b.copy /\ step = "handle"
           \/ /\ Head(b.batch).type = "message"
              /\ copy = [b.copy EXCEPT ![Head(b.batch).id] = Arrived(u, Head(b.batch).id)]
              /\ step = IF File(Head(b.batch).id) THEN "handle" ELSE "delivered"
           \/ /\ Head(b.batch).type \notin {"timer", "message"} /\ step = "handle"
              /\ copy = IF b.copy[Head(b.batch).id] = Absent \/ message[Head(b.batch).id].by # u
                        THEN b.copy
                        ELSE [b.copy EXCEPT ![Head(b.batch).id] = Marked(@, Head(b.batch).type)]
  BY <1>1 DEF Handle
<1>4. /\ copy \in Copy /\ Ids(b.copy) \subseteq Ids(copy)
      /\ step = "handle" \/ (step = "delivered" /\ Head(b.batch).type = "message")
  <2>1. b.copy \in Copy /\ TypeOK
    BY <1>2 DEF Inv, TypeInv, Activation
  <2>2. PICK e : e = Head(b.batch)
    OBVIOUS
  <2>3. \/ e.type = "timer" /\ copy = b.copy
        \/ e.type = "message" /\ copy = [b.copy EXCEPT ![e.id] = Arrived(u, e.id)]
        \/ /\ e.type \notin {"timer", "message"}
           /\ copy = IF b.copy[e.id] = Absent \/ message[e.id].by # u THEN b.copy
                     ELSE [b.copy EXCEPT ![e.id] = Marked(@, e.type)]
    BY <1>3, <2>2
  <2>4. copy \in Copy /\ Ids(b.copy) \subseteq Ids(copy)
    BY <1>2, <2>1, <2>2, <2>3, HandledCopy
  <2>5. step = "handle" \/ (step = "delivered" /\ Head(b.batch).type = "message")
    BY <1>3
  <2> QED
    BY <2>4, <2>5
<1>5. PICK a : a = [b EXCEPT !.step = step, !.copy = copy,
                             !.batch = IF step = "handle" THEN Tail(@) ELSE @]
  OBVIOUS
<1>6. /\ a \in Activation /\ a.op = b.op /\ a.step = step /\ a.what = b.what
      /\ a.copy = copy /\ a.some = TRUE /\ a.stale = b.stale
      /\ step = "delivered" => a.batch = b.batch
  BY <1>2, <1>4, <1>5 DEF Activation
<1>7. ActOK(a)
  BY <1>2, <1>4, <1>6 DEF ActOK
<1>8. Becomes(u, s, a)
  BY <1>3, <1>5 DEF Becomes
<1>9. /\ act' \in [User -> [Slot -> Activation \cup {Idle}]] /\ act'[u][s] = a
      /\ \A v \in User, r \in Slot : <<v, r>> # <<u, s>> => act'[v][r] = act[v][r]
      /\ \A v \in User, r \in Slot : ActOK(act'[v][r])
  BY <1>7, <1>8, OneChanges DEF Inv
<1>10. Comes(b, history[u], due[u])
  BY <1>1 DEF Inv, HoldInv
<1>11. Comes(a, history[u], due[u]) /\ Same(a, history[u])
  BY <1>2, <1>4, <1>6, <1>10 DEF Comes, Same
<1>12. timer' \in [User -> BOOLEAN]
  <2>1. CASE Head(b.batch).type = "timer"
    <3>1. Head(b.batch).on \in BOOLEAN
      BY <1>2, <2>1 DEF Envelope
    <3>2. timer' = [timer EXCEPT ![u] = Head(b.batch).on]
      BY <1>1, <2>1 DEF Handle
    <3> QED
      BY <3>1, <3>2 DEF Inv, TypeInv, TypeOK
  <2>2. CASE Head(b.batch).type # "timer"
    BY <1>1, <2>2 DEF Handle, Inv, TypeInv, TypeOK
  <2> QED
    BY <2>1, <2>2
<1>13. TypeOK' /\ history' = history /\ due' = due
  BY <1>9, <1>12 DEF Handle, Inv, TypeInv, TypeOK, past
<1>14. HoldInv'
  BY <1>9, <1>11, <1>13, OneHolds
<1> QED
  BY <1>9, <1>13, <1>14 DEF Inv, TypeInv

LEMMA SaveInv ==
  ASSUME Inv, NEW u \in User, NEW s \in Slot, Save(u, s)
  PROVE  Inv'
<1> DEFINE Later(r) == [act[u][r] EXCEPT !.stale = @ \/ Holding(u, r)]
<1>1. act[u][s] \in Activation /\ act[u][s].step = "save"
  BY StepIsNotIdle DEF Save, Inv, TypeInv, ActOK
<1>2. act[u][s].copy \in Copy
  BY <1>1 DEF Activation
<1>3. act' = [act EXCEPT ![u] = [r \in Slot |-> IF r = s THEN Idle ELSE Later(r)]]
  BY DEF Save
<1> HIDE DEF Later
<1>4. /\ act'[u][s] = Idle
      /\ \A r \in Slot \ {s} : act'[u][r] = Later(r)
      /\ \A v \in User \ {u}, r \in Slot : act'[v][r] = act[v][r]
  BY <1>3 DEF Inv, TypeInv, TypeOK
<1>5. ASSUME NEW r \in Slot
      PROVE  /\ Later(r) \in Activation \cup {Idle} /\ ActOK(Later(r))
             /\ Later(r).step \in {"save", "handle", "delivered", "read"} => Later(r).stale
  <2>1. PICK b : b = act[u][r] /\ ActOK(b) /\ b \in Activation \cup {Idle}
    BY DEF Inv, TypeInv, ActOK
  <2>2. PICK stale : stale = (b.stale \/ Holding(u, r))
    OBVIOUS
  <2>3. Later(r) = [b EXCEPT !.stale = stale]
    BY <2>1, <2>2 DEF Later
  <2>4. CASE b = Idle
    <3>1. b.stale = FALSE /\ Holding(u, r) = FALSE
      BY <2>1, <2>4 DEF Idle, Holding
    <3>0. stale = FALSE
      BY <2>2, <3>1
    <3>2. Later(r) = Idle
      BY <2>3, <2>4, <3>0 DEF Idle
    <3> QED
      BY <3>2, IdleOK, StepIsNotIdle
  <2>5. CASE b \in Activation
    <3>1. stale \in BOOLEAN
      BY <2>2, <2>5 DEF Activation, Holding
    <3>2. PICK a : a = Later(r)
      OBVIOUS
    <3>3. /\ a \in Activation /\ a.op = b.op /\ a.step = b.step /\ a.what = b.what
          /\ a.batch = b.batch /\ a.some = b.some /\ a.stale = stale
      BY <2>3, <2>5, <3>1, <3>2 DEF Activation
    <3>4. ActOK(a)
      BY <2>1, <3>3 DEF ActOK
    <3>5. a.step \in {"save", "handle", "delivered", "read"} => a.stale
      BY <2>1, <2>2, <3>3 DEF Holding
    <3> QED
      BY <3>2, <3>3, <3>4, <3>5
  <2> QED
    BY <2>1, <2>4, <2>5
<1>6. act' \in [User -> [Slot -> Activation \cup {Idle}]]
  BY <1>3, <1>5 DEF Inv, TypeInv, TypeOK
<1>7. \A v \in User, r \in Slot : ActOK(act'[v][r])
  BY <1>4, <1>5, IdleOK DEF Inv, TypeInv
<1>8. /\ history' \in [User -> Copy] /\ shown' \in [User -> SUBSET Id]
      /\ \A v \in User \ {u} : history'[v] = history[v]
  BY <1>2 DEF Save, Ids, Inv, TypeInv, TypeOK
<1>9. act[u][s].op = "open" => act[u][s].what.id \in Id
  BY DEF Inv, TypeInv, ActOK, Opening
<1>10. destroyed' \in [User -> SUBSET Id]
  BY <1>9 DEF Save, Inv, TypeInv, TypeOK
<1>11. clobbered' \in [User -> BOOLEAN]
  BY <1>1 DEF Save, Inv, TypeInv, TypeOK, Activation
<1>12. TypeOK'
  BY <1>6, <1>8, <1>10, <1>11 DEF Save, Inv, TypeInv, TypeOK
<1>13. HoldInv'
  <2> SUFFICES ASSUME NEW v \in User, NEW r \in Slot
               PROVE  Comes(act'[v][r], history'[v], due'[v]) /\ Same(act'[v][r], history'[v])
    BY DEF HoldInv
  <2>1. CASE v # u
    BY <1>4, <1>8, <2>1 DEF Save, Inv, HoldInv
  <2>2. CASE v = u /\ r = s
    BY <1>4, <2>2, IdleHolds
  <2>3. CASE v = u /\ r # s
    BY <1>4, <1>5, <2>3 DEF Comes, Same
  <2> QED
    BY <2>1, <2>2, <2>3
<1> QED
  BY <1>7, <1>12, <1>13 DEF Inv, TypeInv

-----------------------------------------------------------------------------
LEMMA NextInv == Inv /\ [Next]_vars => Inv'
<1> SUFFICES ASSUME Inv, [Next]_vars PROVE Inv'
  OBVIOUS
<1>1. ASSUME NEW u \in User, NEW s \in Handler, Act(u, s) PROVE Inv'
  BY <1>1, SlotSplit, SendInv, OpenFileInv, SetTimerInv DEF Act
<1>2. ASSUME NEW u \in User, NEW s \in Poller, Poll(u, s) PROVE Inv'
  BY <1>2, SlotSplit, PollInv
<1>3. ASSUME NEW u \in User, NEW s \in Slot, GoesOn(u, s) PROVE Inv'
  BY <1>3, PostedInv, TimerSetInv, AppendedInv, OpenedInv, SaveInv, FetchInv, PollLoadedInv,
     HandleInv, ReceiptInv, SweepInv DEF GoesOn
<1>4. ASSUME NEW u \in User, NEW s \in Slot, Fail(u, s) PROVE Inv'
  BY <1>4, FailInv
<1>5. ASSUME NEW u \in User, Expire(u) \/ Reopen(u) PROVE Inv'
  BY <1>5, ExpireInv, ReopenInv
<1>6. CASE UNCHANGED vars
  BY <1>6 DEF vars, disk, past, Inv, TypeInv, TypeOK, HoldInv
<1> QED
  BY <1>1, <1>2, <1>3, <1>4, <1>5, <1>6 DEF Next

(* Every variable of two open conversations always holds values of its type. *)
THEOREM TypeCorrect == Spec => []TypeOK
<1>1. Inv => TypeOK
  BY DEF Inv, TypeInv
<1> QED
  BY <1>1, InitInv, NextInv, PTL DEF Spec

LEMMA OnlySaves ==
  ASSUME Next
  PROVE  history' = history \/ \E u \in User, s \in Slot : Save(u, s)
<1>1. ASSUME NEW u \in User, NEW s \in Handler, Act(u, s) PROVE history' = history
  BY <1>1 DEF Act, Send, OpenFile, SetTimer, disk
<1>2. ASSUME NEW u \in User, NEW s \in Poller, Poll(u, s) PROVE history' = history
  BY <1>2 DEF Poll, disk
<1>3. ASSUME NEW u \in User, NEW s \in Slot, GoesOn(u, s) PROVE history' = history \/ Save(u, s)
  BY <1>3 DEF GoesOn, Posted, TimerSet, Appended, Opened, Fetch, PollLoaded, Handle, Receipt,
       Sweep, disk
<1>4. ASSUME NEW u \in User, NEW s \in Slot, Fail(u, s) PROVE history' = history
  BY <1>4 DEF Fail, disk
<1>5. ASSUME NEW u \in User, Expire(u) \/ Reopen(u) PROVE history' = history
  BY <1>5 DEF Expire, Reopen, disk
<1> QED
  BY <1>1, <1>2, <1>3, <1>4, <1>5 DEF Next

(* A history loses a message only when the message has expired or is a file *)
(* that was opened, or when the history is saved over one that was saved    *)
(* after it was loaded: what a handler or a poll holds lacks nothing else.  *)
THEOREM HistoryKept == Spec => Kept
<1> DEFINE K == \A u \in User : \A m \in Ids(history[u]) \ Ids(history'[u]) :
                  m \in due[u] \cup destroyed'[u] \/ clobbered'[u]
<1>1. Inv /\ [Next]_vars => [K]_vars
  <2> SUFFICES ASSUME Inv, Next PROVE K
    BY DEF vars
  <2>1. CASE history' = history
    BY <2>1
  <2>2. ASSUME NEW u \in User, NEW s \in Slot, Save(u, s) PROVE K
    <3> SUFFICES ASSUME NEW v \in User, NEW m \in Ids(history[v]) \ Ids(history'[v])
                 PROVE  m \in due[v] \cup destroyed'[v] \/ clobbered'[v]
      OBVIOUS
    <3>1. history' = [history EXCEPT ![u] = act[u][s].copy] /\ act[u][s].step = "save"
      BY <2>2 DEF Save
    <3>2. v = u /\ history'[v] = act[u][s].copy
      BY <3>1 DEF Inv, TypeInv, TypeOK
    <3>3. clobbered'[u] = (clobbered[u] \/ act[u][s].stale)
      BY <2>2 DEF Save, Inv, TypeInv, TypeOK
    <3>4. CASE act[u][s].stale
      BY <3>2, <3>3, <3>4
    <3>5. CASE ~act[u][s].stale
      <4>1. Comes(act[u][s], history[u], due[u])
        BY DEF Inv, HoldInv
      <4>2. m \in due[u] \/ (act[u][s].op = "open" /\ act[u][s].what.id = m)
        BY <3>1, <3>2, <3>5, <4>1 DEF Comes
      <4>3. destroyed'[u] = destroyed[u] \cup
              IF act[u][s].op = "open" THEN {act[u][s].what.id} ELSE {}
        BY <2>2 DEF Save, Inv, TypeInv, TypeOK
      <4> QED
        BY <3>2, <4>2, <4>3
    <3> QED
      BY <3>4, <3>5
  <2> QED
    BY <2>1, <2>2, OnlySaves
<1> QED
  BY <1>1, InitInv, NextInv, PTL DEF Spec, Kept

(* A poll that ends without saving the history leaves no expired message in *)
(* it, unless the history was saved after the poll loaded it.               *)
THEOREM HistorySwept == Spec => Swept
<1> DEFINE E == \A u \in User, s \in Slot :
             (act[u][s].step = "handle" /\ act'[u][s] = Idle /\ failed' = failed
               /\ ~act[u][s].stale)
                => \A m \in due[u] : ~history'[u][m].expires
<1>1. Inv /\ [Next]_vars => [E]_vars
  <2> SUFFICES ASSUME Inv, Next, NEW u \in User, NEW s \in Slot, NEW m \in due[u],
                      act[u][s].step = "handle", act'[u][s] = Idle, failed' = failed,
                      ~act[u][s].stale
               PROVE  ~history'[u][m].expires
    BY DEF vars
  <2>1. act[u][s] # Idle /\ act[u][s] \in Activation
    BY StepIsNotIdle DEF Inv, TypeInv, ActOK
  <2>2. ASSUME NEW v \in User, NEW r \in Slot, NEW x, act' = [act EXCEPT ![v][r] = x],
               act[v][r].step # "handle"
        PROVE  FALSE
    <3>1. <<v, r>> # <<u, s>>
      BY <2>2
    <3>2. act'[u][s] = act[u][s]
      BY <2>2, <3>1 DEF Inv, TypeInv, TypeOK
    <3> QED
      BY <2>1, <3>2
  <2>3. ASSUME NEW v \in User, NEW r \in Slot, NEW op, NEW step, NEW what,
               Begin(v, r, op, step, what)
        PROVE  FALSE
    BY <2>2, <2>3, StepIsNotIdle DEF Begin
  <2>4. ASSUME NEW v \in User, NEW r \in Handler, Act(v, r) PROVE FALSE
    BY <2>3, <2>4, SlotSplit DEF Act, Send, OpenFile, SetTimer
  <2>5. ASSUME NEW v \in User, NEW r \in Poller, Poll(v, r) PROVE FALSE
    BY <2>3, <2>5, SlotSplit DEF Poll
  <2>6. ASSUME NEW v \in User, NEW r \in Slot, GoesOn(v, r) PROVE Sweep(u, s)
    <3>1. CASE Posted(v, r)
      BY <2>2, <3>1 DEF Posted, Goto
    <3>2. CASE TimerSet(v, r)
      BY <2>2, <3>2 DEF TimerSet
    <3>3. CASE Appended(v, r)
      BY <2>2, <3>3 DEF Appended, Holds
    <3>4. CASE Opened(v, r)
      BY <2>2, <3>4 DEF Opened, Holds, Return
    <3>5. CASE Fetch(v, r)
      BY <2>2, <3>5 DEF Fetch
    <3>6. CASE PollLoaded(v, r)
      BY <2>2, <3>6 DEF PollLoaded, Holds
    <3>7. CASE Receipt(v, r)
      BY <2>2, <3>7 DEF Receipt, Goto
    <3>8. CASE Save(v, r)
      <4>1. r # s \/ v # u
        BY <3>8 DEF Save
      <4>2. CASE v = u
        <5>1. act'[u][s] = [act[u][s] EXCEPT !.stale = @ \/ Holding(u, s)]
          BY <3>8, <4>1, <4>2 DEF Save, Inv, TypeInv, TypeOK
        <5>2. act'[u][s].step = "handle"
          BY <2>1, <5>1 DEF Activation
        <5> QED
          BY <5>2, StepIsNotIdle
      <4>3. CASE v # u
        <5>1. act'[u][s] = act[u][s]
          BY <3>8, <4>3 DEF Save, Inv, TypeInv, TypeOK
        <5> QED
          BY <2>1, <5>1
      <4> QED
        BY <4>2, <4>3
    <3>9. CASE Handle(v, r)
      <4>1. PICK b : b = act[v][r] /\ b.step = "handle"
        BY <3>9 DEF Handle
      <4>2. b \in Activation
        BY <4>1, StepIsNotIdle DEF Inv, TypeInv, ActOK
      <4>3. PICK a : a.step \in {"handle", "delivered"} /\ Becomes(v, r, a)
        BY <3>9, HandleTakes DEF Inv
      <4>4. /\ act \in [User -> [Slot -> Activation \cup {Idle}]]
            /\ act' = [act EXCEPT ![v][r] = a]
        BY <4>3 DEF Inv, TypeInv, TypeOK, Becomes
      <4>5. act'[v][r] = a /\ (<<u, s>> # <<v, r>> => act'[u][s] = act[u][s])
        BY ONLY <4>4, u \in User, s \in Slot, v \in User, r \in Slot
      <4> QED
        BY <2>1, <4>3, <4>5, StepIsNotIdle
    <3>10. CASE Sweep(v, r)
      <4>1. CASE <<v, r>> = <<u, s>>
        BY <3>10, <4>1
      <4>2. CASE <<v, r>> # <<u, s>>
        <5>1. PICK x : act' = [act EXCEPT ![v][r] = x]
          BY <3>10 DEF Sweep, Holds, Return
        <5>2. act'[u][s] = act[u][s]
          BY <4>2, <5>1 DEF Inv, TypeInv, TypeOK
        <5> QED
          BY <2>1, <5>2
      <4> QED
        BY <4>1, <4>2
    <3> QED
      BY <2>6, <3>1, <3>2, <3>3, <3>4, <3>5, <3>6, <3>7, <3>8, <3>9, <3>10 DEF GoesOn
  <2>7. failed # failed + 1
    BY DEF Inv, TypeInv, TypeOK
  <2>8. ASSUME NEW v \in User, NEW r \in Slot, Fail(v, r) PROVE FALSE
    BY <2>7, <2>8 DEF Fail, Failed
  <2>9. ASSUME NEW v \in User, Reopen(v) PROVE FALSE
    <3>1. CASE v = u
      BY <2>1, <2>7, <2>9, <3>1 DEF Reopen, Failed, Busy
    <3>2. CASE v # u
      BY <2>1, <2>9, <3>2 DEF Reopen, Inv, TypeInv, TypeOK
    <3> QED
      BY <3>1, <3>2
  <2>10. ASSUME NEW v \in User, Expire(v) PROVE FALSE
    BY <2>1, <2>10 DEF Expire
  <2>11. Sweep(u, s)
    BY <2>4, <2>5, <2>6, <2>8, <2>9, <2>10 DEF Next
  <2>12. CASE Holds(u, s, "save", Alive(u, act[u][s].copy))
    <3>1. act[u][s].copy \in Copy
      BY <2>1 DEF Activation
    <3>2. Alive(u, act[u][s].copy) \in Copy
      BY <3>1, AliveType
    <3>3. act'[u][s].step = "save"
      BY <2>1, <2>12, <3>2, HoldsChanges DEF Inv
    <3> QED
      BY <3>3, StepIsNotIdle
  <2>13. CASE ~act[u][s].some /\ Alive(u, act[u][s].copy) = act[u][s].copy
    <3>1. history' = history
      BY <2>11 DEF Sweep, disk
    <3>2. act[u][s].copy = history[u] /\ m \in Id
      BY <2>13 DEF Inv, HoldInv, Same, TypeInv, TypeOK
    <3>3. history[u] \in Copy
      BY DEF Inv, TypeInv, TypeOK
    <3>4. ~Alive(u, history[u])[m].expires
      BY <3>2, <3>3, AliveType
    <3> QED
      BY <2>13, <3>1, <3>2, <3>4
  <2> QED
    BY <2>11, <2>12, <2>13 DEF Sweep
<1> QED
  BY <1>1, InitInv, NextInv, PTL DEF Spec, Swept

-----------------------------------------------------------------------------
(* What each step does to its activation *)

Others(u, s) ==
  \A v \in User, r \in Slot : <<v, r>> # <<u, s>> => act'[v][r] = act[v][r]

Alike(a, b) == a.op = b.op /\ a.what = b.what /\ a.some = b.some /\ a.stale = b.stale

LEMMA IdleFields ==
  /\ Idle.op = "none" /\ Idle.step = "none" /\ Idle.what = None /\ Idle.batch = <<>>
  /\ Idle.some = FALSE /\ Idle.copy = Empty /\ Idle.stale = FALSE
  BY DEF Idle

LEMMA ActivationType ==
  ASSUME TypeInv, NEW u \in User, NEW s \in Slot
  PROVE  /\ act[u][s] \in AnyActivation /\ ActOK(act[u][s])
         /\ act[u][s].copy \in Copy /\ act[u][s].batch \in Seq(Envelope)
         /\ act[u][s].some \in BOOLEAN /\ act[u][s].stale \in BOOLEAN
         /\ act[u][s].step # "none" \/ act[u][s].op # "none" => act[u][s] \in Activation
<1>1. ActOK(act[u][s]) /\ act[u][s] \in Activation \cup {Idle}
  BY DEF TypeInv, ActOK
<1>2. Activation \subseteq AnyActivation
  BY DEF Activation, AnyActivation
<1>3. PICK a \in AnyActivation : a = act[u][s]
  BY <1>1, <1>2, IdleType
<1>4. a.copy \in Copy /\ a.batch \in Seq(Envelope) /\ a.some \in BOOLEAN /\ a.stale \in BOOLEAN
  BY <1>3 DEF AnyActivation
<1> QED
  BY <1>1, <1>3, <1>4, IdleFields

LEMMA ActType ==
  ASSUME TypeInv
  PROVE  /\ act \in [User -> [Slot -> Activation \cup {Idle}]]
         /\ history \in [User -> Copy] /\ queue \in [User -> Seq(Envelope)]
         /\ shown \in [User -> SUBSET Id] /\ due \in [User -> SUBSET Id]
         /\ destroyed \in [User -> SUBSET Id] /\ overlapped \in [User -> BOOLEAN]
         /\ clobbered \in [User -> BOOLEAN]
         /\ message \in [Id -> [by : User, kind : Kinds] \cup {None}]
  BY DEF TypeInv, TypeOK

LEMMA BecomesFields ==
  ASSUME TypeInv, NEW u \in User, NEW s \in Slot, NEW a, Becomes(u, s, a)
  PROVE  act'[u][s] = a /\ Others(u, s)
  BY ActType DEF Becomes, Others

LEMMA BeginFields ==
  ASSUME TypeInv, NEW u \in User, NEW s \in Slot, NEW op, NEW step, NEW what,
         Begin(u, s, op, step, what)
  PROVE  /\ act[u][s] = Idle /\ Others(u, s)
         /\ act'[u][s].op = op /\ act'[u][s].step = step /\ act'[u][s].what = what
         /\ act'[u][s].batch = <<>> /\ act'[u][s].copy = Empty /\ act'[u][s].some = FALSE
         /\ act'[u][s].stale = FALSE
<1>1. PICK a : a = [Idle EXCEPT !.op = op, !.step = step, !.what = what]
  OBVIOUS
<1>2. /\ a.op = op /\ a.step = step /\ a.what = what /\ a.batch = <<>> /\ a.copy = Empty
      /\ a.some = FALSE /\ a.stale = FALSE
  BY <1>1 DEF Idle
<1>3. Becomes(u, s, a) /\ act[u][s] = Idle
  BY <1>1 DEF Begin, Becomes
<1>4. act'[u][s] = a /\ Others(u, s)
  BY <1>3, BecomesFields
<1> QED
  BY <1>2, <1>3, <1>4

LEMMA BeginOverlaps ==
  ASSUME TypeInv, NEW u \in User, NEW s \in Slot, NEW op, NEW step, NEW what,
         Begin(u, s, op, step, what)
  PROVE  /\ overlapped[u] \/ Busy(u) => overlapped'[u]
         /\ overlapped'[u] => overlapped[u] \/ Busy(u)
         /\ \A v \in User \ {u} : overlapped'[v] = overlapped[v]
  BY ActType DEF Begin

LEMMA GotoFields ==
  ASSUME TypeInv, NEW u \in User, NEW s \in Slot, NEW step, Goto(u, s, step)
  PROVE  /\ Others(u, s) /\ Alike(act'[u][s], act[u][s]) /\ act'[u][s].step = step
         /\ act'[u][s].copy = act[u][s].copy /\ act'[u][s].batch = act[u][s].batch
<1>1. PICK b \in AnyActivation : b = act[u][s]
  BY ActivationType
<1>2. PICK a : a = [b EXCEPT !.step = step]
  OBVIOUS
<1>3. Alike(a, b) /\ a.step = step /\ a.copy = b.copy /\ a.batch = b.batch
  BY <1>2 DEF AnyActivation, Alike
<1>4. Becomes(u, s, a)
  BY <1>1, <1>2 DEF Goto, Becomes
<1>5. act'[u][s] = a /\ Others(u, s)
  BY <1>4, BecomesFields
<1> QED
  BY <1>1, <1>3, <1>5

LEMMA HoldsFields ==
  ASSUME TypeInv, NEW u \in User, NEW s \in Slot, NEW step, NEW copy, Holds(u, s, step, copy)
  PROVE  /\ Others(u, s) /\ Alike(act'[u][s], act[u][s]) /\ act'[u][s].step = step
         /\ act'[u][s].copy = copy /\ act'[u][s].batch = act[u][s].batch
<1>1. PICK b \in AnyActivation : b = act[u][s]
  BY ActivationType
<1>2. PICK a : a = [b EXCEPT !.step = step, !.copy = copy]
  OBVIOUS
<1>3. Alike(a, b) /\ a.step = step /\ a.copy = copy /\ a.batch = b.batch
  BY <1>2 DEF AnyActivation, Alike
<1>4. Becomes(u, s, a)
  BY <1>1, <1>2 DEF Holds, Becomes
<1>5. act'[u][s] = a /\ Others(u, s)
  BY <1>4, BecomesFields
<1> QED
  BY <1>1, <1>3, <1>5

LEMMA EndFields ==
  ASSUME TypeInv, NEW u \in User, NEW s \in Slot, act' = [act EXCEPT ![u][s] = Idle]
  PROVE  Others(u, s) /\ act'[u][s] = Idle
  BY BecomesFields DEF Becomes

LEMMA FetchFields ==
  ASSUME TypeInv, NEW u \in User, NEW s \in Slot, Fetch(u, s)
  PROVE  /\ Others(u, s) /\ act[u][s].step = "fetch" /\ act'[u][s].step = "load"
         /\ act'[u][s].op = act[u][s].op /\ act'[u][s].what = act[u][s].what
         /\ act'[u][s].stale = act[u][s].stale
         /\ act'[u][s].copy = act[u][s].copy /\ act'[u][s].batch = queue[u]
         /\ act'[u][s].some = (queue[u] # <<>>)
         /\ queue'[u] = <<>> /\ \A v \in User \ {u} : queue'[v] = queue[v]
<1>1. PICK b \in AnyActivation : b = act[u][s] /\ b.step = "fetch"
  BY ActivationType DEF Fetch
<1>2. PICK a : a = [b EXCEPT !.step = "load", !.batch = queue[u], !.some = queue[u] # <<>>]
  OBVIOUS
<1>3. /\ a.op = b.op /\ a.what = b.what /\ a.stale = b.stale /\ a.copy = b.copy
      /\ a.step = "load" /\ a.batch = queue[u] /\ a.some = (queue[u] # <<>>)
  BY <1>2 DEF AnyActivation
<1>4. Becomes(u, s, a)
  BY <1>1, <1>2 DEF Fetch, Becomes
<1>5. act'[u][s] = a /\ Others(u, s)
  BY <1>4, BecomesFields
<1>6. queue'[u] = <<>> /\ \A v \in User \ {u} : queue'[v] = queue[v]
  BY ActType DEF Fetch
<1> QED
  BY <1>1, <1>3, <1>5, <1>6

(* The envelope is appended to the queue of the peer *)
LEMMA PostFields ==
  ASSUME TypeInv, NEW u \in User, NEW e, Post(u, e)
  PROVE  /\ queue'[Peer(u)] = Append(queue[Peer(u)], e)
         /\ \A v \in User \ {Peer(u)} : queue'[v] = queue[v]
         /\ Peer(u) \in User
  BY ActType, PeerType DEF Post

LEMMA PostedFields ==
  ASSUME TypeInv, NEW u \in User, NEW s \in Slot, Posted(u, s)
  PROVE  /\ Others(u, s) /\ Alike(act'[u][s], act[u][s])
         /\ act[u][s].step = "post" /\ act'[u][s].step \in {"load", "set"}
         /\ act'[u][s].step = "set" <=> act[u][s].op = "timer"
         /\ act'[u][s].copy = act[u][s].copy /\ act'[u][s].batch = act[u][s].batch
         /\ act[u][s].what \in Envelope
         /\ queue'[Peer(u)] = Append(queue[Peer(u)], act[u][s].what)
         /\ \A v \in User \ {Peer(u)} : queue'[v] = queue[v]
         /\ Peer(u) \in User
<1>1. PICK step : step = (IF act[u][s].op = "timer" THEN "set" ELSE "load") /\ Goto(u, s, step)
  BY DEF Posted
<1>2. act[u][s].step = "post" /\ Post(u, act[u][s].what)
  BY DEF Posted
<1>3. act[u][s].what \in Envelope
  BY <1>2, EnvelopeTypes DEF TypeInv, ActOK
<1> QED
  BY <1>1, <1>2, <1>3, GotoFields, PostFields

LEMMA ReceiptFields ==
  ASSUME TypeInv, NEW u \in User, NEW s \in Slot, Receipt(u, s), NEW m, m = Head(act[u][s].batch).id
  PROVE  /\ Others(u, s) /\ Alike(act'[u][s], act[u][s]) /\ act'[u][s].copy = act[u][s].copy
         /\ act[u][s].step \in {"delivered", "read"} /\ act[u][s].batch # <<>>
         /\ act[u][s].step = "delivered" =>
              act'[u][s].step = "read" /\ act'[u][s].batch = act[u][s].batch
         /\ act[u][s].step = "read" =>
              act'[u][s].step = "handle" /\ act'[u][s].batch = Tail(act[u][s].batch)
         /\ m \in Id /\ [type |-> act[u][s].step, id |-> m] \in Envelope
         /\ queue'[Peer(u)] = Append(queue[Peer(u)], [type |-> act[u][s].step, id |-> m])
         /\ \A v \in User \ {Peer(u)} : queue'[v] = queue[v]
         /\ Peer(u) \in User
<1>1. PICK b \in AnyActivation : b = act[u][s] /\ ActOK(b)
  BY ActivationType
<1>2. b.step \in {"delivered", "read"} /\ b.batch # <<>> /\ Head(b.batch).type = "message"
  BY <1>1 DEF Receipt, ActOK
<1>3. Head(b.batch) \in Envelope
  BY <1>1, <1>2, BatchHead
<1>4. m \in Id
  BY <1>1, <1>2, <1>3 DEF Envelope
<1>5. [type |-> b.step, id |-> m] \in Envelope
  BY <1>2, <1>4 DEF Envelope
<1>6. Post(u, [type |-> b.step, id |-> m])
  BY <1>1 DEF Receipt
<1>7. /\ queue'[Peer(u)] = Append(queue[Peer(u)], [type |-> b.step, id |-> m])
      /\ \A v \in User \ {Peer(u)} : queue'[v] = queue[v]
      /\ Peer(u) \in User
  BY <1>6, PostFields
<1>8. CASE b.step = "delivered" /\ Goto(u, s, "read")
  BY <1>1, <1>2, <1>4, <1>5, <1>7, <1>8, GotoFields
<1>9. CASE b.step = "read" /\ act' = [act EXCEPT ![u][s] = [b EXCEPT !.step = "handle", !.batch = Tail(@)]]
  <2>1. PICK a : a = [b EXCEPT !.step = "handle", !.batch = Tail(@)]
    OBVIOUS
  <2>2. Alike(a, b) /\ a.step = "handle" /\ a.copy = b.copy /\ a.batch = Tail(b.batch)
    BY <2>1 DEF AnyActivation, Alike
  <2>3. Becomes(u, s, a)
    BY <1>9, <2>1 DEF Becomes
  <2>4. act'[u][s] = a /\ Others(u, s)
    BY <2>3, BecomesFields
  <2> QED
    BY <1>1, <1>2, <1>4, <1>5, <1>7, <1>9, <2>2, <2>4
<1> QED
  BY <1>1, <1>2, <1>8, <1>9 DEF Receipt

(* What a poll makes of the message m that an envelope is about *)
Takes(u, old, new, e) ==
  \/ e.type = "timer" /\ new = old
  \/ e.type = "message" /\ new = [old EXCEPT ![e.id] = Arrived(u, e.id)]
  \/ /\ e.type \notin {"timer", "message"}
     /\ new = IF old[e.id] = Absent \/ message[e.id].by # u THEN old
              ELSE [old EXCEPT ![e.id] = Marked(@, e.type)]

LEMMA HandleFields ==
  ASSUME TypeInv, NEW u \in User, NEW s \in Slot, Handle(u, s), NEW e, e = Head(act[u][s].batch)
  PROVE  /\ Others(u, s) /\ Alike(act'[u][s], act[u][s])
         /\ act[u][s].step = "handle" /\ act[u][s].batch # <<>> /\ act[u][s].some
         /\ e \in Envelope
         /\ Takes(u, act[u][s].copy, act'[u][s].copy, e)
         /\ \/ act'[u][s].step = "handle" /\ act'[u][s].batch = Tail(act[u][s].batch)
               /\ (e.type = "message" => File(e.id))
            \/ /\ act'[u][s].step = "delivered" /\ act'[u][s].batch = act[u][s].batch
               /\ e.type = "message" /\ ~File(e.id)
<1>1. PICK b \in AnyActivation : b = act[u][s] /\ ActOK(b)
  BY ActivationType
<1>2. b.step = "handle" /\ b.batch # <<>>
  BY <1>1 DEF Handle
<1>3. e \in Envelope /\ b.some
  BY <1>1, <1>2, BatchHead
<1>4. PICK step, copy :
        /\ act' = [act EXCEPT ![u][s] =
             [b EXCEPT !.step = step, !.copy = copy,
                       !.batch = IF step = "handle" THEN Tail(@) ELSE @]]
        /\ \/ e.type = "timer" /\ copy = b.copy /\ step = "handle"
           \/ /\ e.type = "message"
              /\ copy = [b.copy EXCEPT ![e.id] = Arrived(u, e.id)]
              /\ step = IF File(e.id) THEN "handle" ELSE "delivered"
           \/ /\ e.type \notin {"timer", "message"} /\ step = "handle"
              /\ copy = IF b.copy[e.id] = Absent \/ message[e.id].by # u THEN b.copy
                        ELSE [b.copy EXCEPT ![e.id] = Marked(@, e.type)]
  BY <1>1 DEF Handle
<1>5. Takes(u, b.copy, copy, e)
  BY <1>4 DEF Takes
<1>6. PICK a : a = [b EXCEPT !.step = step, !.copy = copy,
                             !.batch = IF step = "handle" THEN Tail(@) ELSE @]
  OBVIOUS
<1>7. /\ Alike(a, b) /\ a.step = step /\ a.copy = copy
      /\ a.batch = IF step = "handle" THEN Tail(b.batch) ELSE b.batch
  BY <1>6 DEF AnyActivation, Alike
<1>8. Becomes(u, s, a)
  BY <1>4, <1>6 DEF Becomes
<1>9. act'[u][s] = a /\ Others(u, s)
  BY <1>8, BecomesFields
<1>10. \/ step = "handle" /\ (e.type = "message" => File(e.id))
       \/ step = "delivered" /\ e.type = "message" /\ ~File(e.id)
  BY <1>4
<1> QED
  BY <1>1, <1>2, <1>3, <1>5, <1>7, <1>9, <1>10

LEMMA SaveFields ==
  ASSUME TypeInv, NEW u \in User, NEW s \in Slot, Save(u, s)
  PROVE  /\ act[u][s].step = "save" /\ act'[u][s] = Idle
         /\ history'[u] = act[u][s].copy /\ shown'[u] = Ids(act[u][s].copy)
         /\ \A v \in User \ {u} :
              history'[v] = history[v] /\ shown'[v] = shown[v] /\ destroyed'[v] = destroyed[v]
              /\ clobbered'[v] = clobbered[v]
         /\ destroyed'[u] =
              destroyed[u] \cup IF act[u][s].op = "open" THEN {act[u][s].what.id} ELSE {}
         /\ clobbered'[u] = (clobbered[u] \/ act[u][s].stale)
         /\ \A r \in Slot \ {s} :
              /\ act'[u][r].op = act[u][r].op /\ act'[u][r].step = act[u][r].step
              /\ act'[u][r].what = act[u][r].what /\ act'[u][r].some = act[u][r].some
              /\ act'[u][r].copy = act[u][r].copy /\ act'[u][r].batch = act[u][r].batch
              /\ act'[u][r].stale = (act[u][r].stale \/ Holding(u, r))
              /\ act[u][r] = Idle => act'[u][r] = Idle
         /\ \A v \in User \ {u}, r \in Slot : act'[v][r] = act[v][r]
<1> DEFINE Later(r) == [act[u][r] EXCEPT !.stale = @ \/ Holding(u, r)]
<1>1. act' = [act EXCEPT ![u] = [r \in Slot |-> IF r = s THEN Idle ELSE Later(r)]]
  BY DEF Save
<1>2. ASSUME NEW r \in Slot
      PROVE  /\ Later(r).op = act[u][r].op /\ Later(r).step = act[u][r].step
             /\ Later(r).what = act[u][r].what /\ Later(r).some = act[u][r].some
             /\ Later(r).copy = act[u][r].copy /\ Later(r).batch = act[u][r].batch
             /\ Later(r).stale = (act[u][r].stale \/ Holding(u, r))
             /\ act[u][r] = Idle => Later(r) = Idle
  <2>1. PICK b \in AnyActivation : b = act[u][r]
    BY ActivationType
  <2>2. PICK stale : stale = (b.stale \/ Holding(u, r))
    OBVIOUS
  <2>3. PICK a : a = [b EXCEPT !.stale = stale]
    OBVIOUS
  <2>4. /\ a.op = b.op /\ a.step = b.step /\ a.what = b.what /\ a.some = b.some
        /\ a.copy = b.copy /\ a.batch = b.batch /\ a.stale = stale
    BY <2>3 DEF AnyActivation
  <2>5. ASSUME b = Idle PROVE a = Idle
    <3>1. b.stale = FALSE /\ Holding(u, r) = FALSE
      BY <2>1, <2>5 DEF Idle, Holding
    <3>2. stale = FALSE
      BY <2>2, <3>1
    <3> QED
      BY <2>3, <2>5, <3>2 DEF Idle
  <2>6. Later(r) = a
    BY <2>1, <2>2, <2>3
  <2> HIDE DEF Later
  <2> QED
    BY <2>1, <2>2, <2>4, <2>5, <2>6
<1> HIDE DEF Later
<1>3. /\ act'[u][s] = Idle /\ \A r \in Slot \ {s} : act'[u][r] = Later(r)
      /\ \A v \in User \ {u}, r \in Slot : act'[v][r] = act[v][r]
  BY <1>1, ActType
<1>4. /\ history'[u] = act[u][s].copy /\ shown'[u] = Ids(act[u][s].copy)
      /\ \A v \in User \ {u} : history'[v] = history[v] /\ shown'[v] = shown[v]
  BY ActType DEF Save
<1>5. /\ destroyed'[u] = destroyed[u] \cup IF act[u][s].op = "open" THEN {act[u][s].what.id} ELSE {}
      /\ \A v \in User \ {u} : destroyed'[v] = destroyed[v]
  BY ActType DEF Save
<1>6. /\ clobbered'[u] = (clobbered[u] \/ act[u][s].stale)
      /\ \A v \in User \ {u} : clobbered'[v] = clobbered[v]
  BY ActType DEF Save
<1>7. act[u][s].step = "save"
  BY DEF Save
<1> QED
  BY <1>2, <1>3, <1>4, <1>5, <1>6, <1>7

LEMMA ReopenFields ==
  ASSUME TypeInv, NEW u \in User, Reopen(u)
  PROVE  /\ \A s \in Slot : act'[u][s] = Idle
         /\ \A v \in User \ {u}, s \in Slot : act'[v][s] = act[v][s]
         /\ shown'[u] = Ids(history[u]) /\ \A v \in User \ {u} : shown'[v] = shown[v]
         /\ history' = history /\ queue' = queue
  BY ActType DEF Reopen, disk

-----------------------------------------------------------------------------
(* Polls and handlers *)

Role(s, a) ==
  /\ a.step \in {"fetch", "handle", "delivered", "read"} => a.op = "poll"
  /\ a.op = "poll" => s \in Poller
  /\ a.op # "poll" => a.some = FALSE
  /\ a.step \notin {"save", "handle", "delivered", "read"} => a.copy = Empty
  /\ a.step = "fetch" => a.some = FALSE
  /\ a.step = "save" => a.batch = <<>>

RoleInv == \A u \in User, s \in Slot : Role(s, act[u][s])

LEMMA RoleElsewhere ==
  ASSUME RoleInv, NEW u \in User, NEW s \in Slot, Others(u, s), Role(s, act'[u][s])
  PROVE  RoleInv'
<1> SUFFICES ASSUME NEW v \in User, NEW r \in Slot PROVE Role(r, act'[v][r])
  BY DEF RoleInv, Role
<1>1. CASE <<v, r>> = <<u, s>>
  BY <1>1
<1>2. CASE <<v, r>> # <<u, s>>
  <2>1. act'[v][r] = act[v][r]
    BY <1>2 DEF Others
  <2> QED
    BY <2>1 DEF RoleInv
<1> QED
  BY <1>1, <1>2

LEMMA RoleKept ==
  ASSUME RoleInv, NEW u \in User, NEW s \in Slot, Others(u, s),
         act'[u][s].op = act[u][s].op,
         act'[u][s].some = act[u][s].some \/ act[u][s].op = "poll",
         act'[u][s].step \in {"fetch", "handle", "delivered", "read"} => act[u][s].op = "poll",
         act'[u][s].step \notin {"save", "handle", "delivered", "read"} => act'[u][s].copy = Empty,
         act'[u][s].step # "fetch",
         act'[u][s].step = "save" => act'[u][s].batch = <<>>
  PROVE  RoleInv'
<1>1. Role(s, act[u][s])
  BY DEF RoleInv
<1>2. Role(s, act'[u][s])
  BY <1>1 DEF Role
<1> QED
  BY <1>2, RoleElsewhere

LEMMA InitRole == Init => RoleInv
  BY IdleFields DEF Init, RoleInv, Role

LEMMA NextRole ==
  ASSUME Inv, RoleInv, [Next]_vars
  PROVE  RoleInv'
<1>0. ASSUME NEW u \in User, NEW s \in Slot, act' = [act EXCEPT ![u][s] = Idle] PROVE RoleInv'
  BY <1>0, EndFields, IdleFields, RoleElsewhere DEF Inv, Role
<1>1. ASSUME NEW u \in User, NEW s \in Handler, Act(u, s) PROVE RoleInv'
  <2>c. PICK op \in {"send", "open", "timer"} : \E what : Begin(u, s, op, "post", what)
    BY <1>1 DEF Act, Send, OpenFile, SetTimer
  <2>1. PICK what : Begin(u, s, op, "post", what)
    BY <2>c
  <2>a. TypeInv /\ s \in Slot
    BY SlotSplit DEF Inv
  <2>2. /\ Others(u, s) /\ act'[u][s].op = op /\ act'[u][s].step = "post" /\ act'[u][s].some = FALSE
        /\ act'[u][s].copy = Empty
    BY <2>1, <2>a, BeginFields
  <2>3. Role(s, act'[u][s])
    BY <2>2 DEF Role
  <2> QED
    BY <2>2, <2>3, SlotSplit, RoleElsewhere
<1>2. ASSUME NEW u \in User, NEW s \in Poller, Poll(u, s) PROVE RoleInv'
  <2>1. Others(u, s) /\ act'[u][s].op = "poll" /\ act'[u][s].step = "fetch" /\ act'[u][s].copy = Empty
        /\ act'[u][s].some = FALSE
    BY <1>2, SlotSplit, BeginFields DEF Inv, Poll
  <2> QED
    BY <2>1, SlotSplit, RoleElsewhere DEF Role
<1>3. ASSUME NEW u \in User, NEW s \in Slot, GoesOn(u, s) PROVE RoleInv'
  <2>0. Role(s, act[u][s])
    BY DEF RoleInv
  <2>1. CASE Posted(u, s)
    BY <2>0, <2>1, PostedFields, RoleKept DEF Inv, Alike, Role
  <2>2. CASE TimerSet(u, s)
    BY <1>0, <2>2 DEF TimerSet
  <2>3. CASE Appended(u, s)
    <3>1. PICK copy : Holds(u, s, "save", copy)
      BY <2>3 DEF Appended
    <3>2. act[u][s].batch = <<>>
      BY <2>0, <2>3 DEF Appended, Role, Inv, TypeInv, ActOK
    <3> QED
      BY <3>1, <3>2, HoldsFields, RoleKept DEF Inv, Alike
  <2>4. CASE Opened(u, s)
    <3>0. act[u][s].batch = <<>>
      BY <2>0, <2>4 DEF Opened, Role, Inv, TypeInv, ActOK
    <3>1. ASSUME NEW copy, Holds(u, s, "save", copy) PROVE RoleInv'
      BY <3>0, <3>1, HoldsFields, RoleKept DEF Inv, Alike
    <3> QED
      BY <1>0, <2>4, <3>1 DEF Opened, Return
  <2>5. CASE Save(u, s)
    <3> SUFFICES ASSUME NEW v \in User, NEW r \in Slot PROVE Role(r, act'[v][r])
      BY DEF RoleInv, Role
    <3>1. Role(r, act[v][r])
      BY DEF RoleInv
    <3>2. CASE v = u /\ r = s
      BY <2>5, <3>2, SaveFields, IdleFields DEF Inv, Role
    <3>3. CASE v = u /\ r # s
      BY <2>5, <3>1, <3>3, SaveFields DEF Inv, Role
    <3>4. CASE v # u
      BY <2>5, <3>1, <3>4, SaveFields DEF Inv, Role
    <3> QED
      BY <3>2, <3>3, <3>4
  <2>6. CASE Fetch(u, s)
    BY <2>0, <2>6, FetchFields, RoleKept DEF Inv, Role
  <2>7. CASE PollLoaded(u, s)
    <3>1. Holds(u, s, "handle", history[u]) /\ act[u][s].op = "poll"
      BY <2>7 DEF PollLoaded
    <3> QED
      BY <3>1, HoldsFields, RoleKept DEF Inv, Alike
  <2>8. CASE Handle(u, s)
    BY <2>0, <2>8, HandleFields, RoleKept DEF Inv, Role, Alike
  <2>9. CASE Receipt(u, s)
    <3>1. PICK m : m = Head(act[u][s].batch).id
      OBVIOUS
    <3>2. /\ Others(u, s) /\ Alike(act'[u][s], act[u][s]) /\ act[u][s].step \in {"delivered", "read"}
          /\ act'[u][s].step \in {"handle", "read"}
      BY <2>9, <3>1, ReceiptFields DEF Inv
    <3> QED
      BY <2>0, <3>2, RoleKept DEF Role, Alike
  <2>10. CASE Sweep(u, s)
    <3>0. act[u][s].batch = <<>>
      BY <2>10 DEF Sweep
    <3>1. ASSUME NEW copy, Holds(u, s, "save", copy) PROVE RoleInv'
      BY <3>0, <3>1, HoldsFields, RoleKept DEF Inv, Alike
    <3> QED
      BY <1>0, <2>10, <3>1 DEF Sweep, Return
  <2> QED
    BY <1>3, <2>1, <2>2, <2>3, <2>4, <2>5, <2>6, <2>7, <2>8, <2>9, <2>10 DEF GoesOn
<1>4. ASSUME NEW u \in User, NEW s \in Slot, Fail(u, s) PROVE RoleInv'
  BY <1>0, <1>4 DEF Fail
<1>5. ASSUME NEW u \in User, Expire(u) PROVE RoleInv'
  BY <1>5 DEF Expire, RoleInv
<1>6. ASSUME NEW u \in User, Reopen(u) PROVE RoleInv'
  <2> SUFFICES ASSUME NEW v \in User, NEW r \in Slot PROVE Role(r, act'[v][r])
    BY DEF RoleInv, Role
  <2> QED
    BY <1>6, ReopenFields, IdleFields DEF Inv, RoleInv, Role
<1>7. CASE UNCHANGED vars
  BY <1>7 DEF vars, RoleInv
<1> QED
  BY <1>1, <1>2, <1>3, <1>4, <1>5, <1>6, <1>7 DEF Next

-----------------------------------------------------------------------------
(* Places *)

(* What a poll has yet to begin with *)
Pending(a) == IF a.step \in {"delivered", "read"} THEN Tail(a.batch) ELSE a.batch

(* The messages that a sequence of envelopes is about, by type *)
Marks(q, type) == {q[i].id : i \in {j \in DOMAIN q : q[j].type = type}}

Once(q) ==
  \A i, j \in DOMAIN q :
    q[i].type = "message" /\ q[j].type = "message" /\ q[i].id = q[j].id => i = j

InOrder(q) ==
  \A i, j \in DOMAIN q :
    i < j /\ q[i].type = "read" /\ q[j].type = "delivered" => q[i].id # q[j].id

(* The places of envelopes: at a sender, at the server, at a poll *)
Types == {"message", "delivered", "read", "file-opened"}
Place == ({"post", "batch"} \X User \X Slot) \cup ({"queue"} \X User \X {None})
Posts(a, type) == IF a.step = "post" /\ a.what.type = type THEN {a.what.id} ELSE {}
In(p, type) ==
  IF p[1] = "queue" THEN Marks(queue[p[2]], type)
  ELSE IF p[1] = "post" THEN Posts(act[p[2]][p[3]], type)
  ELSE Marks(Pending(act[p[2]][p[3]]), type)

-----------------------------------------------------------------------------
(* Sequences of envelopes *)

LEMMA MarksEmpty == \A type : Marks(<<>>, type) = {} /\ Once(<<>>) /\ InOrder(<<>>)
  BY DEF Marks, Once, InOrder

LEMMA AppendIs ==
  ASSUME NEW q \in Seq(Envelope), NEW e \in Envelope
  PROVE  /\ DOMAIN Append(q, e) = 1 .. Len(q) + 1 /\ DOMAIN q = 1 .. Len(q) /\ Len(q) \in Nat
         /\ Append(q, e)[Len(q) + 1] = e /\ \A i \in DOMAIN q : Append(q, e)[i] = q[i]
  OBVIOUS

LEMMA MarksAppend ==
  ASSUME NEW q \in Seq(Envelope), NEW e \in Envelope, NEW type
  PROVE  /\ Marks(Append(q, e), type) \subseteq Marks(q, type) \cup {e.id}
         /\ Marks(q, type) \subseteq Marks(Append(q, e), type)
         /\ e.type = type => Marks(Append(q, e), type) = Marks(q, type) \cup {e.id}
         /\ e.type # type => Marks(Append(q, e), type) = Marks(q, type)
<1>1. PICK k : k = Append(q, e)
  OBVIOUS
<1>2. /\ DOMAIN k = 1 .. Len(q) + 1 /\ DOMAIN q = 1 .. Len(q) /\ Len(q) \in Nat
      /\ k[Len(q) + 1] = e /\ \A i \in DOMAIN q : k[i] = q[i]
  BY <1>1, AppendIs
<1>3. \A i : i \in DOMAIN k <=> i \in DOMAIN q \/ i = Len(q) + 1
  BY <1>2
<1>4. Marks(q, type) \subseteq Marks(k, type)
  BY <1>2, <1>3 DEF Marks
<1>5. Marks(k, type) \subseteq Marks(q, type) \cup {e.id}
  BY <1>2, <1>3 DEF Marks
<1>6. e.type = type => e.id \in Marks(k, type)
  BY <1>2, <1>3 DEF Marks
<1>7. e.type # type => Marks(k, type) \subseteq Marks(q, type)
  BY <1>2, <1>3 DEF Marks
<1> QED
  BY <1>1, <1>4, <1>5, <1>6, <1>7

LEMMA OnceAppend ==
  ASSUME NEW q \in Seq(Envelope), NEW e \in Envelope, Once(q),
         e.type # "message" \/ e.id \notin Marks(q, "message")
  PROVE  Once(Append(q, e))
<1>1. PICK k : k = Append(q, e)
  OBVIOUS
<1>2. /\ DOMAIN k = 1 .. Len(q) + 1 /\ DOMAIN q = 1 .. Len(q) /\ Len(q) \in Nat
      /\ k[Len(q) + 1] = e /\ \A i \in DOMAIN q : k[i] = q[i]
  BY <1>1, AppendIs
<1>3. \A i \in DOMAIN k : i \in DOMAIN q \/ i = Len(q) + 1
  BY <1>2
<1>4. ASSUME NEW i \in DOMAIN k, NEW j \in DOMAIN k,
             k[i].type = "message", k[j].type = "message", k[i].id = k[j].id
      PROVE  i = j
  <2>1. CASE i \in DOMAIN q /\ j \in DOMAIN q
    BY <1>2, <1>4, <2>1 DEF Once
  <2>2. CASE i \in DOMAIN q /\ j = Len(q) + 1
    BY <1>2, <1>4, <2>2 DEF Marks
  <2>3. CASE j \in DOMAIN q /\ i = Len(q) + 1
    BY <1>2, <1>4, <2>3 DEF Marks
  <2> QED
    BY <1>3, <2>1, <2>2, <2>3
<1> QED
  BY <1>1, <1>4 DEF Once

LEMMA InOrderAppend ==
  ASSUME NEW q \in Seq(Envelope), NEW e \in Envelope, InOrder(q),
         e.type # "delivered" \/ e.id \notin Marks(q, "read")
  PROVE  InOrder(Append(q, e))
<1>1. PICK k : k = Append(q, e)
  OBVIOUS
<1>2. /\ DOMAIN k = 1 .. Len(q) + 1 /\ DOMAIN q = 1 .. Len(q) /\ Len(q) \in Nat
      /\ k[Len(q) + 1] = e /\ \A i \in DOMAIN q : k[i] = q[i]
  BY <1>1, AppendIs
<1>3. \A i \in DOMAIN k : i \in DOMAIN q \/ i = Len(q) + 1
  BY <1>2
<1>4. ASSUME NEW i \in DOMAIN k, NEW j \in DOMAIN k, i < j,
             k[i].type = "read", k[j].type = "delivered"
      PROVE  k[i].id # k[j].id
  <2>0. i \in DOMAIN q
    BY <1>2, <1>3, <1>4
  <2>1. CASE j \in DOMAIN q
    BY <1>2, <1>4, <2>0, <2>1 DEF InOrder
  <2>2. CASE j = Len(q) + 1
    BY <1>2, <1>4, <2>0, <2>2 DEF Marks
  <2> QED
    BY <1>3, <2>1, <2>2
<1> QED
  BY <1>1, <1>4 DEF InOrder

LEMMA TailIs ==
  ASSUME NEW q \in Seq(Envelope), q # <<>>
  PROVE  /\ Tail(q) \in Seq(Envelope) /\ Head(q) = q[1] /\ 1 \in DOMAIN q
         /\ DOMAIN q \subseteq Nat
         /\ \A i \in DOMAIN Tail(q) : i \in Nat /\ i + 1 \in DOMAIN q /\ Tail(q)[i] = q[i + 1] /\ i > 0
  OBVIOUS

LEMMA MarksTail ==
  ASSUME NEW q \in Seq(Envelope), q # <<>>
  PROVE  /\ \A type : Marks(Tail(q), type) \subseteq Marks(q, type)
         /\ Head(q).id \in Marks(q, Head(q).type)
         /\ Once(q) => Once(Tail(q))
         /\ InOrder(q) => InOrder(Tail(q))
         /\ Once(q) /\ Head(q).type = "message" => Head(q).id \notin Marks(Tail(q), "message")
         /\ InOrder(q) /\ Head(q).type = "read" => Head(q).id \notin Marks(Tail(q), "delivered")
<1>1. PICK k : k = Tail(q)
  OBVIOUS
<1>2. /\ Head(q) = q[1] /\ 1 \in DOMAIN q /\ DOMAIN q \subseteq Nat
      /\ \A i \in DOMAIN k : i \in Nat /\ i + 1 \in DOMAIN q /\ k[i] = q[i + 1] /\ i > 0
  BY <1>1, TailIs
<1>3. \A type : Marks(k, type) \subseteq Marks(q, type)
  BY <1>2 DEF Marks
<1>4. Head(q).id \in Marks(q, Head(q).type)
  BY <1>2 DEF Marks
<1>5. ASSUME Once(q) PROVE Once(k)
  <2>1. ASSUME NEW i \in DOMAIN k, NEW j \in DOMAIN k,
               k[i].type = "message", k[j].type = "message", k[i].id = k[j].id
        PROVE  i = j
    <3>1. i + 1 = j + 1
      BY <1>2, <1>5, <2>1 DEF Once
    <3> QED
      BY <1>2, <3>1
  <2> QED
    BY <2>1 DEF Once
<1>6. ASSUME InOrder(q) PROVE InOrder(k)
  <2>1. ASSUME NEW i \in DOMAIN k, NEW j \in DOMAIN k, i < j,
               k[i].type = "read", k[j].type = "delivered"
        PROVE  k[i].id # k[j].id
    <3>1. i + 1 < j + 1
      BY <1>2, <2>1
    <3> QED
      BY <1>2, <1>6, <2>1, <3>1 DEF InOrder
  <2> QED
    BY <2>1 DEF InOrder
<1>7. ASSUME Once(q), Head(q).type = "message", Head(q).id \in Marks(k, "message") PROVE FALSE
  <2>1. PICK i \in DOMAIN k : k[i].type = "message" /\ k[i].id = Head(q).id
    BY <1>7 DEF Marks
  <2>2. i + 1 = 1
    BY <1>2, <1>7, <2>1 DEF Once
  <2> QED
    BY <1>2, <2>2
<1>8. ASSUME InOrder(q), Head(q).type = "read", Head(q).id \in Marks(k, "delivered") PROVE FALSE
  <2>1. PICK i \in DOMAIN k : k[i].type = "delivered" /\ k[i].id = Head(q).id
    BY <1>8 DEF Marks
  <2>2. 1 < i + 1
    BY <1>2
  <2> QED
    BY <1>2, <1>8, <2>1, <2>2 DEF InOrder
<1> QED
  BY <1>1, <1>3, <1>4, <1>5, <1>6, <1>7, <1>8

LEMMA MarksType ==
  ASSUME NEW q \in Seq(Envelope), NEW type \in Types
  PROVE  Marks(q, type) \subseteq Id
<1> SUFFICES ASSUME NEW i \in DOMAIN q, q[i].type = type PROVE q[i].id \in Id
  BY DEF Marks
<1>1. q[i] \in Envelope
  OBVIOUS
<1> QED
  BY <1>1 DEF Envelope, Types

-----------------------------------------------------------------------------
(* A message is in one place until it is handled, and nobody but its author     *)
(* has it before.                                                               *)

Seen(a) == Ids(a.copy) \cup IF a.op = "open" THEN {a.what.id} ELSE {}
Known(u) == Ids(history[u]) \cup shown[u] \cup destroyed[u] \cup UNION {Seen(act[u][s]) : s \in Slot}
Doing(a) == IF a.step \in {"delivered", "read"} THEN {Head(a.batch).id} ELSE {}
Sends(a) == IF a.op = "send" THEN {a.what.id} ELSE {}
Sent1(m) == m \in Id /\ message[m] # None

OneSpot == \A p, q \in Place : \A m \in In(p, "message") : m \in In(q, "message") => p = q
Owner(p, m) == IF p[1] = "post" THEN message[m].by ELSE Peer(message[m].by)
SpotInv ==
  /\ OneSpot
  /\ \A p \in Place :
       /\ \A type \in Types : \A m \in In(p, type) : Sent1(m)
       /\ \A m \in In(p, "message") :
            p[2] = Owner(p, m) /\ \A u \in User : m \in Known(u) => u = message[m].by
  /\ \A u \in User : \A m \in Known(u) : Sent1(m)
  /\ \A u \in User : \A m \in destroyed[u] : message[m].by # u /\ File(m)

Fitting(u, s) ==
  /\ Once(Pending(act[u][s]))
  /\ \A m \in Doing(act[u][s]) :
       /\ u = Peer(message[m].by) /\ ~File(m) /\ m \in Ids(act[u][s].copy)
       /\ \A r \in Slot : m \in Doing(act[u][r]) => r = s
  /\ \A m \in Sends(act[u][s]) :
       /\ Sent1(m) /\ message[m].by = u
       /\ \A r \in Slot : m \in Sends(act[u][r]) => r = s
       /\ act[u][s].step \in {"post", "load"} => m \notin Known(u)
  /\ act[u][s].op = "open" =>
       /\ message[act[u][s].what.id].by # u /\ File(act[u][s].what.id)
       /\ act[u][s].step = "save" => act[u][s].what.id \notin Ids(act[u][s].copy)

PlaceInv ==
  /\ SpotInv /\ \A u \in User : Once(queue[u])
  /\ \A u \in User, s \in Slot : Fitting(u, s)

-----------------------------------------------------------------------------
(* Activations that look the same to these *)

Looks(a, b) ==
  /\ a.op = b.op /\ a.step = b.step /\ a.what = b.what /\ a.some = b.some
  /\ a.copy = b.copy /\ a.batch = b.batch

Elsewhere(u, s) ==
  \A v \in User, r \in Slot : <<v, r>> # <<u, s>> => Looks(act'[v][r], act[v][r])

LEMMA OthersElsewhere ==
  ASSUME NEW u \in User, NEW s \in Slot, Others(u, s)
  PROVE  Elsewhere(u, s)
  BY DEF Others, Elsewhere, Looks

LEMMA SaveElsewhere ==
  ASSUME TypeInv, NEW u \in User, NEW s \in Slot, Save(u, s)
  PROVE  Elsewhere(u, s)
<1> SUFFICES ASSUME NEW v \in User, NEW r \in Slot, <<v, r>> # <<u, s>>
             PROVE  Looks(act'[v][r], act[v][r])
  BY DEF Elsewhere
<1>1. CASE v # u
  BY <1>1, SaveFields DEF Looks
<1>2. CASE v = u /\ r # s
  BY <1>2, SaveFields DEF Looks
<1> QED
  BY <1>1, <1>2

LEMMA LooksSame ==
  ASSUME NEW a, NEW b, Looks(a, b)
  PROVE  /\ Pending(a) = Pending(b) /\ Seen(a) = Seen(b) /\ Doing(a) = Doing(b)
         /\ Sends(a) = Sends(b) /\ \A type : Posts(a, type) = Posts(b, type)
  BY DEF Looks, Pending, Seen, Doing, Sends, Posts

LEMMA IdleLooks ==
  /\ Pending(Idle) = <<>> /\ Seen(Idle) = {} /\ Doing(Idle) = {} /\ Sends(Idle) = {}
  /\ \A type : Posts(Idle, type) = {} /\ Marks(Pending(Idle), type) = {}
  /\ Once(Pending(Idle)) /\ InOrder(Pending(Idle)) /\ Idle.op = "none" /\ Idle.step = "none"
  BY IdleFields, EmptyType, MarksEmpty DEF Pending, Seen, Doing, Sends, Posts

LEMMA PlaceIs ==
  ASSUME NEW u \in User, NEW s \in Slot
  PROVE  <<"post", u, s>> \in Place /\ <<"batch", u, s>> \in Place /\ <<"queue", u, None>> \in Place
  BY DEF Place

LEMMA InIs ==
  ASSUME NEW u \in User, NEW s \in Slot, NEW type
  PROVE  /\ In(<<"post", u, s>>, type) = Posts(act[u][s], type)
         /\ In(<<"batch", u, s>>, type) = Marks(Pending(act[u][s]), type)
         /\ In(<<"queue", u, None>>, type) = Marks(queue[u], type)
         /\ In(<<"post", u, s>>, type)' = Posts(act'[u][s], type)
         /\ In(<<"batch", u, s>>, type)' = Marks(Pending(act'[u][s]), type)
         /\ In(<<"queue", u, None>>, type)' = Marks(queue'[u], type)
  BY DEF In

LEMMA InElsewhere ==
  ASSUME NEW u \in User, NEW s \in Slot, Elsewhere(u, s), NEW p \in Place, NEW type,
         p # <<"post", u, s>>, p # <<"batch", u, s>>,
         p[1] = "queue" => queue'[p[2]] = queue[p[2]]
  PROVE  In(p, type)' = In(p, type)
<1>1. CASE p[1] = "queue"
  BY <1>1 DEF In
<1>2. CASE p[1] # "queue"
  <2>1. PICK v \in User, r \in Slot : p = <<"post", v, r>> \/ p = <<"batch", v, r>>
    BY <1>2 DEF Place
  <2>2. <<v, r>> # <<u, s>>
    BY <2>1
  <2>3. Looks(act'[v][r], act[v][r])
    BY <2>2 DEF Elsewhere
  <2>4. /\ Pending(act'[v][r]) = Pending(act[v][r])
        /\ Posts(act'[v][r], type) = Posts(act[v][r], type)
    BY <2>3, LooksSame
  <2> QED
    BY <2>1, <2>4 DEF In
<1> QED
  BY <1>1, <1>2

(* One activation changes and no queue does *)
LEMMA InKept ==
  ASSUME NEW u \in User, NEW s \in Slot, Elsewhere(u, s), queue' = queue, NEW type,
         Posts(act'[u][s], type) \subseteq Posts(act[u][s], type),
         Marks(Pending(act'[u][s]), type) \subseteq Marks(Pending(act[u][s]), type)
  PROVE  \A p \in Place : In(p, type)' \subseteq In(p, type)
<1> SUFFICES ASSUME NEW p \in Place PROVE In(p, type)' \subseteq In(p, type)
  OBVIOUS
<1>1. CASE p = <<"post", u, s>> \/ p = <<"batch", u, s>>
  BY <1>1 DEF In
<1>2. CASE p # <<"post", u, s>> /\ p # <<"batch", u, s>>
  BY <1>2, InElsewhere
<1> QED
  BY <1>1, <1>2

LEMMA InType ==
  ASSUME TypeInv, NEW p \in Place, NEW type \in Types
  PROVE  In(p, type) \subseteq Id
<1>1. ASSUME NEW u \in User, NEW s \in Slot PROVE Posts(act[u][s], type) \subseteq Id
  <2>1. act[u][s].step = "post" => act[u][s].what \in Envelope
    BY EnvelopeTypes DEF TypeInv, ActOK
  <2> QED
    BY <2>1 DEF Posts, Types, Envelope
<1>2. ASSUME NEW u \in User, NEW s \in Slot PROVE Marks(Pending(act[u][s]), type) \subseteq Id
  <2>1. Pending(act[u][s]) \in Seq(Envelope)
    <3>1. act[u][s].batch \in Seq(Envelope)
      BY ActivationType
    <3>2. act[u][s].step \in {"delivered", "read"} => act[u][s].batch # <<>>
      BY DEF TypeInv, ActOK
    <3> QED
      BY <3>1, <3>2, TailIs DEF Pending
  <2> QED
    BY <2>1, MarksType
<1>3. ASSUME NEW u \in User PROVE Marks(queue[u], type) \subseteq Id
  BY ActType, MarksType
<1> QED
  BY <1>1, <1>2, <1>3 DEF In, Place

(* What users know, when one activation changes *)
LEMMA KnownElsewhere ==
  ASSUME NEW u \in User, NEW s \in Slot, Elsewhere(u, s), NEW v \in User,
         \A w \in User : destroyed'[w] \subseteq Known(w),
         \A w \in User : shown'[w] \subseteq Known(w),
         \A w \in User : Ids(history'[w]) \subseteq Known(w)
  PROVE  /\ v # u => Known(v)' \subseteq Known(v)
         /\ v = u => Known(v)' \subseteq Known(v) \cup Seen(act'[u][s])
<1>1. ASSUME NEW r \in Slot, <<v, r>> # <<u, s>>
      PROVE  Seen(act'[v][r]) \subseteq Known(v)
  <2>1. Looks(act'[v][r], act[v][r])
    BY <1>1 DEF Elsewhere
  <2>2. Seen(act'[v][r]) = Seen(act[v][r])
    BY <2>1, LooksSame
  <2> QED
    BY <2>2 DEF Known
<1>2. Known(v)' = Ids(history'[v]) \cup shown'[v] \cup destroyed'[v]
                    \cup UNION {Seen(act'[v][r]) : r \in Slot}
  BY DEF Known, Ids
<1>3. ASSUME v # u, NEW m \in Known(v)' PROVE m \in Known(v)
  BY <1>1, <1>2, <1>3
<1>4. ASSUME v = u, NEW m \in Known(v)' PROVE m \in Known(v) \cup Seen(act'[u][s])
  BY <1>1, <1>2, <1>4
<1> QED
  BY <1>3, <1>4

LEMMA KnownHas ==
  ASSUME NEW u \in User
  PROVE  /\ Ids(history[u]) \subseteq Known(u) /\ shown[u] \subseteq Known(u)
         /\ destroyed[u] \subseteq Known(u)
         /\ \A s \in Slot : Seen(act[u][s]) \subseteq Known(u) /\ Ids(act[u][s].copy) \subseteq Known(u)
  BY DEF Known, Seen

(* Envelopes leave their places, and what a user learns is not on its way *)
LEMMA SpotKept ==
  ASSUME SpotInv, message' = message,
         \A p \in Place : In(p, "message")' \subseteq In(p, "message"),
         \A p \in Place, type \in Types : \A m \in In(p, type)' : Sent1(m),
         \A u \in User : \A m \in Known(u)' :
           \/ m \in Known(u)
           \/ Sent1(m) /\ (message[m].by = u \/ \A p \in Place : m \notin In(p, "message")'),
         \A u \in User : \A m \in destroyed'[u] : message[m].by # u /\ File(m)
  PROVE  SpotInv'
<1>1. \A m : Sent1(m) => Sent1(m)'
  BY DEF Sent1
<1>2. OneSpot'
  BY DEF SpotInv, OneSpot
<1>3. ASSUME NEW p \in Place, NEW m \in In(p, "message")'
      PROVE  p[2] = Owner(p, m)' /\ \A u \in User : m \in Known(u)' => u = message[m]'.by
  <2>1. m \in In(p, "message") /\ p[2] = Owner(p, m)
    BY DEF SpotInv
  <2>2. Owner(p, m)' = Owner(p, m)
    BY DEF Owner
  <2>3. \A u \in User : m \in Known(u)' => u = message[m].by
    BY <2>1 DEF SpotInv
  <2> QED
    BY <2>1, <2>2, <2>3
<1>4. \A u \in User : \A m \in Known(u)' : Sent1(m)'
  BY <1>1 DEF SpotInv
<1>5. \A u \in User : \A m \in destroyed'[u] : message'[m].by # u /\ File(m)'
  BY DEF File
<1> QED
  BY <1>1, <1>2, <1>3, <1>4, <1>5 DEF SpotInv

(* The envelopes at one place go to another *)
LEMMA SpotMoves ==
  ASSUME SpotInv, message' = message, NEW from \in Place, NEW to \in Place,
         In(from, "message")' = {},
         \A p \in Place : p # to => In(p, "message")' \subseteq In(p, "message"),
         In(to, "message")' \subseteq In(to, "message") \cup In(from, "message"),
         \A m \in In(from, "message") : to[2] = Owner(to, m),
         \A p \in Place, type \in Types : \A m \in In(p, type)' : Sent1(m),
         \A u \in User : Known(u)' \subseteq Known(u),
         destroyed' = destroyed
  PROVE  SpotInv'
<1>1. \A m : Sent1(m) => Sent1(m)'
  BY DEF Sent1
<1>2. OneSpot'
  <2> SUFFICES ASSUME NEW p \in Place, NEW q \in Place, NEW m \in In(p, "message")',
                      m \in In(q, "message")'
               PROVE  p = q
    BY DEF OneSpot
  <2>1. p # from /\ q # from
    OBVIOUS
  <2>2. p # to => m \in In(p, "message")
    OBVIOUS
  <2>3. q # to => m \in In(q, "message")
    OBVIOUS
  <2>4. p = to => m \in In(to, "message") \/ m \in In(from, "message")
    OBVIOUS
  <2>5. q = to => m \in In(to, "message") \/ m \in In(from, "message")
    OBVIOUS
  <2> QED
    BY <2>1, <2>2, <2>3, <2>4, <2>5 DEF SpotInv, OneSpot
<1>3. ASSUME NEW p \in Place, NEW m \in In(p, "message")'
      PROVE  p[2] = Owner(p, m)' /\ \A u \in User : m \in Known(u)' => u = message[m]'.by
  <2>1. Owner(p, m)' = Owner(p, m)
    BY DEF Owner
  <2>2. PICK q \in Place : m \in In(q, "message")
    BY <1>3
  <2>3. \A u \in User : m \in Known(u)' => u = message[m].by
    BY <2>2 DEF SpotInv
  <2>4. p[2] = Owner(p, m)
    <3>1. CASE m \in In(p, "message")
      BY <3>1 DEF SpotInv
    <3>2. CASE p = to /\ m \in In(from, "message")
      BY <3>2
    <3> QED
      BY <1>3, <3>1, <3>2
  <2> QED
    BY <2>1, <2>3, <2>4
<1>4. \A u \in User : \A m \in Known(u)' : Sent1(m)'
  BY <1>1 DEF SpotInv
<1>5. \A u \in User : \A m \in destroyed'[u] : message'[m].by # u /\ File(m)'
  BY DEF File, SpotInv
<1> QED
  BY <1>1, <1>2, <1>3, <1>4, <1>5 DEF SpotInv

(* An activation after the step *)
LEMMA FittingNext ==
  ASSUME NEW u \in User, NEW s \in Slot,
         Once(Pending(act'[u][s])),
         \A m \in Doing(act'[u][s]) :
           /\ u = Peer(message'[m].by) /\ message'[m].kind = "text" /\ m \in Ids(act'[u][s].copy)
           /\ \A r \in Slot : m \in Doing(act'[u][r]) => r = s,
         \A m \in Sends(act'[u][s]) :
           /\ Sent1(m)' /\ message'[m].by = u
           /\ \A r \in Slot : m \in Sends(act'[u][r]) => r = s
           /\ act'[u][s].step \in {"post", "load"} => m \notin Known(u)',
         act'[u][s].op = "open" =>
           /\ message'[act'[u][s].what.id].by # u /\ message'[act'[u][s].what.id].kind # "text"
           /\ act'[u][s].step = "save" => act'[u][s].what.id \notin Ids(act'[u][s].copy)
  PROVE  Fitting(u, s)'
  BY DEF Fitting, File

(* The other activations *)
LEMMA FittingKept ==
  ASSUME PlaceInv, message' = message, NEW u \in User, NEW s \in Slot, Elsewhere(u, s),
         Fitting(u, s)',
         \A v \in User : \A m \in Known(v)' :
           m \in Known(v) \/ message[m].by # v \/ (v = u /\ m \in Sends(act[u][s]))
  PROVE  \A v \in User, r \in Slot : Fitting(v, r)'
<1> SUFFICES ASSUME NEW v \in User, NEW r \in Slot, <<v, r>> # <<u, s>> PROVE Fitting(v, r)'
  OBVIOUS
<1>1. Looks(act'[v][r], act[v][r]) /\ Fitting(v, r)
  BY DEF Elsewhere, PlaceInv
<1>2. /\ Pending(act'[v][r]) = Pending(act[v][r])
      /\ Doing(act'[v][r]) = Doing(act[v][r]) /\ Sends(act'[v][r]) = Sends(act[v][r])
      /\ act'[v][r].op = act[v][r].op /\ act'[v][r].step = act[v][r].step
      /\ act'[v][r].what = act[v][r].what /\ act'[v][r].copy = act[v][r].copy
  BY <1>1, LooksSame DEF Looks
<1>3. \A q \in Slot : <<v, q>> # <<u, s>> =>
        Doing(act'[v][q]) = Doing(act[v][q]) /\ Sends(act'[v][q]) = Sends(act[v][q])
  BY LooksSame DEF Elsewhere
<1>4. ASSUME NEW m \in Doing(act'[v][r])
      PROVE  /\ v = Peer(message'[m].by) /\ message'[m].kind = "text" /\ m \in Ids(act'[v][r].copy)
             /\ \A q \in Slot : m \in Doing(act'[v][q]) => q = r
  <2>1. v = Peer(message[m].by) /\ ~File(m) /\ m \in Ids(act[v][r].copy)
    BY <1>1, <1>2, <1>4 DEF Fitting
  <2>2. ASSUME NEW q \in Slot, m \in Doing(act'[v][q]) PROVE q = r
    <3>1. CASE <<v, q>> # <<u, s>>
      BY <1>1, <1>2, <1>3, <1>4, <2>2, <3>1 DEF Fitting
    <3>2. CASE <<v, q>> = <<u, s>>
      BY <1>4, <2>2, <3>2 DEF Fitting
    <3> QED
      BY <3>1, <3>2
  <2> QED
    BY <1>2, <2>1, <2>2 DEF File
<1>5. ASSUME NEW m \in Sends(act'[v][r])
      PROVE  /\ Sent1(m)' /\ message'[m].by = v
             /\ \A q \in Slot : m \in Sends(act'[v][q]) => q = r
             /\ act'[v][r].step \in {"post", "load"} => m \notin Known(v)'
  <2>1. Sent1(m) /\ message[m].by = v
    BY <1>1, <1>2, <1>5 DEF Fitting
  <2>2. ASSUME NEW q \in Slot, m \in Sends(act'[v][q]) PROVE q = r
    <3>1. CASE <<v, q>> # <<u, s>>
      BY <1>1, <1>2, <1>3, <1>5, <2>2, <3>1 DEF Fitting
    <3>2. CASE <<v, q>> = <<u, s>>
      BY <1>5, <2>2, <3>2 DEF Fitting
    <3> QED
      BY <3>1, <3>2
  <2>3. ASSUME act'[v][r].step \in {"post", "load"}, m \in Known(v)' PROVE FALSE
    <3>1. m \notin Known(v)
      BY <1>1, <1>2, <1>5, <2>3 DEF Fitting
    <3>2. v = u /\ m \in Sends(act[u][s])
      BY <2>1, <2>3, <3>1
    <3> QED
      BY <1>1, <1>2, <1>5, <3>2 DEF Fitting
  <2> QED
    BY <2>1, <2>2, <2>3 DEF Sent1
<1>6. act'[v][r].op = "open" =>
        /\ message'[act'[v][r].what.id].by # v /\ message'[act'[v][r].what.id].kind # "text"
        /\ act'[v][r].step = "save" => act'[v][r].what.id \notin Ids(act'[v][r].copy)
  BY <1>1, <1>2 DEF Fitting, File
<1>7. Once(Pending(act'[v][r]))
  BY <1>1, <1>2 DEF Fitting
<1>8. Ids(act'[v][r].copy) = Ids(act[v][r].copy)
  BY <1>2
<1> QED
  BY <1>4, <1>5, <1>6, <1>7, <1>8, FittingNext

LEMMA IdleFits ==
  ASSUME NEW u \in User, NEW s \in Slot, act'[u][s] = Idle
  PROVE  Fitting(u, s)'
  BY IdleLooks, FittingNext

(* What an activation knows, does and sends is what it did, or in a history *)
Calm(u, a, b) ==
  /\ \A type \in Types : Posts(a, type) \subseteq Posts(b, type)
                         /\ Marks(Pending(a), type) \subseteq Marks(Pending(b), type)
  /\ Once(Pending(a)) /\ Doing(a) = {} /\ Sends(a) \subseteq Sends(b)
  /\ a.op = "send" /\ a.step \in {"post", "load"} => b.step \in {"post", "load"}
  /\ a.op = "open" =>
       b.op = "open" /\ a.what = b.what /\ (a.step = "save" => a.what.id \notin Ids(a.copy))
  /\ Seen(a) \subseteq Known(u)

LEMMA PlaceCalm ==
  ASSUME PlaceInv, NEW u \in User, NEW s \in Slot, Elsewhere(u, s),
         message' = message, queue' = queue,
         \A v \in User : Ids(history'[v]) \subseteq Known(v),
         \A v \in User : shown'[v] \subseteq Known(v),
         \A v \in User : \A m \in destroyed'[v] :
           m \in Known(v) /\ message[m].by # v /\ File(m),
         Calm(u, act'[u][s], act[u][s])
  PROVE  PlaceInv'
<1>1. \A type \in Types, p \in Place : In(p, type)' \subseteq In(p, type)
  BY InKept DEF Calm
<1>2. \A v \in User : Known(v)' \subseteq Known(v)
  BY KnownElsewhere DEF Calm
<1>3. SpotInv /\ "message" \in Types
  BY DEF PlaceInv, Types
<1>4. \A p \in Place, type \in Types : \A m \in In(p, type)' : Sent1(m)
  BY <1>1, <1>3 DEF SpotInv
<1>5. SpotInv'
  BY <1>1, <1>2, <1>3, <1>4, SpotKept
<1>6. Fitting(u, s)
  BY DEF PlaceInv
<1>7. ASSUME NEW m \in Sends(act'[u][s])
      PROVE  /\ Sent1(m)' /\ message'[m].by = u
             /\ \A r \in Slot : m \in Sends(act'[u][r]) => r = s
             /\ act'[u][s].step \in {"post", "load"} => m \notin Known(u)'
  <2>1. m \in Sends(act[u][s]) /\ act'[u][s].op = "send"
    BY <1>7 DEF Calm, Sends
  <2>2. ASSUME NEW r \in Slot, m \in Sends(act'[u][r]), r # s PROVE FALSE
    <3>1. Looks(act'[u][r], act[u][r])
      BY <2>2 DEF Elsewhere
    <3>2. Sends(act'[u][r]) = Sends(act[u][r])
      BY <3>1, LooksSame
    <3> QED
      BY <1>6, <2>1, <2>2, <3>2 DEF Fitting
  <2>3. ASSUME act'[u][s].step \in {"post", "load"} PROVE m \notin Known(u)'
    <3>1. act[u][s].step \in {"post", "load"}
      BY <2>1, <2>3 DEF Calm
    <3> QED
      BY <1>2, <1>6, <2>1, <3>1 DEF Fitting
  <2>4. Sent1(m) /\ message[m].by = u
    BY <1>6, <2>1 DEF Fitting
  <2> QED
    BY <2>2, <2>3, <2>4 DEF Sent1
<1>8. act'[u][s].op = "open" =>
        /\ message'[act'[u][s].what.id].by # u /\ message'[act'[u][s].what.id].kind # "text"
        /\ act'[u][s].step = "save" => act'[u][s].what.id \notin Ids(act'[u][s].copy)
  BY <1>6 DEF Calm, Fitting, File
<1>9. Once(Pending(act'[u][s])) /\ Doing(act'[u][s]) = {}
  BY DEF Calm
<1>10. Fitting(u, s)'
  BY <1>7, <1>8, <1>9, FittingNext
<1>11. \A v \in User, r \in Slot : Fitting(v, r)'
  BY <1>2, <1>10, FittingKept
<1> QED
  BY <1>5, <1>11 DEF PlaceInv

(* An activation that begins with nothing in hand *)
LEMMA BeginLooks ==
  ASSUME NEW a, a.batch = <<>>, a.copy = Empty, a.step \in {"post", "fetch"}
  PROVE  /\ Pending(a) = <<>> /\ Once(Pending(a)) /\ Doing(a) = {} /\ Ids(a.copy) = {}
         /\ \A type : Marks(Pending(a), type) = {}
         /\ a.op # "open" => Seen(a) = {}
         /\ a.op = "open" => Seen(a) = {a.what.id}
         /\ a.op # "send" => Sends(a) = {}
         /\ a.op = "send" => Sends(a) = {a.what.id}
  BY EmptyType, MarksEmpty DEF Pending, Doing, Seen, Sends

LEMMA BeginCalm ==
  ASSUME NEW u, NEW a, NEW b, a.batch = <<>>, a.copy = Empty, a.step \in {"post", "fetch"},
         a.op \notin {"open", "send"}, \A type \in Types : Posts(a, type) = {}
  PROVE  Calm(u, a, b)
<1>1. Pending(a) = <<>> /\ Once(Pending(a)) /\ Doing(a) = {}
  BY BeginLooks
<1>2. Seen(a) = {} /\ Sends(a) = {}
  BY BeginLooks
<1>3. \A type : Marks(Pending(a), type) = {}
  BY BeginLooks
<1> QED
  BY <1>1, <1>2, <1>3 DEF Calm

LEMMA PlaceKnows ==
  ASSUME PlaceInv
  PROVE  /\ \A v \in User : Ids(history[v]) \subseteq Known(v) /\ shown[v] \subseteq Known(v)
         /\ \A v \in User : \A m \in destroyed[v] : m \in Known(v) /\ message[m].by # v /\ File(m)
  BY KnownHas DEF PlaceInv, SpotInv

LEMMA PlaceEnds ==
  ASSUME PlaceInv, NEW u \in User, NEW s \in Slot, Elsewhere(u, s), act'[u][s] = Idle,
         message' = message, queue' = queue,
         \A v \in User : Ids(history'[v]) \subseteq Known(v),
         \A v \in User : shown'[v] \subseteq Known(v),
         \A v \in User : \A m \in destroyed'[v] :
           m \in Known(v) /\ message[m].by # v /\ File(m)
  PROVE  PlaceInv'
<1>1. Calm(u, act'[u][s], act[u][s])
  BY IdleLooks DEF Calm
<1> QED
  BY <1>1, PlaceCalm

LEMMA SetTimerPlaces ==
  ASSUME Inv, PlaceInv, NEW u \in User, NEW s \in Slot, SetTimer(u, s)
  PROVE  PlaceInv'
<1>0. TypeInv
  BY DEF Inv
<1>1. PICK what : what.type = "timer" /\ Begin(u, s, "timer", "post", what)
  BY DEF SetTimer
<1>b. Begin(u, s, "timer", "post", what)
  BY <1>1
<1>2. /\ Others(u, s) /\ act'[u][s].op = "timer" /\ act'[u][s].step = "post"
      /\ act'[u][s].what = what
      /\ act'[u][s].batch = <<>> /\ act'[u][s].copy = Empty
  BY <1>0, <1>b, BeginFields
<1>3. \A type \in Types : Posts(act'[u][s], type) = {}
  BY <1>1, <1>2 DEF Posts, Types
<1>4. Calm(u, act'[u][s], act[u][s])
  BY <1>2, <1>3, BeginCalm
<1>5. UNCHANGED <<history, queue, shown, message, destroyed>>
  BY DEF SetTimer, disk
<1> QED
  BY <1>2, <1>4, <1>5, OthersElsewhere, PlaceCalm, PlaceKnows

LEMMA PollPlaces ==
  ASSUME Inv, PlaceInv, NEW u \in User, NEW s \in Slot, Poll(u, s)
  PROVE  PlaceInv'
<1>1. Begin(u, s, "poll", "fetch", None) /\ TypeInv
  BY DEF Poll, Inv
<1>2. /\ Others(u, s) /\ act'[u][s].op = "poll" /\ act'[u][s].step = "fetch"
      /\ act'[u][s].batch = <<>> /\ act'[u][s].copy = Empty
  BY <1>1, BeginFields
<1>3. \A type \in Types : Posts(act'[u][s], type) = {}
  BY <1>2 DEF Posts, Types
<1>4. Calm(u, act'[u][s], act[u][s])
  BY <1>2, <1>3, BeginCalm
<1>5. UNCHANGED <<history, queue, shown, message, destroyed>>
  BY DEF Poll, disk
<1> QED
  BY <1>2, <1>4, <1>5, OthersElsewhere, PlaceCalm, PlaceKnows

LEMMA TimerSetPlaces ==
  ASSUME Inv, PlaceInv, NEW u \in User, NEW s \in Slot, TimerSet(u, s)
  PROVE  PlaceInv'
<1>1. Others(u, s) /\ act'[u][s] = Idle
  BY EndFields DEF Inv, TimerSet
<1>2. UNCHANGED <<history, queue, shown, message, destroyed>>
  BY DEF TimerSet, past
<1> QED
  BY <1>1, <1>2, OthersElsewhere, PlaceEnds, PlaceKnows

LEMMA FailPlaces ==
  ASSUME Inv, PlaceInv, NEW u \in User, NEW s \in Slot, Fail(u, s)
  PROVE  PlaceInv'
<1>1. Others(u, s) /\ act'[u][s] = Idle
  BY EndFields DEF Inv, Fail
<1>2. UNCHANGED <<history, queue, shown, message, destroyed>>
  BY DEF Fail, disk
<1> QED
  BY <1>1, <1>2, OthersElsewhere, PlaceEnds, PlaceKnows

(* An activation that holds another history, for what it did before *)
LEMMA HoldsCalm ==
  ASSUME PlaceInv, TypeInv, NEW u \in User, NEW s \in Slot, NEW step \in {"save", "handle"}, NEW copy,
         Holds(u, s, step, copy), act[u][s].step \in {"load", "handle"},
         Ids(copy) \subseteq Known(u),
         act[u][s].op = "open" => act[u][s].what.id \notin Ids(copy)
  PROVE  Elsewhere(u, s) /\ Calm(u, act'[u][s], act[u][s])
<1>1. /\ Others(u, s) /\ Alike(act'[u][s], act[u][s]) /\ act'[u][s].step = step
      /\ act'[u][s].copy = copy /\ act'[u][s].batch = act[u][s].batch
  BY HoldsFields
<1>2. Pending(act'[u][s]) = Pending(act[u][s])
  BY <1>1 DEF Pending
<1>3. Once(Pending(act[u][s]))
  BY DEF PlaceInv, Fitting
<1>4. Seen(act[u][s]) \subseteq Known(u)
  BY KnownHas
<1>5. Seen(act'[u][s]) \subseteq Known(u)
  BY <1>1, <1>4 DEF Seen, Alike
<1>6. Sends(act'[u][s]) = Sends(act[u][s]) /\ Doing(act'[u][s]) = {}
  BY <1>1 DEF Sends, Doing, Alike
<1>7. \A type \in Types : Posts(act'[u][s], type) = {}
  BY <1>1 DEF Posts
<1>8. Calm(u, act'[u][s], act[u][s])
  BY <1>1, <1>2, <1>3, <1>5, <1>6, <1>7 DEF Calm, Alike
<1> QED
  BY <1>1, <1>8, OthersElsewhere

LEMMA OpenedPlaces ==
  ASSUME Inv, PlaceInv, NEW u \in User, NEW s \in Slot, Opened(u, s)
  PROVE  PlaceInv'
<1> DEFINE m == act[u][s].what.id
           copy == [history[u] EXCEPT ![m] = Absent]
<1>1. m \in Id /\ act[u][s].op = "open" /\ act[u][s].step = "load"
  BY DEF Opened, Inv, TypeInv, ActOK, Opening
<1>2. Ids(copy) = Ids(history[u]) \ {m}
  BY <1>1, DropType DEF Inv, TypeInv, TypeOK
<1>3. UNCHANGED <<history, queue, message, destroyed>>
  BY DEF Opened, disk, past
<1>4. CASE Return(u, s, history[u])
  <2>1. Others(u, s) /\ act'[u][s] = Idle
    BY <1>4, EndFields DEF Inv, Return
  <2>2. \A v \in User : shown'[v] \subseteq Known(v)
    BY <1>4, KnownHas, ActType DEF Return, Inv
  <2> QED
    BY <1>3, <2>1, <2>2, OthersElsewhere, PlaceEnds, PlaceKnows
<1>5. CASE Holds(u, s, "save", copy) /\ UNCHANGED shown
  <2> HIDE DEF copy
  <2>1. Ids(copy) \subseteq Known(u) /\ m \notin Ids(copy)
    BY <1>2, KnownHas
  <2>2. Elsewhere(u, s) /\ Calm(u, act'[u][s], act[u][s])
    BY <1>1, <1>5, <2>1, HoldsCalm DEF Inv
  <2> QED
    BY <1>3, <1>5, <2>2, PlaceCalm, PlaceKnows
<1> QED
  BY <1>4, <1>5 DEF Opened

LEMMA PollLoadedPlaces ==
  ASSUME Inv, PlaceInv, NEW u \in User, NEW s \in Slot, PollLoaded(u, s)
  PROVE  PlaceInv'
<1>1. Holds(u, s, "handle", history[u]) /\ act[u][s].op = "poll" /\ act[u][s].step = "load"
  BY DEF PollLoaded
<1>2. Elsewhere(u, s) /\ Calm(u, act'[u][s], act[u][s])
  BY <1>1, HoldsCalm, KnownHas DEF Inv
<1>3. UNCHANGED <<history, queue, shown, message, destroyed>>
  BY DEF PollLoaded, disk, past
<1> QED
  BY <1>2, <1>3, PlaceCalm, PlaceKnows

LEMMA AliveIds ==
  ASSUME NEW u \in User, NEW copy \in Copy
  PROVE  Ids(Alive(u, copy)) \subseteq Ids(copy)
  BY DEF Alive, Ids

LEMMA SweepPlaces ==
  ASSUME Inv, RoleInv, PlaceInv, NEW u \in User, NEW s \in Slot, Sweep(u, s)
  PROVE  PlaceInv'
<1> DEFINE alive == Alive(u, act[u][s].copy)
<1>1. act[u][s].step = "handle" /\ act[u][s].copy \in Copy
  BY ActivationType DEF Sweep, Inv
<1>2. Ids(alive) \subseteq Known(u) /\ Ids(alive) \subseteq Ids(act[u][s].copy)
  BY <1>1, AliveIds, KnownHas
<1>3. UNCHANGED <<history, queue, message, destroyed>>
  BY DEF Sweep, disk, past
<1>4. CASE Return(u, s, alive)
  <2> HIDE DEF alive
  <2>1. Others(u, s) /\ act'[u][s] = Idle
    BY <1>4, EndFields DEF Inv, Return
  <2>2. \A v \in User : shown'[v] \subseteq Known(v)
    BY <1>2, <1>4, KnownHas, ActType DEF Return, Inv
  <2> QED
    BY <1>3, <2>1, <2>2, OthersElsewhere, PlaceEnds, PlaceKnows
<1>5. CASE Holds(u, s, "save", alive) /\ UNCHANGED shown
  <2> HIDE DEF alive
  <2>1. act[u][s].op # "open"
    BY <1>1 DEF RoleInv, Role
  <2>2. Elsewhere(u, s) /\ Calm(u, act'[u][s], act[u][s])
    BY <1>1, <1>2, <1>5, <2>1, HoldsCalm DEF Inv
  <2> QED
    BY <1>3, <1>5, <2>2, PlaceCalm, PlaceKnows
<1> QED
  BY <1>4, <1>5 DEF Sweep

LEMMA PeerIsNot == \A u \in User : Peer(u) \in User /\ Peer(u) # u
  BY HistoryAssumption DEF Peer

LEMMA InGrows ==
  ASSUME NEW u \in User, NEW s \in Slot, Elsewhere(u, s), queue' = queue, NEW type, NEW X,
         Posts(act'[u][s], type) \subseteq Posts(act[u][s], type) \cup X,
         Marks(Pending(act'[u][s]), type) \subseteq Marks(Pending(act[u][s]), type) \cup X
  PROVE  \A p \in Place : In(p, type)' \subseteq In(p, type) \cup X
<1> SUFFICES ASSUME NEW p \in Place PROVE In(p, type)' \subseteq In(p, type) \cup X
  OBVIOUS
<1>1. CASE p = <<"post", u, s>> \/ p = <<"batch", u, s>>
  BY <1>1 DEF In
<1>2. CASE p # <<"post", u, s>> /\ p # <<"batch", u, s>>
  BY <1>2, InElsewhere
<1> QED
  BY <1>1, <1>2

(* Nothing of it changes *)
LEMMA PlaceSame ==
  ASSUME PlaceInv, UNCHANGED <<history, shown, destroyed, act, queue, message>>
  PROVE  PlaceInv'
<1>1. \A v \in User : Known(v)' = Known(v)
  BY DEF Known, Ids
<1>2. \A p \in Place : \A type : In(p, type)' = In(p, type)
  BY DEF In
<1>3. \A m : Sent1(m)' = Sent1(m)
  BY DEF Sent1
<1>4. SpotInv'
  BY <1>1, <1>2, <1>3 DEF PlaceInv, SpotInv, OneSpot, Owner, File
<1>5. ASSUME NEW v \in User, NEW r \in Slot PROVE Fitting(v, r)'
  <2>1. Fitting(v, r)
    BY DEF PlaceInv
  <2> QED
    BY <1>1, <1>3, <2>1 DEF Fitting, File
<1> QED
  BY <1>4, <1>5 DEF PlaceInv

LEMMA ExpirePlaces ==
  ASSUME PlaceInv, NEW u \in User, Expire(u)
  PROVE  PlaceInv'
  BY PlaceSame DEF Expire, disk

LEMMA SavePlaces ==
  ASSUME Inv, PlaceInv, NEW u \in User, NEW s \in Slot, Save(u, s)
  PROVE  PlaceInv'
<1>1. TypeInv
  BY DEF Inv
<1>2. Elsewhere(u, s) /\ act'[u][s] = Idle
  BY <1>1, SaveElsewhere, SaveFields
<1>3. Ids(act[u][s].copy) \subseteq Known(u)
  BY KnownHas
<1>4. \A v \in User : Ids(history'[v]) \subseteq Known(v)
  <2>1. history'[u] = act[u][s].copy /\ \A v \in User \ {u} : history'[v] = history[v]
    BY <1>1, SaveFields
  <2> QED
    BY <1>3, <2>1, KnownHas
<1>5. \A v \in User : shown'[v] \subseteq Known(v)
  <2>1. shown'[u] = Ids(act[u][s].copy) /\ \A v \in User \ {u} : shown'[v] = shown[v]
    BY <1>1, SaveFields
  <2> QED
    BY <1>3, <2>1, KnownHas
<1>6. ASSUME NEW v \in User, NEW m \in destroyed'[v] PROVE m \in Known(v) /\ message[m].by # v /\ File(m)
  <2>1. CASE m \in destroyed[v]
    BY <2>1, PlaceKnows
  <2>2. CASE v = u /\ act[u][s].op = "open" /\ m = act[u][s].what.id
    <3>1. message[m].by # u /\ File(m)
      BY <2>2 DEF PlaceInv, Fitting
    <3>2. m \in Seen(act[u][s])
      BY <2>2 DEF Seen
    <3> QED
      BY <2>2, <3>1, <3>2, KnownHas
  <2>3. /\ destroyed'[u] =
             destroyed[u] \cup IF act[u][s].op = "open" THEN {act[u][s].what.id} ELSE {}
        /\ \A w \in User \ {u} : destroyed'[w] = destroyed[w]
    BY <1>1, SaveFields
  <2> QED
    BY <1>6, <2>1, <2>2, <2>3
<1>7. UNCHANGED <<message, queue>>
  BY DEF Save
<1> QED
  BY <1>2, <1>4, <1>5, <1>6, <1>7, PlaceEnds

LEMMA OpenFilePlaces ==
  ASSUME Inv, PlaceInv, NEW u \in User, NEW s \in Slot, OpenFile(u, s)
  PROVE  PlaceInv'
<1>0. TypeInv
  BY DEF Inv
<1>a. PICK m \in shown[u] \cap Received(u) :
        File(m) /\ Begin(u, s, "open", "post", [type |-> "file-opened", id |-> m])
  BY DEF OpenFile
<1>1. PICK what :
        what.type = "file-opened" /\ what.id = m /\ File(m) /\ Begin(u, s, "open", "post", what)
  BY <1>a
<1>2. Begin(u, s, "open", "post", what)
  BY <1>1
<1>3. /\ Others(u, s) /\ act'[u][s].op = "open" /\ act'[u][s].step = "post"
      /\ act'[u][s].what = what
      /\ act'[u][s].batch = <<>> /\ act'[u][s].copy = Empty
  BY <1>0, <1>2, BeginFields
<1>4. /\ Pending(act'[u][s]) = <<>> /\ Once(Pending(act'[u][s])) /\ Doing(act'[u][s]) = {}
      /\ \A type : Marks(Pending(act'[u][s]), type) = {}
      /\ Seen(act'[u][s]) = {m} /\ Sends(act'[u][s]) = {}
  BY <1>1, <1>3, BeginLooks
<1>5. \A type : Posts(act'[u][s], type) \subseteq IF type = "file-opened" THEN {m} ELSE {}
  BY <1>1, <1>3 DEF Posts
<1>6. UNCHANGED <<history, queue, shown, message, destroyed>>
  BY DEF OpenFile, disk
<1>7. Sent1(m) /\ message[m].by # u
  BY <1>1 DEF Sent1, Received
<1>8. \A type \in Types, p \in Place : In(p, type)' \subseteq In(p, type) \cup {m}
  <2> SUFFICES ASSUME NEW type \in Types
               PROVE  \A p \in Place : In(p, type)' \subseteq In(p, type) \cup {m}
    OBVIOUS
  <2>1. /\ Posts(act'[u][s], type) \subseteq Posts(act[u][s], type) \cup {m}
        /\ Marks(Pending(act'[u][s]), type) \subseteq Marks(Pending(act[u][s]), type) \cup {m}
    BY <1>4, <1>5
  <2>2. Elsewhere(u, s) /\ queue' = queue
    BY <1>3, <1>6, OthersElsewhere
  <2> QED
    BY <2>1, <2>2, InGrows
<1>9. \A p \in Place : In(p, "message")' \subseteq In(p, "message")
  BY <1>3, <1>4, <1>5, <1>6, OthersElsewhere, InKept
<1>10. \A p \in Place, type \in Types : \A x \in In(p, type)' : Sent1(x)
  BY <1>7, <1>8 DEF PlaceInv, SpotInv
<1>11. m \in Known(u)
  BY <1>1, KnownHas
<1>12. \A v \in User : Known(v)' \subseteq Known(v)
  BY <1>3, <1>4, <1>6, <1>11, OthersElsewhere, KnownElsewhere, KnownHas
<1>13. SpotInv'
  BY <1>6, <1>9, <1>10, <1>12, SpotKept DEF PlaceInv, SpotInv
<1>14. message'[m].by # u /\ message'[m].kind # "text"
  BY <1>1, <1>6, <1>7 DEF File
<1>15. Fitting(u, s)'
  BY <1>1, <1>3, <1>4, <1>14, FittingNext
<1>16. \A v \in User, r \in Slot : Fitting(v, r)'
  BY <1>3, <1>6, <1>12, <1>15, OthersElsewhere, FittingKept
<1> QED
  BY <1>6, <1>13, <1>16 DEF PlaceInv

(* The envelopes at the server go to a poll *)
LEMMA FetchIn ==
  ASSUME TypeInv, NEW u \in User, NEW s \in Slot, Fetch(u, s),
         NEW from, from = <<"queue", u, None>>, NEW to, to = <<"batch", u, s>>
  PROVE  /\ \A type : In(from, type)' = {} /\ In(to, type)' = In(from, type)
         /\ \A p \in Place, type \in Types : p # to => In(p, type)' \subseteq In(p, type)
         /\ from \in Place /\ to \in Place
<1>1. /\ Others(u, s) /\ act[u][s].step = "fetch" /\ act'[u][s].step = "load"
      /\ act'[u][s].batch = queue[u]
      /\ queue'[u] = <<>> /\ \A v \in User \ {u} : queue'[v] = queue[v]
  BY FetchFields
<1>4. from \in Place /\ to \in Place
  BY PlaceIs
<1>5. Pending(act'[u][s]) = queue[u]
  BY <1>1 DEF Pending
<1>6. ASSUME NEW type PROVE In(from, type)' = {} /\ In(to, type)' = In(from, type)
  BY <1>1, <1>5, MarksEmpty DEF In
<1>7. ASSUME NEW p \in Place, p # to, NEW type \in Types PROVE In(p, type)' \subseteq In(p, type)
  <2>1. CASE p = from
    BY <1>6, <2>1
  <2>2. CASE p = <<"post", u, s>>
    BY <1>1, <2>2 DEF In, Posts
  <2>3. CASE p # from /\ p # <<"post", u, s>>
    <3>1. p[1] = "queue" => queue'[p[2]] = queue[p[2]]
      BY <1>1, <2>3 DEF Place
    <3> QED
      BY <1>1, <1>7, <2>3, <3>1, OthersElsewhere, InElsewhere
  <2> QED
    BY <2>1, <2>2, <2>3
<1> QED
  BY <1>4, <1>6, <1>7

LEMMA FetchPlaces ==
  ASSUME Inv, RoleInv, PlaceInv, NEW u \in User, NEW s \in Slot, Fetch(u, s)
  PROVE  PlaceInv'
<1> DEFINE from == <<"queue", u, None>>
           to == <<"batch", u, s>>
<1>0. TypeInv
  BY DEF Inv
<1>1. /\ Others(u, s) /\ act[u][s].step = "fetch" /\ act'[u][s].step = "load"
      /\ act'[u][s].op = act[u][s].op
      /\ act'[u][s].copy = act[u][s].copy /\ act'[u][s].batch = queue[u]
      /\ queue'[u] = <<>> /\ \A v \in User \ {u} : queue'[v] = queue[v]
  BY <1>0, FetchFields
<1>2. act'[u][s].op = "poll" /\ act[u][s].op = "poll"
  BY <1>1 DEF RoleInv, Role
<1>3. UNCHANGED <<history, shown, message, destroyed>>
  BY DEF Fetch, disk, past
<1>4. from \in Place /\ to \in Place
  BY PlaceIs
<1>5. Pending(act'[u][s]) = queue[u]
  BY <1>1 DEF Pending
<1>6. /\ \A type : In(from, type)' = {} /\ In(to, type)' = In(from, type)
      /\ \A p \in Place, type \in Types : p # to => In(p, type)' \subseteq In(p, type)
  BY <1>0, FetchIn
<1>8. \A p \in Place, type \in Types : \A m \in In(p, type)' : Sent1(m)
  BY <1>4, <1>6 DEF PlaceInv, SpotInv
<1>9. \A m \in In(from, "message") : to[2] = Owner(to, m)
  BY <1>4 DEF PlaceInv, SpotInv, Owner
<1>10. Seen(act'[u][s]) \subseteq Known(u)
  <2>1. Seen(act'[u][s]) = Ids(act[u][s].copy)
    BY <1>1, <1>2 DEF Seen
  <2> QED
    BY <2>1, KnownHas
<1>11. \A v \in User : Known(v)' \subseteq Known(v)
  BY <1>1, <1>3, <1>10, OthersElsewhere, KnownElsewhere, KnownHas
<1>12. SpotInv'
  <2>1. "message" \in Types /\ SpotInv
    BY DEF Types, PlaceInv
  <2>2. /\ In(from, "message")' = {} /\ In(to, "message")' \subseteq In(to, "message") \cup In(from, "message")
        /\ \A p \in Place : p # to => In(p, "message")' \subseteq In(p, "message")
    BY <1>6, <2>1
  <2> HIDE DEF from, to
  <2> QED
    BY <1>3, <1>4, <1>8, <1>9, <1>11, <2>1, <2>2, SpotMoves
<1>13. Fitting(u, s)'
  <2>1. Once(Pending(act'[u][s]))
    BY <1>5 DEF PlaceInv
  <2>2. Doing(act'[u][s]) = {} /\ Sends(act'[u][s]) = {}
    BY <1>1, <1>2 DEF Doing, Sends
  <2> QED
    BY <1>2, <2>1, <2>2, FittingNext
<1>14. \A v \in User, r \in Slot : Fitting(v, r)'
  BY <1>1, <1>3, <1>11, <1>13, OthersElsewhere, FittingKept
<1>15. \A v \in User : Once(queue'[v])
  BY <1>1, MarksEmpty DEF PlaceInv
<1> QED
  BY <1>12, <1>14, <1>15 DEF PlaceInv

LEMMA AppendedPlaces ==
  ASSUME Inv, PlaceInv, NEW u \in User, NEW s \in Slot, Appended(u, s)
  PROVE  PlaceInv'
<1> PICK m : m = act[u][s].what.id
  OBVIOUS
<1> PICK copy : copy = [history[u] EXCEPT ![m] = Sent(u, m)]
  OBVIOUS
<1>0. TypeInv
  BY DEF Inv
<1>1. act[u][s].op = "send" /\ act[u][s].step = "load" /\ m \in Id
  BY <1>0 DEF Appended, TypeInv, ActOK, Text
<1>2. Holds(u, s, "save", copy)
  BY DEF Appended
<1>3. Ids(copy) = Ids(history[u]) \cup {m}
  <2>1. Sent(u, m) \in ChatMessage /\ history[u] \in Copy
    BY <1>0, <1>1, SentType, ActType DEF TypeInv
  <2> QED
    BY <1>1, <2>1, PutType
<1>4. /\ Others(u, s) /\ Alike(act'[u][s], act[u][s]) /\ act'[u][s].step = "save"
      /\ act'[u][s].copy = copy /\ act'[u][s].batch = act[u][s].batch
  BY <1>0, <1>2, HoldsFields
<1>5. UNCHANGED <<history, queue, shown, message, destroyed>>
  BY DEF Appended, disk, past
<1>6. Sends(act[u][s]) = {m} /\ Sends(act'[u][s]) = {m} /\ Doing(act'[u][s]) = {}
  BY <1>1, <1>4 DEF Sends, Doing, Alike
<1>7. Pending(act'[u][s]) = Pending(act[u][s]) /\ \A type : Posts(act'[u][s], type) = {}
  BY <1>1, <1>4 DEF Pending, Posts
<1>8. \A type \in Types, p \in Place : In(p, type)' \subseteq In(p, type)
  BY <1>4, <1>5, <1>7, OthersElsewhere, InKept
<1>9. Fitting(u, s) /\ Sent1(m) /\ message[m].by = u
  BY <1>6 DEF PlaceInv, Fitting
<1>10. Seen(act'[u][s]) \subseteq Known(u) \cup {m}
  <2>1. Seen(act'[u][s]) = Ids(history[u]) \cup {m}
    BY <1>1, <1>3, <1>4 DEF Seen, Alike
  <2> QED
    BY <2>1, KnownHas
<1>11. \A v \in User : \A x \in Known(v)' : x \in Known(v) \/ (v = u /\ x = m)
  BY <1>4, <1>5, <1>10, OthersElsewhere, KnownElsewhere, KnownHas
<1>12. SpotInv'
  <2>1. SpotInv /\ "message" \in Types
    BY DEF PlaceInv, Types
  <2>2. \A p \in Place, type \in Types : \A x \in In(p, type)' : Sent1(x)
    BY <1>8, <2>1 DEF SpotInv
  <2>3. \A v \in User : \A x \in destroyed'[v] : message[x].by # v /\ File(x)
    BY <1>5, <2>1 DEF SpotInv
  <2>4. \A v \in User : \A x \in Known(v)' : x \in Known(v) \/ (Sent1(x) /\ message[x].by = v)
    BY <1>9, <1>11
  <2> QED
    BY <1>5, <1>8, <2>1, <2>2, <2>3, <2>4, SpotKept
<1>13. Fitting(u, s)'
  <2>1. Once(Pending(act'[u][s]))
    BY <1>7, <1>9 DEF Fitting
  <2>2. ASSUME NEW r \in Slot, m \in Sends(act'[u][r]), r # s PROVE FALSE
    <3>1. Sends(act'[u][r]) = Sends(act[u][r])
      BY <1>4, <2>2, OthersElsewhere, LooksSame DEF Elsewhere
    <3> QED
      BY <1>6, <1>9, <2>2, <3>1 DEF Fitting
  <2>3. Sent1(m)' /\ message'[m].by = u
    BY <1>5, <1>9 DEF Sent1
  <2>4. act'[u][s].op # "open" /\ act'[u][s].step \notin {"post", "load"}
    BY <1>1, <1>4 DEF Alike
  <2> QED
    BY <1>6, <2>1, <2>2, <2>3, <2>4, FittingNext
<1>14. \A v \in User, r \in Slot : Fitting(v, r)'
  BY <1>4, <1>5, <1>6, <1>11, <1>13, OthersElsewhere, FittingKept
<1> QED
  BY <1>5, <1>12, <1>14 DEF PlaceInv

(* The envelope goes from its sender to the server *)
LEMMA PostedIn ==
  ASSUME TypeInv, NEW u \in User, NEW s \in Slot, Posted(u, s),
         NEW from, from = <<"post", u, s>>, NEW to, to = <<"queue", Peer(u), None>>
  PROVE  /\ \A type : In(from, type)' = {} /\ In(to, type)' \subseteq In(to, type) \cup In(from, type)
         /\ \A p \in Place, type \in Types : p # to => In(p, type)' \subseteq In(p, type)
         /\ from \in Place /\ to \in Place /\ from # to
<1> DEFINE v == Peer(u)
           e == act[u][s].what
<1>1. /\ Others(u, s)
      /\ act[u][s].step = "post" /\ act'[u][s].step \in {"load", "set"}
      /\ act'[u][s].batch = act[u][s].batch
      /\ e \in Envelope
      /\ queue'[v] = Append(queue[v], e)
      /\ \A w \in User \ {v} : queue'[w] = queue[w]
      /\ v \in User
  BY PostedFields
<1>3. from \in Place /\ to \in Place /\ from # to
  BY <1>1, PlaceIs
<1>4. ASSUME NEW type
      PROVE  In(from, type)' = {} /\ In(to, type)' \subseteq In(to, type) \cup In(from, type)
  <2>1. In(from, type)' = {}
    BY <1>1 DEF In, Posts
  <2>2. In(from, type) = IF e.type = type THEN {e.id} ELSE {}
    BY <1>1 DEF In, Posts
  <2>3. In(to, type) = Marks(queue[v], type) /\ In(to, type)' = Marks(Append(queue[v], e), type)
    BY <1>1 DEF In
  <2>4. queue[v] \in Seq(Envelope)
    BY <1>1, ActType
  <2>5. e \in Envelope
    BY <1>1
  <2> HIDE DEF e, v
  <2>6. Marks(Append(queue[v], e), type) \subseteq Marks(queue[v], type) \cup (IF e.type = type THEN {e.id} ELSE {})
    BY ONLY <2>4, <2>5, MarksAppend
  <2> QED
    BY <2>1, <2>2, <2>3, <2>6
<1>5. ASSUME NEW p \in Place, p # to, NEW type \in Types PROVE In(p, type)' \subseteq In(p, type)
  <2>1. CASE p = from
    BY <1>4, <2>1
  <2>2. CASE p = <<"batch", u, s>>
    BY <1>1, <2>2 DEF In, Pending
  <2>3. CASE p # from /\ p # <<"batch", u, s>>
    <3>1. p[1] = "queue" => queue'[p[2]] = queue[p[2]]
      BY <1>1, <1>5, <2>3 DEF Place
    <3> QED
      BY <1>1, <1>5, <2>3, <3>1, OthersElsewhere, InElsewhere
  <2> QED
    BY <2>1, <2>2, <2>3
<1> QED
  BY <1>3, <1>4, <1>5

LEMMA PostedPlaces ==
  ASSUME Inv, PlaceInv, NEW u \in User, NEW s \in Slot, Posted(u, s)
  PROVE  PlaceInv'
<1> DEFINE v == Peer(u)
           e == act[u][s].what
           from == <<"post", u, s>>
           to == <<"queue", v, None>>
<1>0. TypeInv /\ SpotInv /\ "message" \in Types
  BY DEF Inv, PlaceInv, Types
<1>1. /\ Others(u, s) /\ Alike(act'[u][s], act[u][s])
      /\ act[u][s].step = "post" /\ act'[u][s].step \in {"load", "set"}
      /\ act'[u][s].copy = act[u][s].copy /\ act'[u][s].batch = act[u][s].batch
      /\ e \in Envelope
      /\ queue'[v] = Append(queue[v], e)
      /\ \A w \in User \ {v} : queue'[w] = queue[w]
      /\ v \in User
  BY <1>0, PostedFields
<1>2. UNCHANGED <<history, shown, message, destroyed>>
  BY DEF Posted, disk
<1>3. from \in Place /\ to \in Place /\ from # to
  BY <1>1, PlaceIs
<1>4. /\ \A type : In(from, type)' = {} /\ In(to, type)' \subseteq In(to, type) \cup In(from, type)
      /\ \A p \in Place, type \in Types : p # to => In(p, type)' \subseteq In(p, type)
  BY <1>0, PostedIn
<1>6. \A p \in Place, type \in Types : \A m \in In(p, type)' : Sent1(m)
  <2>1. \A p \in Place, type \in Types : \A m \in In(p, type) : Sent1(m)
    BY <1>0 DEF SpotInv
  <2> HIDE DEF from, to
  <2> QED
    BY <1>3, <1>4, <2>1
<1>7. \A m \in In(from, "message") : to[2] = Owner(to, m)
  BY <1>0, <1>3 DEF SpotInv, Owner
<1>8. \A w \in User : Known(w)' \subseteq Known(w)
  <2>1. Seen(act'[u][s]) = Seen(act[u][s])
    BY <1>1 DEF Seen, Alike
  <2> QED
    BY <1>1, <1>2, <2>1, OthersElsewhere, KnownElsewhere, KnownHas
<1>9. SpotInv'
  <2> HIDE DEF from, to
  <2> QED
    BY <1>0, <1>2, <1>3, <1>4, <1>6, <1>7, <1>8, SpotMoves
<1>10. Sends(act'[u][s]) = Sends(act[u][s]) /\ Doing(act'[u][s]) = {}
  BY <1>1 DEF Sends, Doing, Alike
<1>11. Fitting(u, s)'
  <2>1. Fitting(u, s)
    BY DEF PlaceInv
  <2>2. Once(Pending(act'[u][s]))
    BY <1>1, <2>1 DEF Pending, Fitting
  <2>3. ASSUME NEW m \in Sends(act'[u][s])
        PROVE  /\ Sent1(m)' /\ message'[m].by = u
               /\ \A r \in Slot : m \in Sends(act'[u][r]) => r = s
               /\ m \notin Known(u)'
    <3>1. Sent1(m) /\ message[m].by = u /\ m \notin Known(u)
      BY <1>1, <1>10, <2>1 DEF Fitting
    <3>2. ASSUME NEW r \in Slot, m \in Sends(act'[u][r]), r # s PROVE FALSE
      <4>1. Sends(act'[u][r]) = Sends(act[u][r])
        BY <1>1, <3>2 DEF Others
      <4> QED
        BY <1>10, <2>1, <3>2, <4>1 DEF Fitting
    <3> QED
      BY <1>2, <1>8, <3>1, <3>2 DEF Sent1
  <2>4. act'[u][s].op = "open" =>
          /\ message'[act'[u][s].what.id].by # u /\ message'[act'[u][s].what.id].kind # "text"
          /\ act'[u][s].step # "save"
    BY <1>1, <1>2, <2>1 DEF Fitting, File, Alike
  <2> QED
    BY <1>10, <2>2, <2>3, <2>4, FittingNext
<1>12. \A w \in User, r \in Slot : Fitting(w, r)'
  BY <1>1, <1>2, <1>8, <1>11, OthersElsewhere, FittingKept
<1>13. \A w \in User : Once(queue'[w])
  <2>1. \A w \in User : Once(queue[w]) /\ queue[w] \in Seq(Envelope)
    BY <1>0, ActType DEF PlaceInv
  <2>2. e.type = "message" => e.id \notin Marks(queue[v], "message")
    <3>1. ASSUME e.type = "message", e.id \in Marks(queue[v], "message") PROVE FALSE
      <4>1. e.id \in In(from, "message")
        BY <1>1, <3>1 DEF In, Posts
      <4>2. e.id \in In(to, "message")
        BY <3>1 DEF In
      <4> QED
        BY <1>0, <1>3, <4>1, <4>2 DEF SpotInv, OneSpot
    <3> QED
      BY <3>1
  <2> HIDE DEF e, v
  <2> QED
    BY <1>1, <2>1, <2>2, OnceAppend
<1> QED
  BY <1>9, <1>12, <1>13 DEF PlaceInv

LEMMA ReopenPlaces ==
  ASSUME Inv, PlaceInv, NEW u \in User, Reopen(u)
  PROVE  PlaceInv'
<1>0. TypeInv /\ SpotInv /\ "message" \in Types
  BY DEF Inv, PlaceInv, Types
<1>1. /\ \A s \in Slot : act'[u][s] = Idle
      /\ \A v \in User \ {u}, s \in Slot : act'[v][s] = act[v][s]
      /\ shown'[u] = Ids(history[u]) /\ \A v \in User \ {u} : shown'[v] = shown[v]
      /\ history' = history /\ queue' = queue
  BY <1>0, ReopenFields
<1>2. UNCHANGED <<message, destroyed>>
  BY DEF Reopen
<1>3. ASSUME NEW p \in Place, NEW type PROVE In(p, type)' \subseteq In(p, type)
  <2>1. CASE p[1] = "queue"
    BY <1>1, <2>1 DEF In
  <2>2. CASE p[1] # "queue"
    <3>1. p[2] \in User /\ p[3] \in Slot
      BY <2>2 DEF Place
    <3>2. act'[p[2]][p[3]] = Idle \/ act'[p[2]][p[3]] = act[p[2]][p[3]]
      BY <1>1, <3>1
    <3> QED
      BY <2>2, <3>2, IdleLooks DEF In
  <2> QED
    BY <2>1, <2>2
<1>4. \A v \in User : Known(v)' \subseteq Known(v)
  <2> SUFFICES ASSUME NEW v \in User, NEW m \in Known(v)' PROVE m \in Known(v)
    OBVIOUS
  <2>1. Known(v)' = Ids(history[v]) \cup shown'[v] \cup destroyed[v]
                      \cup UNION {Seen(act'[v][r]) : r \in Slot}
    BY <1>1, <1>2 DEF Known, Ids
  <2>2. \A r \in Slot : Seen(act'[v][r]) \subseteq Seen(act[v][r])
    BY <1>1, IdleLooks
  <2>3. shown'[v] \subseteq Known(v)
    BY <1>1, KnownHas
  <2> QED
    BY <2>1, <2>2, <2>3 DEF Known
<1>5. SpotInv'
  <2>1. \A p \in Place, type \in Types : \A m \in In(p, type)' : Sent1(m)
    BY <1>0, <1>3 DEF SpotInv
  <2>2. \A v \in User : \A m \in destroyed'[v] : message[m].by # v /\ File(m)
    BY <1>0, <1>2 DEF SpotInv
  <2> QED
    BY <1>0, <1>2, <1>3, <1>4, <2>1, <2>2, SpotKept
<1>6. ASSUME NEW v \in User, NEW r \in Slot PROVE Fitting(v, r)'
  <2>1. CASE v = u
    BY <1>1, <2>1, IdleFits
  <2>2. CASE v # u
    <3>1. Fitting(v, r) /\ \A q \in Slot : act'[v][q] = act[v][q]
      BY <1>1, <2>2 DEF PlaceInv
    <3>2. \A m : Sent1(m)' = Sent1(m)
      BY <1>2 DEF Sent1
    <3> QED
      BY <1>2, <1>4, <3>1, <3>2 DEF Fitting, File
  <2> QED
    BY <2>1, <2>2
<1> QED
  BY <1>1, <1>5, <1>6 DEF PlaceInv

(* What a poll makes of each message in hand *)
LEMMA TakesAt ==
  ASSUME TypeOK, NEW u \in User, NEW old \in Copy, NEW new, NEW e \in Envelope, Takes(u, old, new, e)
  PROVE  /\ new \in Copy /\ Ids(old) \subseteq Ids(new)
         /\ e.type = "timer" => new = old
         /\ e.type # "timer" => \A m \in Id \ {e.id} : new[m] = old[m]
         /\ e.type = "message" => new[e.id] = Arrived(u, e.id) /\ Ids(new) = Ids(old) \cup {e.id}
         /\ e.type \notin {"timer", "message"} =>
              /\ Ids(new) = Ids(old)
              /\ new[e.id] = IF old[e.id] = Absent \/ message[e.id].by # u THEN old[e.id]
                             ELSE Marked(old[e.id], e.type)
<1>1. new \in Copy /\ Ids(old) \subseteq Ids(new)
  BY HandledCopy DEF Takes
<1>2. e.type = "timer" => new = old
  BY DEF Takes
<1>3. CASE e.type = "message"
  <2>1. e.id \in Id /\ new = [old EXCEPT ![e.id] = Arrived(u, e.id)]
    BY <1>3 DEF Envelope, Takes
  <2>2. Arrived(u, e.id) \in ChatMessage
    BY <2>1, ArrivedType
  <2>3. Ids(new) = Ids(old) \cup {e.id}
    BY <2>1, <2>2, PutType
  <2>4. new[e.id] = Arrived(u, e.id) /\ \A m \in Id \ {e.id} : new[m] = old[m]
    BY <2>1 DEF Copy
  <2> QED
    BY <1>1, <1>3, <2>3, <2>4
<1>4. CASE e.type \notin {"timer", "message"}
  <2>1. e.id \in Id
    BY <1>4 DEF Envelope
  <2>2. \/ /\ old[e.id] = Absent \/ message[e.id].by # u
           /\ new = old
        \/ /\ ~(old[e.id] = Absent \/ message[e.id].by # u)
           /\ new = [old EXCEPT ![e.id] = Marked(old[e.id], e.type)]
    BY <1>4 DEF Takes
  <2>3. \A m \in Id \ {e.id} : new[m] = old[m]
    BY <2>1, <2>2 DEF Copy
  <2>4. new[e.id] = IF old[e.id] = Absent \/ message[e.id].by # u THEN old[e.id]
                    ELSE Marked(old[e.id], e.type)
    BY <2>1, <2>2 DEF Copy
  <2>5. old[e.id] = Absent => new[e.id] = Absent
    BY <2>4
  <2>6. Ids(new) \subseteq Ids(old)
    BY <2>3, <2>5 DEF Ids
  <2> QED
    BY <1>1, <1>4, <2>3, <2>4, <2>6
<1> QED
  BY <1>1, <1>2, <1>3, <1>4

LEMMA HandlePlaces ==
  ASSUME Inv, RoleInv, PlaceInv, NEW u \in User, NEW s \in Slot, Handle(u, s)
  PROVE  PlaceInv'
<1> PICK e : e = Head(act[u][s].batch)
  OBVIOUS
<1> DEFINE here == <<"batch", u, s>>
<1>0. TypeInv /\ TypeOK /\ SpotInv /\ "message" \in Types /\ Fitting(u, s)
  BY DEF Inv, TypeInv, PlaceInv, Types
<1>1. /\ Others(u, s) /\ Alike(act'[u][s], act[u][s])
      /\ act[u][s].step = "handle" /\ act[u][s].batch # <<>>
      /\ e \in Envelope
      /\ Takes(u, act[u][s].copy, act'[u][s].copy, e)
      /\ \/ act'[u][s].step = "handle" /\ act'[u][s].batch = Tail(act[u][s].batch)
         \/ /\ act'[u][s].step = "delivered" /\ act'[u][s].batch = act[u][s].batch
            /\ e.type = "message" /\ ~File(e.id)
  BY <1>0, HandleFields
<1>2. act[u][s].op = "poll" /\ act'[u][s].op = "poll"
  BY <1>1 DEF RoleInv, Role, Alike
<1>3. UNCHANGED <<history, queue, shown, message, destroyed>>
  BY DEF Handle, past
<1>4. Pending(act[u][s]) = act[u][s].batch /\ Pending(act'[u][s]) = Tail(act[u][s].batch)
  BY <1>1 DEF Pending
<1>5. act[u][s].batch \in Seq(Envelope) /\ act[u][s].copy \in Copy
  BY <1>0, ActivationType
<1>6. /\ \A type : Marks(Pending(act'[u][s]), type) \subseteq Marks(Pending(act[u][s]), type)
      /\ Once(Pending(act[u][s])) /\ Once(Pending(act'[u][s]))
      /\ e.id \in Marks(Pending(act[u][s]), e.type)
      /\ e.type = "message" => e.id \notin Marks(Pending(act'[u][s]), "message")
  <2>1. Once(Pending(act[u][s]))
    BY <1>0 DEF Fitting
  <2> QED
    BY <1>1, <1>4, <1>5, <2>1, MarksTail
<1>7. \A type \in Types, p \in Place : In(p, type)' \subseteq In(p, type)
  <2>1. \A type : Posts(act'[u][s], type) = {}
    BY <1>1 DEF Posts
  <2> QED
    BY <1>1, <1>3, <1>6, <2>1, OthersElsewhere, InKept
<1>8. ASSUME e.type = "message"
      PROVE  /\ Sent1(e.id) /\ u = Peer(message[e.id].by) /\ message[e.id].by # u
             /\ \A v \in User : e.id \in Known(v) => v = message[e.id].by
             /\ \A p \in Place : e.id \notin In(p, "message")'
  <2>1. here \in Place /\ e.id \in In(here, "message")
    BY <1>6, <1>8, PlaceIs DEF In
  <2>2. Sent1(e.id) /\ here[2] = Owner(here, e.id) /\ \A v \in User : e.id \in Known(v) => v = message[e.id].by
    BY <1>0, <2>1 DEF SpotInv
  <2>3. u = Peer(message[e.id].by)
    BY <2>2 DEF Owner
  <2>4. message[e.id].by \in User
    BY <1>0, <2>2, ActType DEF Sent1
  <2>5. message[e.id].by # u
    BY <2>3, <2>4, PeerIsNot
  <2>6. ASSUME NEW p \in Place, e.id \in In(p, "message")' PROVE FALSE
    <3>1. e.id \in In(p, "message")
      BY <1>0, <1>7, <2>6
    <3>2. p = here
      BY <1>0, <2>1, <3>1 DEF SpotInv, OneSpot
    <3>3. e.id \in Marks(Pending(act'[u][s]), "message")
      BY <2>6, <3>2 DEF In
    <3> QED
      BY <1>6, <1>8, <3>3
  <2> QED
    BY <2>2, <2>3, <2>5, <2>6
<1>9. Seen(act'[u][s]) \subseteq Known(u) \cup (IF e.type = "message" THEN {e.id} ELSE {})
  <2>1. Seen(act'[u][s]) = Ids(act'[u][s].copy)
    BY <1>2 DEF Seen
  <2>2. Ids(act'[u][s].copy) \subseteq Ids(act[u][s].copy) \cup (IF e.type = "message" THEN {e.id} ELSE {})
    BY <1>0, <1>1, <1>5, TakesAt
  <2> QED
    BY <2>1, <2>2, KnownHas
<1>10. \A v \in User : \A m \in Known(v)' :
         m \in Known(v) \/ (v = u /\ e.type = "message" /\ m = e.id)
  BY <1>1, <1>3, <1>9, OthersElsewhere, KnownElsewhere, KnownHas
<1>11. SpotInv'
  <2>1. \A p \in Place, type \in Types : \A m \in In(p, type)' : Sent1(m)
    BY <1>0, <1>7 DEF SpotInv
  <2>2. \A v \in User : \A m \in destroyed'[v] : message[m].by # v /\ File(m)
    BY <1>0, <1>3 DEF SpotInv
  <2>3. \A v \in User : \A m \in Known(v)' :
          \/ m \in Known(v)
          \/ Sent1(m) /\ (message[m].by = v \/ \A p \in Place : m \notin In(p, "message")')
    BY <1>8, <1>10
  <2> QED
    BY <1>0, <1>3, <1>7, <2>1, <2>2, <2>3, SpotKept
<1>12. Fitting(u, s)'
  <2>1. Sends(act'[u][s]) = {}
    BY <1>2 DEF Sends
  <2>2. ASSUME NEW m \in Doing(act'[u][s])
        PROVE  /\ u = Peer(message'[m].by) /\ message'[m].kind = "text" /\ m \in Ids(act'[u][s].copy)
               /\ \A r \in Slot : m \in Doing(act'[u][r]) => r = s
    <3>1. m = e.id /\ e.type = "message" /\ ~File(e.id)
      BY <1>1, <2>2 DEF Doing
    <3>2. e.id \in Ids(act'[u][s].copy)
      BY <1>0, <1>1, <1>5, <3>1, TakesAt
    <3>3. ASSUME NEW r \in Slot, m \in Doing(act'[u][r]), r # s PROVE FALSE
      <4>1. act'[u][r] = act[u][r]
        BY <1>1, <3>3 DEF Others
      <4>2. m \in Ids(act[u][r].copy)
        BY <3>3, <4>1 DEF PlaceInv, Fitting
      <4>3. m \in Known(u)
        BY <4>2, KnownHas
      <4> QED
        BY <1>8, <3>1, <4>3
    <3> QED
      BY <1>3, <1>8, <3>1, <3>2, <3>3 DEF File
  <2> QED
    BY <1>2, <1>6, <2>1, <2>2, FittingNext
<1>13. \A v \in User, r \in Slot : Fitting(v, r)'
  <2>1. \A v \in User : \A m \in Known(v)' :
          m \in Known(v) \/ message[m].by # v \/ (v = u /\ m \in Sends(act[u][s]))
    BY <1>8, <1>10
  <2> QED
    BY <1>1, <1>3, <1>12, <2>1, OthersElsewhere, FittingKept
<1> QED
  BY <1>3, <1>11, <1>13 DEF PlaceInv

LEMMA ReceiptPlaces ==
  ASSUME Inv, RoleInv, PlaceInv, NEW u \in User, NEW s \in Slot, Receipt(u, s)
  PROVE  PlaceInv'
<1> PICK m : m = Head(act[u][s].batch).id
  OBVIOUS
<1> PICK e : e = [type |-> act[u][s].step, id |-> m]
  OBVIOUS
<1> DEFINE v == Peer(u)
           to == <<"queue", v, None>>
<1>0. TypeInv /\ SpotInv /\ "message" \in Types /\ Fitting(u, s)
  BY DEF Inv, PlaceInv, Types
<1>1. /\ Others(u, s) /\ Alike(act'[u][s], act[u][s]) /\ act'[u][s].copy = act[u][s].copy
      /\ act[u][s].step \in {"delivered", "read"} /\ act[u][s].batch # <<>>
      /\ act[u][s].step = "delivered" =>
           act'[u][s].step = "read" /\ act'[u][s].batch = act[u][s].batch
      /\ act[u][s].step = "read" =>
           act'[u][s].step = "handle" /\ act'[u][s].batch = Tail(act[u][s].batch)
      /\ queue'[v] = Append(queue[v], e)
      /\ \A w \in User \ {v} : queue'[w] = queue[w]
      /\ e \in Envelope /\ m \in Id /\ v \in User
  BY <1>0, ReceiptFields
<1>2. e.type = act[u][s].step /\ e.id = m /\ e.type # "message"
  BY <1>1
<1>3. UNCHANGED <<history, shown, message, destroyed>>
  BY DEF Receipt, disk, past
<1>4. act'[u][s].op = "poll" /\ act[u][s].op = "poll"
  BY <1>1 DEF RoleInv, Role, Alike
<1>5. Pending(act'[u][s]) = Pending(act[u][s]) /\ \A type : Posts(act'[u][s], type) = {}
  BY <1>1 DEF Pending, Posts
<1>6. m \in Doing(act[u][s]) /\ Doing(act'[u][s]) \subseteq Doing(act[u][s])
  BY <1>1 DEF Doing
<1>7. Sent1(m)
  <2>1. m \in Known(u)
    BY <1>0, <1>6, KnownHas DEF Fitting
  <2> QED
    BY <1>0, <2>1 DEF SpotInv
<1>8. to \in Place
  BY <1>1, PlaceIs
<1>9. ASSUME NEW p \in Place, p # to, NEW type PROVE In(p, type)' \subseteq In(p, type)
  <2>1. CASE p = <<"post", u, s>> \/ p = <<"batch", u, s>>
    BY <1>5, <2>1 DEF In
  <2>2. CASE p # <<"post", u, s>> /\ p # <<"batch", u, s>>
    <3>1. p[1] = "queue" => queue'[p[2]] = queue[p[2]]
      BY <1>1, <1>9 DEF Place
    <3> QED
      BY <1>1, <1>9, <2>2, <3>1, OthersElsewhere, InElsewhere
  <2> QED
    BY <2>1, <2>2
<1>10. ASSUME NEW type
       PROVE  /\ In(to, type)' \subseteq In(to, type) \cup {m}
              /\ type = "message" => In(to, type)' \subseteq In(to, type)
  <2>1. In(to, type) = Marks(queue[v], type) /\ In(to, type)' = Marks(Append(queue[v], e), type)
    BY <1>1 DEF In
  <2>2. queue[v] \in Seq(Envelope)
    BY <1>0, <1>1, ActType
  <2> HIDE DEF to, v
  <2> QED
    BY <1>1, <1>2, <2>1, <2>2, MarksAppend
<1>11. \A w \in User : Known(w)' \subseteq Known(w)
  <2>1. Seen(act'[u][s]) = Seen(act[u][s])
    BY <1>1, <1>4 DEF Seen
  <2> QED
    BY <1>1, <1>3, <2>1, OthersElsewhere, KnownElsewhere, KnownHas
<1>12. SpotInv'
  <2> HIDE DEF to
  <2>1. \A p \in Place : In(p, "message")' \subseteq In(p, "message")
    BY <1>9, <1>10
  <2>2. \A p \in Place, type \in Types : \A x \in In(p, type)' : Sent1(x)
    <3>1. \A p \in Place, type \in Types : \A x \in In(p, type) : Sent1(x)
      BY <1>0 DEF SpotInv
    <3>2. \A p \in Place : \A type : In(p, type)' \subseteq In(p, type) \cup {m}
      BY <1>9, <1>10
    <3> QED
      BY <1>7, <3>1, <3>2
  <2>3. \A w \in User : \A x \in destroyed'[w] : message[x].by # w /\ File(x)
    BY <1>0, <1>3 DEF SpotInv
  <2> QED
    BY <1>0, <1>3, <1>11, <2>1, <2>2, <2>3, SpotKept
<1>13. Fitting(u, s)'
  <2>1. Sends(act'[u][s]) = {}
    BY <1>4 DEF Sends
  <2>2. ASSUME NEW x \in Doing(act'[u][s])
        PROVE  /\ u = Peer(message'[x].by) /\ message'[x].kind = "text" /\ x \in Ids(act'[u][s].copy)
               /\ \A r \in Slot : x \in Doing(act'[u][r]) => r = s
    <3>1. x \in Doing(act[u][s])
      BY <1>6
    <3>2. ASSUME NEW r \in Slot, x \in Doing(act'[u][r]), r # s PROVE FALSE
      <4>1. act'[u][r] = act[u][r]
        BY <1>1, <3>2 DEF Others
      <4> QED
        BY <1>0, <3>1, <3>2, <4>1 DEF Fitting
    <3> QED
      BY <1>0, <1>1, <1>3, <3>1, <3>2 DEF Fitting, File
  <2>3. Once(Pending(act'[u][s]))
    BY <1>0, <1>5 DEF Fitting
  <2> QED
    BY <1>4, <2>1, <2>2, <2>3, FittingNext
<1>14. \A w \in User, r \in Slot : Fitting(w, r)'
  BY <1>1, <1>3, <1>11, <1>13, OthersElsewhere, FittingKept
<1>15. \A w \in User : Once(queue'[w])
  <2>1. \A w \in User : Once(queue[w]) /\ queue[w] \in Seq(Envelope)
    BY <1>0, ActType DEF PlaceInv
  <2> HIDE DEF v
  <2> QED
    BY <1>1, <1>2, <2>1, OnceAppend
<1> QED
  BY <1>12, <1>14, <1>15 DEF PlaceInv

LEMMA SendPlaces ==
  ASSUME Inv, PlaceInv, NEW u \in User, NEW s \in Slot, Send(u, s)
  PROVE  PlaceInv'
<1>0. TypeInv /\ SpotInv /\ "message" \in Types
  BY DEF Inv, PlaceInv, Types
<1>b. PICK m \in Id, kind \in Kinds :
        /\ message[m] = None
        /\ message' = [message EXCEPT ![m] = [by |-> u, kind |-> kind]]
        /\ Begin(u, s, "send", "post", [type |-> "message", id |-> m])
  BY DEF Send
<1>1. PICK what :
        /\ message[m] = None
        /\ message' = [message EXCEPT ![m] = [by |-> u, kind |-> kind]]
        /\ what.type = "message" /\ what.id = m
        /\ Begin(u, s, "send", "post", what)
  BY <1>b
<1>2. Begin(u, s, "send", "post", what)
  BY <1>1
<1>a. TypeInv
  BY <1>0
<1>3. /\ Others(u, s) /\ act'[u][s].op = "send" /\ act'[u][s].step = "post"
      /\ act'[u][s].what = what
      /\ act'[u][s].batch = <<>> /\ act'[u][s].copy = Empty
  BY <1>a, <1>2, BeginFields
<1>4. /\ Once(Pending(act'[u][s])) /\ Doing(act'[u][s]) = {}
      /\ \A type : Marks(Pending(act'[u][s]), type) = {}
      /\ Seen(act'[u][s]) = {} /\ Sends(act'[u][s]) = {m}
  BY <1>1, <1>3, BeginLooks
<1>5. \A type : Posts(act'[u][s], type) \subseteq IF type = "message" THEN {m} ELSE {}
  BY <1>1, <1>3 DEF Posts
<1>6. UNCHANGED <<history, queue, shown, destroyed>>
  BY DEF Send, disk
<1>7. message'[m].by = u /\ message'[m] # None /\ \A x \in Id \ {m} : message'[x] = message[x]
  <2>1. message \in [Id -> [by : User, kind : Kinds] \cup {None}]
    BY <1>0, ActType
  <2>2. message'[m] = [by |-> u, kind |-> kind] /\ \A x \in Id \ {m} : message'[x] = message[x]
    BY <1>1, <2>1
  <2> QED
    BY <2>2, HistoryAssumption
<1>8. ~Sent1(m) /\ Sent1(m)' /\ \A x : Sent1(x) => Sent1(x)' /\ x # m /\ x \in Id /\ message'[x] = message[x]
  BY <1>1, <1>7 DEF Sent1
<1>9. ASSUME NEW type \in Types
      PROVE  \A p \in Place : In(p, type)' \subseteq In(p, type) \cup {m}
  <2>1. /\ Posts(act'[u][s], type) \subseteq Posts(act[u][s], type) \cup {m}
        /\ Marks(Pending(act'[u][s]), type) \subseteq Marks(Pending(act[u][s]), type) \cup {m}
    BY <1>4, <1>5
  <2>2. Elsewhere(u, s) /\ queue' = queue
    BY <1>3, <1>6, OthersElsewhere
  <2> QED
    BY <2>1, <2>2, InGrows
<1>10. ASSUME NEW p \in Place, m \in In(p, "message")' PROVE p = <<"post", u, s>>
  <2>1. CASE p = <<"batch", u, s>>
    BY <1>4, <1>10, <2>1 DEF In
  <2>2. CASE p # <<"post", u, s>> /\ p # <<"batch", u, s>>
    <3>1. m \in In(p, "message")
      BY <1>3, <1>6, <1>10, <2>2, OthersElsewhere, InElsewhere
    <3> QED
      BY <1>0, <1>8, <3>1 DEF SpotInv
  <2> QED
    BY <2>1, <2>2
<1>11. \A v \in User : Known(v)' \subseteq Known(v)
  BY <1>3, <1>4, <1>6, OthersElsewhere, KnownElsewhere, KnownHas
<1>12. \A v \in User : \A x \in Known(v) : Sent1(x)
  BY <1>0 DEF SpotInv
<1>13. SpotInv'
  <2>1. OneSpot'
    <3> SUFFICES ASSUME NEW p \in Place, NEW q \in Place, NEW x \in In(p, "message")',
                        x \in In(q, "message")'
                 PROVE  p = q
      BY DEF OneSpot
    <3>1. CASE x = m
      BY <1>10, <3>1
    <3>2. CASE x # m
      <4>1. x \in In(p, "message") /\ x \in In(q, "message")
        BY <1>0, <1>9, <3>2
      <4> QED
        BY <1>0, <4>1 DEF SpotInv, OneSpot
    <3> QED
      BY <3>1, <3>2
  <2>2. ASSUME NEW p \in Place, NEW type \in Types, NEW x \in In(p, type)' PROVE Sent1(x)'
    <3>1. x = m \/ x \in In(p, type)
      BY <1>9
    <3> QED
      BY <1>0, <1>8, <3>1 DEF SpotInv
  <2>3. ASSUME NEW p \in Place, NEW x \in In(p, "message")'
        PROVE  p[2] = Owner(p, x)' /\ \A v \in User : x \in Known(v)' => v = message'[x].by
    <3>1. CASE x = m
      <4>1. p = <<"post", u, s>>
        BY <1>10, <3>1
      <4>2. p[2] = Owner(p, x)'
        BY <1>7, <3>1, <4>1 DEF Owner
      <4> QED
        BY <1>8, <1>11, <1>12, <3>1, <4>2
    <3>2. CASE x # m
      <4>1. x \in In(p, "message")
        BY <1>0, <1>9, <3>2
      <4>2. p[2] = Owner(p, x) /\ Sent1(x) /\ \A v \in User : x \in Known(v) => v = message[x].by
        BY <1>0, <4>1 DEF SpotInv
      <4>3. message'[x] = message[x]
        BY <1>8, <4>2
      <4>4. Owner(p, x)' = Owner(p, x)
        BY <4>3 DEF Owner
      <4> QED
        BY <1>11, <4>2, <4>3, <4>4
    <3> QED
      BY <3>1, <3>2
  <2>4. \A v \in User : \A x \in Known(v)' : Sent1(x)'
    BY <1>8, <1>11, <1>12
  <2>5. ASSUME NEW v \in User, NEW x \in destroyed'[v] PROVE message'[x].by # v /\ File(x)'
    <3>1. x \in destroyed[v] /\ message[x].by # v /\ File(x)
      BY <1>0, <1>6 DEF SpotInv
    <3>2. message'[x] = message[x]
      BY <1>8, <1>12, <3>1, KnownHas
    <3> QED
      BY <3>1, <3>2 DEF File
  <2> QED
    BY <2>1, <2>2, <2>3, <2>4, <2>5 DEF SpotInv
<1>14. ASSUME NEW v \in User, NEW r \in Slot, <<v, r>> # <<u, s>> PROVE Fitting(v, r)'
  <2>1. Fitting(v, r) /\ act'[v][r] = act[v][r]
    BY <1>3, <1>14 DEF PlaceInv, Others
  <2>2. \A q \in Slot : Doing(act'[v][q]) \subseteq Doing(act[v][q])
    <3> SUFFICES ASSUME NEW q \in Slot PROVE Doing(act'[v][q]) \subseteq Doing(act[v][q])
      OBVIOUS
    <3>1. CASE <<v, q>> = <<u, s>>
      BY <1>4, <3>1
    <3>2. CASE <<v, q>> # <<u, s>>
      <4>1. act'[v][q] = act[v][q]
        BY <1>3, <3>2 DEF Others
      <4> QED
        BY <4>1
    <3> QED
      BY <3>1, <3>2
  <2>3. ASSUME NEW x \in Doing(act'[v][r])
        PROVE  /\ v = Peer(message'[x].by) /\ message'[x].kind = "text" /\ x \in Ids(act'[v][r].copy)
               /\ \A q \in Slot : x \in Doing(act'[v][q]) => q = r
    <3>1. /\ v = Peer(message[x].by) /\ ~File(x) /\ x \in Ids(act[v][r].copy)
          /\ \A q \in Slot : x \in Doing(act[v][q]) => q = r
      BY <2>1 DEF Fitting
    <3>2. Sent1(x)
      BY <1>12, <3>1, KnownHas
    <3> QED
      BY <1>8, <2>1, <2>2, <3>1, <3>2 DEF File
  <2>4. ASSUME NEW x \in Sends(act'[v][r])
        PROVE  /\ Sent1(x)' /\ message'[x].by = v
               /\ \A q \in Slot : x \in Sends(act'[v][q]) => q = r
               /\ act'[v][r].step \in {"post", "load"} => x \notin Known(v)'
    <3>1. /\ Sent1(x) /\ message[x].by = v
          /\ \A q \in Slot : x \in Sends(act[v][q]) => q = r
          /\ act[v][r].step \in {"post", "load"} => x \notin Known(v)
      BY <2>1 DEF Fitting
    <3>2. ASSUME NEW q \in Slot, x \in Sends(act'[v][q]) PROVE q = r
      <4>1. CASE <<v, q>> = <<u, s>>
        BY <1>4, <1>8, <3>1, <3>2, <4>1
      <4>2. CASE <<v, q>> # <<u, s>>
        <5>1. act'[v][q] = act[v][q]
          BY <1>3, <4>2 DEF Others
        <5> QED
          BY <3>1, <3>2, <5>1
      <4> QED
        BY <4>1, <4>2
    <3> QED
      BY <1>8, <1>11, <2>1, <3>1, <3>2
  <2>5. ASSUME act'[v][r].op = "open"
        PROVE  /\ message'[act'[v][r].what.id].by # v /\ message'[act'[v][r].what.id].kind # "text"
               /\ act'[v][r].step = "save" => act'[v][r].what.id \notin Ids(act'[v][r].copy)
    <3>1. PICK x : x = act[v][r].what.id
      OBVIOUS
    <3>2. /\ message[x].by # v /\ File(x)
          /\ act[v][r].step = "save" => x \notin Ids(act[v][r].copy)
      BY <2>1, <2>5, <3>1 DEF Fitting
    <3>3. x \in Seen(act[v][r])
      BY <2>1, <2>5, <3>1 DEF Seen
    <3>4. Sent1(x)
      BY <1>12, <3>3, KnownHas
    <3> QED
      BY <1>8, <2>1, <3>1, <3>2, <3>4 DEF File
  <2>6. Once(Pending(act'[v][r]))
    BY <2>1 DEF Fitting
  <2> QED
    BY <2>3, <2>4, <2>5, <2>6, FittingNext
<1>15. Fitting(u, s)'
  <2>1. ASSUME NEW r \in Slot, m \in Sends(act'[u][r]), r # s PROVE FALSE
    <3>1. act'[u][r] = act[u][r]
      BY <1>3, <2>1 DEF Others
    <3>2. Sent1(m)
      BY <2>1, <3>1 DEF PlaceInv, Fitting
    <3> QED
      BY <1>8, <3>2
  <2>2. m \notin Known(u)'
    BY <1>8, <1>11, <1>12
  <2> QED
    BY <1>3, <1>4, <1>7, <1>8, <2>1, <2>2, FittingNext
<1>16. \A v \in User, r \in Slot : Fitting(v, r)'
  BY <1>14, <1>15
<1> QED
  BY <1>6, <1>13, <1>16 DEF PlaceInv

LEMMA InitPlaces == Init => PlaceInv
<1> SUFFICES ASSUME Init PROVE PlaceInv
  OBVIOUS
<1>1. /\ \A u \in User : history[u] = Empty /\ shown[u] = {} /\ destroyed[u] = {} /\ queue[u] = <<>>
      /\ \A u \in User, s \in Slot : act[u][s] = Idle
  BY DEF Init
<1>2. \A u \in User : Known(u) = {}
  BY <1>1, EmptyType, IdleLooks DEF Known
<1>3. \A p \in Place : \A type : In(p, type) = {}
  <2> SUFFICES ASSUME NEW p \in Place, NEW type PROVE In(p, type) = {}
    OBVIOUS
  <2>1. CASE p[1] = "queue"
    <3>1. p[2] \in User
      BY DEF Place
    <3> QED
      BY <1>1, <2>1, <3>1, MarksEmpty DEF In
  <2>2. CASE p[1] # "queue"
    <3>1. p[2] \in User /\ p[3] \in Slot
      BY <2>2 DEF Place
    <3> QED
      BY <1>1, <2>2, <3>1, IdleLooks DEF In
  <2> QED
    BY <2>1, <2>2
<1>4. SpotInv
  BY <1>1, <1>2, <1>3 DEF SpotInv, OneSpot
<1>5. \A u \in User, s \in Slot : Fitting(u, s)
  BY <1>1, IdleLooks DEF Fitting
<1>6. \A u \in User : Once(queue[u])
  BY <1>1, MarksEmpty
<1> QED
  BY <1>4, <1>5, <1>6 DEF PlaceInv

LEMMA NextPlaces ==
  ASSUME Inv, RoleInv, PlaceInv, [Next]_vars
  PROVE  PlaceInv'
<1>1. ASSUME NEW u \in User, NEW s \in Handler, Act(u, s) PROVE PlaceInv'
  BY <1>1, SlotSplit, SendPlaces, OpenFilePlaces, SetTimerPlaces DEF Act
<1>2. ASSUME NEW u \in User, NEW s \in Poller, Poll(u, s) PROVE PlaceInv'
  BY <1>2, SlotSplit, PollPlaces
<1>3. ASSUME NEW u \in User, NEW s \in Slot, GoesOn(u, s) PROVE PlaceInv'
  BY <1>3, PostedPlaces, TimerSetPlaces, AppendedPlaces, OpenedPlaces, SavePlaces, FetchPlaces,
     PollLoadedPlaces, HandlePlaces, ReceiptPlaces, SweepPlaces DEF GoesOn
<1>4. CASE UNCHANGED vars
  BY <1>4, PlaceSame DEF vars, disk, past
<1> QED
  BY <1>1, <1>2, <1>3, <1>4, FailPlaces, ExpirePlaces, ReopenPlaces DEF Next

-----------------------------------------------------------------------------
(* What was deleted for having been opened stays away *)

Hands(a) == a.step \in {"save", "handle", "delivered", "read"} /\ ~a.stale
GoneInv ==
  \A u \in User : ~clobbered[u] =>
    /\ destroyed[u] \cap Ids(history[u]) = {}
    /\ \A s \in Slot : Hands(act[u][s]) => destroyed[u] \cap Ids(act[u][s].copy) = {}

LEMMA GoneElsewhere ==
  ASSUME GoneInv, NEW u \in User, NEW s \in Slot, Others(u, s),
         UNCHANGED <<history, destroyed, clobbered>>,
         ~clobbered[u] /\ Hands(act'[u][s]) => destroyed[u] \cap Ids(act'[u][s].copy) = {}
  PROVE  GoneInv'
<1> SUFFICES ASSUME NEW v \in User, ~clobbered[v], NEW r \in Slot
             PROVE  /\ destroyed[v] \cap Ids(history[v]) = {}
                    /\ Hands(act'[v][r]) => destroyed[v] \cap Ids(act'[v][r].copy) = {}
  BY DEF GoneInv, Hands, Ids
<1>1. destroyed[v] \cap Ids(history[v]) = {}
  BY DEF GoneInv
<1>2. CASE <<v, r>> = <<u, s>>
  BY <1>1, <1>2
<1>3. CASE <<v, r>> # <<u, s>>
  <2>1. act'[v][r] = act[v][r]
    BY <1>3 DEF Others
  <2> QED
    BY <1>1, <2>1 DEF GoneInv
<1> QED
  BY <1>2, <1>3

LEMMA GoneKept ==
  ASSUME GoneInv, NEW u \in User, NEW s \in Slot, Others(u, s),
         UNCHANGED <<history, destroyed, clobbered>>,
         act'[u][s].step \notin {"save", "handle", "delivered", "read"}
  PROVE  GoneInv'
  BY GoneElsewhere DEF Hands

LEMMA GoneHolds ==
  ASSUME TypeInv, GoneInv, NEW u \in User, NEW s \in Slot, NEW step, NEW copy, Holds(u, s, step, copy),
         UNCHANGED <<history, destroyed, clobbered>>,
         ~clobbered[u] /\ ~act[u][s].stale => destroyed[u] \cap Ids(copy) = {}
  PROVE  GoneInv'
<1>1. Others(u, s) /\ act'[u][s].copy = copy /\ act'[u][s].stale = act[u][s].stale
  BY HoldsFields DEF Alike
<1> QED
  BY <1>1, GoneElsewhere DEF Hands

LEMMA GoneEnds ==
  ASSUME TypeInv, GoneInv, NEW u \in User, NEW s \in Slot, act' = [act EXCEPT ![u][s] = Idle],
         UNCHANGED <<history, destroyed, clobbered>>
  PROVE  GoneInv'
<1>1. Others(u, s) /\ act'[u][s].step = "none"
  BY EndFields, IdleFields
<1> QED
  BY <1>1, GoneKept

LEMMA GoneSaved ==
  ASSUME Inv, PlaceInv, GoneInv, NEW u \in User, NEW s \in Slot, Save(u, s)
  PROVE  GoneInv'
<1>0. TypeInv
  BY DEF Inv
<1>1. /\ act[u][s].step = "save" /\ act'[u][s] = Idle
      /\ history'[u] = act[u][s].copy
      /\ \A v \in User \ {u} :
           history'[v] = history[v] /\ destroyed'[v] = destroyed[v] /\ clobbered'[v] = clobbered[v]
      /\ \A v \in User \ {u}, r \in Slot : act'[v][r] = act[v][r]
  BY <1>0, SaveFields
<1>2. clobbered'[u] = (clobbered[u] \/ act[u][s].stale)
  BY <1>0, SaveFields
<1>3. destroyed'[u] = destroyed[u] \cup IF act[u][s].op = "open" THEN {act[u][s].what.id} ELSE {}
  BY <1>0, SaveFields
<1>4. \A r \in Slot \ {s} :
        act'[u][r].step = act[u][r].step /\ act'[u][r].stale = (act[u][r].stale \/ Holding(u, r))
  BY <1>0, SaveFields
<1>5. ASSUME ~clobbered'[u] PROVE destroyed'[u] \cap Ids(history'[u]) = {}
  <2>1. ~clobbered[u] /\ Hands(act[u][s])
    BY <1>1, <1>2, <1>5 DEF Hands
  <2>2. destroyed[u] \cap Ids(act[u][s].copy) = {}
    BY <2>1 DEF GoneInv
  <2>3. act[u][s].op = "open" => act[u][s].what.id \notin Ids(act[u][s].copy)
    BY <1>1 DEF PlaceInv, Fitting
  <2> QED
    BY <1>1, <1>3, <2>2, <2>3
<1>6. ASSUME NEW r \in Slot PROVE ~Hands(act'[u][r])
  <2>1. CASE r = s
    BY <1>1, <2>1, IdleFields DEF Hands
  <2>2. CASE r # s
    BY <1>4, <2>2 DEF Hands, Holding
  <2> QED
    BY <2>1, <2>2
<1>7. ASSUME NEW v \in User, v # u, ~clobbered'[v], NEW r \in Slot
      PROVE  /\ destroyed'[v] \cap Ids(history'[v]) = {}
             /\ Hands(act'[v][r]) => destroyed'[v] \cap Ids(act'[v][r].copy) = {}
  BY <1>1, <1>7 DEF GoneInv
<1>8. \A v \in User : ~clobbered'[v] => destroyed'[v] \cap Ids(history'[v]) = {}
  BY <1>1, <1>5 DEF GoneInv
<1>9. \A v \in User, r \in Slot :
        ~clobbered'[v] /\ Hands(act'[v][r]) => destroyed'[v] \cap Ids(act'[v][r].copy) = {}
  BY <1>6, <1>7
<1> QED
  BY <1>8, <1>9 DEF GoneInv, Hands, Ids

LEMMA GoneGoesOn ==
  ASSUME Inv, RoleInv, PlaceInv, GoneInv, NEW u \in User, NEW s \in Slot, GoesOn(u, s)
  PROVE  GoneInv'
<1>0. TypeInv /\ TypeOK /\ SpotInv /\ Fitting(u, s)
  BY DEF Inv, TypeInv, PlaceInv
<1>h. ~clobbered[u] => destroyed[u] \cap Ids(history[u]) = {}
  BY DEF GoneInv
<1>c. ~clobbered[u] /\ Hands(act[u][s]) => destroyed[u] \cap Ids(act[u][s].copy) = {}
  BY DEF GoneInv
<1>1. CASE Posted(u, s)
  <2>1. Others(u, s) /\ act'[u][s].step \in {"load", "set"}
    BY <1>0, <1>1, PostedFields
  <2>2. UNCHANGED <<history, destroyed, clobbered>>
    BY <1>1 DEF Posted, disk
  <2> QED
    BY <2>1, <2>2, GoneKept
<1>2. CASE TimerSet(u, s)
  BY <1>0, <1>2, GoneEnds DEF TimerSet, past
<1>3. CASE Appended(u, s)
  <2>1. PICK m : m = act[u][s].what.id
    OBVIOUS
  <2>2. PICK copy : copy = [history[u] EXCEPT ![m] = Sent(u, m)] /\ Holds(u, s, "save", copy)
    BY <1>3, <2>1 DEF Appended
  <2>3. act[u][s].op = "send" /\ m \in Id
    BY <1>0, <1>3, <2>1 DEF Appended, TypeInv, ActOK, Text
  <2>4. Ids(copy) = Ids(history[u]) \cup {m}
    <3>1. Sent(u, m) \in ChatMessage /\ history[u] \in Copy
      BY <1>0, <2>3, SentType, ActType
    <3> QED
      BY <2>2, <2>3, <3>1, PutType
  <2>5. message[m].by = u
    BY <1>0, <2>1, <2>3 DEF Fitting, Sends
  <2>6. m \notin destroyed[u]
    BY <1>0, <2>5 DEF SpotInv
  <2>7. UNCHANGED <<history, destroyed, clobbered>>
    BY <1>3 DEF Appended, disk, past
  <2>8. ~clobbered[u] => destroyed[u] \cap Ids(copy) = {}
    BY <1>h, <2>4, <2>6
  <2> QED
    BY <1>0, <2>2, <2>7, <2>8, GoneHolds
<1>4. CASE Opened(u, s)
  <2>1. UNCHANGED <<history, destroyed, clobbered>>
    BY <1>4 DEF Opened, disk, past
  <2>2. PICK m : m = act[u][s].what.id
    OBVIOUS
  <2>3. PICK copy : copy = [history[u] EXCEPT ![m] = Absent]
    OBVIOUS
  <2>4. act' = [act EXCEPT ![u][s] = Idle] \/ Holds(u, s, "save", copy)
    BY <1>4, <2>2, <2>3 DEF Opened, Return
  <2>5. m \in Id
    BY <1>0, <1>4, <2>2 DEF Opened, TypeInv, ActOK, Opening
  <2>6. Ids(copy) \subseteq Ids(history[u])
    BY <1>0, <2>3, <2>5, DropType, ActType
  <2>7. ~clobbered[u] => destroyed[u] \cap Ids(copy) = {}
    BY <1>h, <2>6
  <2> QED
    BY <1>0, <2>1, <2>4, <2>7, GoneHolds, GoneEnds
<1>5. CASE Save(u, s)
  BY <1>5, GoneSaved
<1>6. CASE Fetch(u, s)
  <2>1. Others(u, s) /\ act'[u][s].step = "load"
    BY <1>0, <1>6, FetchFields
  <2>2. UNCHANGED <<history, destroyed, clobbered>>
    BY <1>6 DEF Fetch, disk, past
  <2> QED
    BY <2>1, <2>2, GoneKept
<1>7. CASE PollLoaded(u, s)
  <2>1. Holds(u, s, "handle", history[u])
    BY <1>7 DEF PollLoaded
  <2>2. UNCHANGED <<history, destroyed, clobbered>>
    BY <1>7 DEF PollLoaded, disk, past
  <2> QED
    BY <1>0, <1>h, <2>1, <2>2, GoneHolds
<1>8. CASE Handle(u, s)
  <2>1. PICK e : e = Head(act[u][s].batch)
    OBVIOUS
  <2>2. /\ Others(u, s) /\ Alike(act'[u][s], act[u][s])
        /\ act[u][s].step = "handle" /\ act[u][s].batch # <<>>
        /\ e \in Envelope
        /\ Takes(u, act[u][s].copy, act'[u][s].copy, e)
    BY <1>0, <1>8, <2>1, HandleFields
  <2>3. Ids(act'[u][s].copy) \subseteq Ids(act[u][s].copy) \cup (IF e.type = "message" THEN {e.id} ELSE {})
    <3>1. act[u][s].copy \in Copy
      BY <1>0, ActivationType
    <3> QED
      BY <1>0, <2>2, <3>1, TakesAt
  <2>4. ASSUME e.type = "message", e.id \in destroyed[u] PROVE FALSE
    <3>1. act[u][s].batch \in Seq(Envelope)
      BY <1>0, ActivationType
    <3>2. e.id \in Marks(act[u][s].batch, "message")
      BY <2>1, <2>2, <2>4, <3>1, MarksTail
    <3>3. <<"batch", u, s>> \in Place /\ e.id \in In(<<"batch", u, s>>, "message")
      BY <2>2, <3>2, PlaceIs DEF In, Pending
    <3>4. e.id \in Known(u)
      BY <2>4, KnownHas
    <3>5. u = message[e.id].by
      BY <1>0, <3>3, <3>4 DEF SpotInv
    <3> QED
      BY <1>0, <2>4, <3>5 DEF SpotInv
  <2>5. Hands(act'[u][s]) => Hands(act[u][s])
    BY <2>2 DEF Hands, Alike
  <2>6. UNCHANGED <<history, destroyed, clobbered>>
    BY <1>8 DEF Handle, past
  <2>7. ~clobbered[u] /\ Hands(act'[u][s]) => destroyed[u] \cap Ids(act'[u][s].copy) = {}
    BY <1>c, <2>3, <2>4, <2>5
  <2> QED
    BY <2>2, <2>6, <2>7, GoneElsewhere
<1>9. CASE Receipt(u, s)
  <2>1. PICK m : m = Head(act[u][s].batch).id
    OBVIOUS
  <2>2. /\ Others(u, s) /\ Alike(act'[u][s], act[u][s]) /\ act[u][s].step \in {"delivered", "read"}
        /\ act'[u][s].copy = act[u][s].copy
    BY <1>0, <1>9, <2>1, ReceiptFields
  <2>3. UNCHANGED <<history, destroyed, clobbered>>
    BY <1>9 DEF Receipt, disk, past
  <2>4. Hands(act'[u][s]) => Hands(act[u][s])
    BY <2>2 DEF Hands, Alike
  <2> QED
    BY <1>c, <2>2, <2>3, <2>4, GoneElsewhere
<1>10. CASE Sweep(u, s)
  <2>1. UNCHANGED <<history, destroyed, clobbered>>
    BY <1>10 DEF Sweep, disk, past
  <2>2. PICK copy : copy = Alive(u, act[u][s].copy)
    OBVIOUS
  <2>3. act' = [act EXCEPT ![u][s] = Idle] \/ Holds(u, s, "save", copy)
    BY <1>10, <2>2 DEF Sweep, Return
  <2>4. Ids(copy) \subseteq Ids(act[u][s].copy) /\ act[u][s].step = "handle"
    BY <1>0, <1>10, <2>2, AliveIds, ActivationType DEF Sweep
  <2>5. ~clobbered[u] /\ ~act[u][s].stale => destroyed[u] \cap Ids(copy) = {}
    BY <1>c, <2>4 DEF Hands
  <2> QED
    BY <1>0, <2>1, <2>3, <2>5, GoneHolds, GoneEnds
<1> QED
  BY <1>1, <1>2, <1>3, <1>4, <1>5, <1>6, <1>7, <1>8, <1>9, <1>10 DEF GoesOn

LEMMA NextGone ==
  ASSUME Inv, RoleInv, PlaceInv, GoneInv, [Next]_vars
  PROVE  GoneInv'
<1>0. TypeInv
  BY DEF Inv
<1>1. ASSUME NEW u \in User, NEW s \in Slot, NEW op, NEW step \in {"post", "fetch"}, NEW what,
             Begin(u, s, op, step, what), UNCHANGED <<history, destroyed, clobbered>>
      PROVE  GoneInv'
  <2>1. Others(u, s) /\ act'[u][s].step = step
    BY <1>0, <1>1, BeginFields
  <2> QED
    BY <1>1, <2>1, GoneKept
<1>2. ASSUME NEW u \in User, NEW s \in Handler, Act(u, s) PROVE GoneInv'
  <2>1. UNCHANGED <<history, destroyed, clobbered>>
    BY <1>2 DEF Act, Send, OpenFile, SetTimer, disk
  <2>2. PICK op, what, step : step = "post" /\ Begin(u, s, op, step, what)
    BY <1>2 DEF Act, Send, OpenFile, SetTimer
  <2> QED
    BY <1>1, <2>1, <2>2, SlotSplit
<1>3. ASSUME NEW u \in User, NEW s \in Poller, Poll(u, s) PROVE GoneInv'
  <2>1. UNCHANGED <<history, destroyed, clobbered>>
    BY <1>3 DEF Poll, disk
  <2>2. PICK op, what, step : step = "fetch" /\ Begin(u, s, op, step, what)
    BY <1>3 DEF Poll
  <2> QED
    BY <1>1, <2>1, <2>2, SlotSplit
<1>4. ASSUME NEW u \in User, NEW s \in Slot, Fail(u, s) PROVE GoneInv'
  BY <1>0, <1>4, GoneEnds DEF Fail, disk
<1>5. ASSUME NEW u \in User, Expire(u) PROVE GoneInv'
  BY <1>5 DEF Expire, disk, GoneInv, Hands, Ids
<1>6. ASSUME NEW u \in User, Reopen(u) PROVE GoneInv'
  <2>1. \A s \in Slot : act'[u][s] = Idle
    BY <1>0, <1>6, ReopenFields
  <2>2. \A v \in User \ {u}, s \in Slot : act'[v][s] = act[v][s]
    BY <1>0, <1>6, ReopenFields
  <2>3. UNCHANGED <<history, destroyed, clobbered>>
    BY <1>6 DEF Reopen, disk
  <2>4. ~Hands(Idle)
    BY IdleFields DEF Hands
  <2>5. ASSUME NEW v \in User, NEW r \in Slot, Hands(act'[v][r])
        PROVE  Hands(act[v][r]) /\ act'[v][r] = act[v][r]
    BY <2>1, <2>2, <2>4, <2>5
  <2> QED
    BY <2>3, <2>5 DEF GoneInv, Ids, Hands
<1>7. CASE UNCHANGED vars
  BY <1>7 DEF vars, disk, past, GoneInv, Hands, Ids
<1> QED
  BY <1>2, <1>3, <1>4, <1>5, <1>6, <1>7, GoneGoesOn DEF Next

LEMMA InitGone == Init => GoneInv
<1> SUFFICES ASSUME Init PROVE GoneInv
  OBVIOUS
<1>1. \A u \in User : destroyed[u] = {}
  BY DEF Init
<1> QED
  BY <1>1 DEF GoneInv

-----------------------------------------------------------------------------
(* What was opened *)

PlacesInv == Inv /\ RoleInv /\ PlaceInv /\ GoneInv

LEMMA InitPlacesInv == Init => PlacesInv
  BY InitInv, InitRole, InitPlaces, InitGone DEF PlacesInv

LEMMA NextPlacesInv == PlacesInv /\ [Next]_vars => PlacesInv'
<1> SUFFICES ASSUME PlacesInv, [Next]_vars PROVE PlacesInv'
  OBVIOUS
<1>1. Inv' /\ RoleInv' /\ PlaceInv' /\ GoneInv'
  BY NextInv, NextRole, NextPlaces, NextGone DEF PlacesInv
<1> QED
  BY <1>1 DEF PlacesInv

(* A file that was deleted for having been opened is in no history that comes *)
(* after, unless an activation saved a history that it had loaded before      *)
(* another one saved: markFileOpened deletes for good, and no poll brings the *)
(* file back.                                                                 *)
THEOREM OpenedStaysGone == Spec => []OpenedOnce
<1>1. PlacesInv => OpenedOnce
  BY DEF PlacesInv, GoneInv, OpenedOnce
<1> QED
  BY <1>1, InitPlacesInv, NextPlacesInv, PTL DEF Spec

=============================================================================
