------------------------ MODULE HistoryReceiptsProofs -------------------------
(***************************************************************************)
(* Theorems about the receipts of History: that statuses only go forward,  *)
(* that what was sent arrives, and that what a sender sees as read was     *)
(* received.                                                               *)
(***************************************************************************)
EXTENDS HistoryProofs

-----------------------------------------------------------------------------
(* Receipts, and the statuses they make *)

StatusIn(c, st) == {m \in Id : c[m].status = st}
StatusBy(u, st) == StatusIn(history[u], st) \cup UNION {StatusIn(act[u][s].copy, st) : s \in Slot}
OnWay(type) == UNION {In(p, type) : p \in Place}
Reads == OnWay("read") \cup UNION {StatusBy(u, "read") : u \in User}
Begun(a) == IF a.step = "delivered" THEN {Head(a.batch).id} ELSE {}

(* Only texts are receipted, and only files are opened *)
FactInv ==
  /\ \A m \in OnWay("delivered") \cup OnWay("read") : ~File(m)
  /\ \A m \in OnWay("file-opened") : File(m)
  /\ \A u \in User : \A m \in StatusBy(u, "read") : message[m].by = u /\ ~File(m)
  /\ \A u \in User : \A m \in StatusBy(u, "opened") : File(m)

(* What was read is not received any more, and its receipts are in order *)
Ahead(x) ==
  Marks(queue[x], "delivered") \cup UNION {Marks(Pending(act[x][s]), "delivered") : s \in Slot}
OrderInv ==
  /\ \A m \in Reads : m \notin OnWay("message") /\ \A u \in User, s \in Slot : m \notin Begun(act[u][s])
  /\ \A x \in User : InOrder(queue[x])
  /\ \A x \in User, s \in Slot :
       /\ InOrder(Pending(act[x][s]))
       /\ Marks(Pending(act[x][s]), "read") \cap Marks(queue[x], "delivered") = {}
  /\ \A x \in User : ~overlapped[x] => StatusBy(x, "read") \cap Ahead(x) = {}

-----------------------------------------------------------------------------
LEMMA EmptyStatus == \A st \in {"read", "opened"} : StatusIn(Empty, st) = {}
<1>1. \A m \in Id : Empty[m].status = "none"
  BY DEF Empty, Absent
<1> QED
  BY <1>1 DEF StatusIn

LEMMA StatusKnown ==
  ASSUME TypeInv, NEW u \in User, NEW st \in {"read", "opened"}
  PROVE  StatusBy(u, st) \subseteq Known(u)
<1>1. ASSUME NEW c PROVE StatusIn(c, st) \subseteq Ids(c)
  <2>1. Absent.status = "none"
    BY DEF Absent
  <2> QED
    BY <2>1 DEF StatusIn, Ids
<1> QED
  BY <1>1, KnownHas DEF StatusBy

LEMMA StatusElsewhere ==
  ASSUME NEW u \in User, NEW s \in Slot, Elsewhere(u, s), NEW st,
         \A v \in User : StatusIn(history'[v], st) \subseteq StatusBy(v, st)
  PROVE  \A v \in User : StatusBy(v, st)' \subseteq
           StatusBy(v, st) \cup (IF v = u THEN StatusIn(act'[u][s].copy, st) ELSE {})
<1> SUFFICES ASSUME NEW v \in User, NEW m \in StatusBy(v, st)'
             PROVE  m \in StatusBy(v, st) \/ (v = u /\ m \in StatusIn(act'[u][s].copy, st))
  OBVIOUS
<1>1. StatusBy(v, st)' = StatusIn(history'[v], st)
                           \cup UNION {StatusIn(act'[v][r].copy, st) : r \in Slot}
  BY DEF StatusBy, StatusIn
<1>2. ASSUME NEW r \in Slot, <<v, r>> # <<u, s>>
      PROVE  StatusIn(act'[v][r].copy, st) = StatusIn(act[v][r].copy, st)
  BY <1>2 DEF Elsewhere, Looks
<1>3. ASSUME NEW r \in Slot, m \in StatusIn(act'[v][r].copy, st)
      PROVE  m \in StatusBy(v, st) \/ (v = u /\ m \in StatusIn(act'[u][s].copy, st))
  <2>1. CASE <<v, r>> = <<u, s>>
    BY <1>3, <2>1
  <2>2. CASE <<v, r>> # <<u, s>>
    BY <1>2, <1>3, <2>2 DEF StatusBy
  <2> QED
    BY <2>1, <2>2
<1> QED
  BY <1>1, <1>3

LEMMA ReadsSent ==
  ASSUME TypeInv, PlaceInv
  PROVE  /\ \A m \in Reads : Sent1(m)
         /\ \A type \in Types : \A m \in OnWay(type) : Sent1(m)
         /\ \A u \in User, st \in {"read", "opened"} : \A m \in StatusBy(u, st) : Sent1(m)
<1>1. \A type \in Types : \A m \in OnWay(type) : Sent1(m)
  BY DEF PlaceInv, SpotInv, OnWay
<1>2. \A u \in User, st \in {"read", "opened"} : \A m \in StatusBy(u, st) : Sent1(m)
  <2> SUFFICES ASSUME NEW u \in User, NEW st \in {"read", "opened"}, NEW m \in StatusBy(u, st)
               PROVE  Sent1(m)
    OBVIOUS
  <2>1. m \in Known(u)
    BY StatusKnown
  <2> QED
    BY <2>1 DEF PlaceInv, SpotInv
<1>3. \A m \in Reads : Sent1(m)
  BY <1>1, <1>2 DEF Reads, Types
<1> QED
  BY <1>1, <1>2, <1>3

LEMMA FactNext ==
  ASSUME TypeInv, PlaceInv, FactInv,
         \A m : Sent1(m) => message'[m] = message[m],
         \A type \in {"delivered", "read"} : \A m \in OnWay(type)' :
           m \in OnWay(type) \/ message'[m].kind = "text",
         \A m \in OnWay("file-opened")' : m \in OnWay("file-opened") \/ message'[m].kind # "text",
         \A u \in User : \A m \in StatusBy(u, "read")' :
           m \in StatusBy(u, "read") \/ (message'[m].by = u /\ message'[m].kind = "text"),
         \A u \in User : \A m \in StatusBy(u, "opened")' :
           m \in StatusBy(u, "opened") \/ message'[m].kind # "text"
  PROVE  FactInv'
<1>1. \A m \in OnWay("delivered") \cup OnWay("read") : message'[m].kind = "text"
  BY ReadsSent DEF FactInv, File, Types
<1>2. \A m \in OnWay("file-opened") : message'[m].kind # "text"
  BY ReadsSent DEF FactInv, File, Types
<1>3. \A u \in User : \A m \in StatusBy(u, "read") : message'[m].by = u /\ message'[m].kind = "text"
  BY ReadsSent DEF FactInv, File
<1>4. \A u \in User : \A m \in StatusBy(u, "opened") : message'[m].kind # "text"
  BY ReadsSent DEF FactInv, File
<1>5. /\ \A m \in OnWay("delivered")' \cup OnWay("read")' : message'[m].kind = "text"
      /\ \A m \in OnWay("file-opened")' : message'[m].kind # "text"
      /\ \A u \in User : \A m \in StatusBy(u, "read")' : message'[m].by = u /\ message'[m].kind = "text"
      /\ \A u \in User : \A m \in StatusBy(u, "opened")' : message'[m].kind # "text"
  BY <1>1, <1>2, <1>3, <1>4
<1> QED
  BY <1>5 DEF FactInv, File

(* What an activation has yet to handle stays or goes *)
Still(a, b) ==
  /\ \A type \in {"delivered", "read"} : Marks(Pending(a), type) \subseteq Marks(Pending(b), type)
  /\ InOrder(Pending(a))

LEMMA AheadElsewhere ==
  ASSUME NEW u \in User, NEW s \in Slot, Elsewhere(u, s),
         Marks(Pending(act'[u][s]), "delivered") \subseteq Marks(Pending(act[u][s]), "delivered"),
         NEW x \in User
  PROVE  Ahead(x)' \subseteq Marks(queue'[x], "delivered") \cup Ahead(x)
<1>1. Ahead(x)' = Marks(queue'[x], "delivered")
                    \cup UNION {Marks(Pending(act'[x][r]), "delivered") : r \in Slot}
  BY DEF Ahead
<1>2. ASSUME NEW r \in Slot
      PROVE  Marks(Pending(act'[x][r]), "delivered") \subseteq Marks(Pending(act[x][r]), "delivered")
  <2>1. CASE <<x, r>> = <<u, s>>
    BY <2>1
  <2>2. CASE <<x, r>> # <<u, s>>
    BY <2>2, LooksSame DEF Elsewhere
  <2> QED
    BY <2>1, <2>2
<1> QED
  BY <1>1, <1>2 DEF Ahead

LEMMA OrderStill ==
  ASSUME TypeInv, PlaceInv, OrderInv, NEW u \in User, NEW s \in Slot, Elsewhere(u, s),
         \A x \in User :
           InOrder(queue'[x]) /\ Marks(queue'[x], "delivered") \subseteq Marks(queue[x], "delivered"),
         Still(act'[u][s], act[u][s]), \A m \in Begun(act'[u][s]) : m \notin Reads,
         OnWay("read")' \subseteq OnWay("read"),
         \A m \in OnWay("message")' : m \in OnWay("message") \/ ~Sent1(m),
         \A v \in User : \A m \in StatusBy(v, "read")' :
           \/ m \in StatusBy(v, "read")
           \/ m \in OnWay("read") /\ (~overlapped'[v] => m \notin Ahead(v)'),
         \A v \in User : overlapped[v] => overlapped'[v]
  PROVE  OrderInv'
<1>1. Reads' \subseteq Reads
  BY DEF Reads
<1>2. ASSUME NEW m \in Reads' PROVE m \notin OnWay("message")'
  BY <1>1, ReadsSent DEF OrderInv
<1>3. ASSUME NEW m \in Reads', NEW v \in User, NEW r \in Slot PROVE m \notin Begun(act'[v][r])
  <2>1. CASE <<v, r>> = <<u, s>>
    BY <1>1, <2>1
  <2>2. CASE <<v, r>> # <<u, s>>
    <3>1. Begun(act'[v][r]) = Begun(act[v][r])
      BY <2>2 DEF Elsewhere, Looks, Begun
    <3> QED
      BY <1>1, <3>1 DEF OrderInv
  <2> QED
    BY <2>1, <2>2
<1>4. ASSUME NEW x \in User, NEW r \in Slot
      PROVE  /\ InOrder(Pending(act'[x][r]))
             /\ Marks(Pending(act'[x][r]), "read") \cap Marks(queue'[x], "delivered") = {}
  <2>1. CASE <<x, r>> = <<u, s>>
    <3>1. /\ InOrder(Pending(act'[u][s]))
          /\ Marks(Pending(act'[u][s]), "read") \subseteq Marks(Pending(act[u][s]), "read")
      BY DEF Still
    <3>2. Marks(Pending(act[u][s]), "read") \cap Marks(queue[u], "delivered") = {}
      BY DEF OrderInv
    <3> QED
      BY <2>1, <3>1, <3>2
  <2>2. CASE <<x, r>> # <<u, s>>
    <3>1. Pending(act'[x][r]) = Pending(act[x][r])
      BY <2>2, LooksSame DEF Elsewhere
    <3> QED
      BY <3>1 DEF OrderInv
  <2> QED
    BY <2>1, <2>2
<1>5. ASSUME NEW x \in User, ~overlapped'[x] PROVE StatusBy(x, "read")' \cap Ahead(x)' = {}
  <2>1. Ahead(x)' \subseteq Ahead(x)
    <3>1. Ahead(x)' \subseteq Marks(queue'[x], "delivered") \cup Ahead(x)
      BY AheadElsewhere DEF Still
    <3> QED
      BY <3>1 DEF Ahead
  <2>2. StatusBy(x, "read") \cap Ahead(x) = {}
    BY <1>5 DEF OrderInv
  <2>3. \A m \in StatusBy(x, "read")' : m \in StatusBy(x, "read") \/ m \notin Ahead(x)'
    BY <1>5
  <2> QED
    BY <2>1, <2>2, <2>3
<1> QED
  BY <1>2, <1>3, <1>4, <1>5 DEF OrderInv

FlowInv == FactInv /\ OrderInv

(* One activation changes and no queue does *)
LEMMA FlowNext ==
  ASSUME TypeInv, PlaceInv, FlowInv, NEW u \in User, NEW s \in Slot, Elsewhere(u, s), queue' = queue,
         \A m : Sent1(m) => message'[m] = message[m],
         Posts(act'[u][s], "read") = {}, Posts(act'[u][s], "delivered") = {},
         \A m \in Posts(act'[u][s], "message") : ~Sent1(m),
         \A m \in Posts(act'[u][s], "file-opened") : message'[m].kind # "text",
         \A type \in Types : Marks(Pending(act'[u][s]), type) \subseteq Marks(Pending(act[u][s]), type),
         InOrder(Pending(act'[u][s])), Begun(act'[u][s]) = {},
         \A st \in {"read", "opened"} : StatusIn(act'[u][s].copy, st) \subseteq StatusBy(u, st),
         \A st \in {"read", "opened"}, v \in User : StatusIn(history'[v], st) \subseteq StatusBy(v, st),
         \A v \in User : overlapped[v] => overlapped'[v]
  PROVE  FlowInv'
<1>1. ASSUME NEW type \in Types
      PROVE  OnWay(type)' \subseteq OnWay(type) \cup Posts(act'[u][s], type)
  <2>1. PICK X : X = Posts(act'[u][s], type)
    OBVIOUS
  <2>2. \A p \in Place : In(p, type)' \subseteq In(p, type) \cup X
    BY <2>1, InGrows
  <2>3. OnWay(type)' = UNION {In(p, type)' : p \in Place}
    BY DEF OnWay
  <2> QED
    BY <2>1, <2>2, <2>3 DEF OnWay
<1>2. /\ "message" \in Types /\ "read" \in Types /\ "delivered" \in Types /\ "file-opened" \in Types
  BY DEF Types
<1>3. /\ OnWay("read")' \subseteq OnWay("read") /\ OnWay("delivered")' \subseteq OnWay("delivered")
      /\ \A m \in OnWay("message")' : m \in OnWay("message") \/ ~Sent1(m)
      /\ \A m \in OnWay("file-opened")' : m \in OnWay("file-opened") \/ message'[m].kind # "text"
  BY <1>1, <1>2
<1>4. ASSUME NEW st \in {"read", "opened"}, NEW v \in User
      PROVE  StatusBy(v, st)' \subseteq StatusBy(v, st)
  BY StatusElsewhere
<1>5. \A v \in User : StatusBy(v, "read")' \subseteq StatusBy(v, "read")
                      /\ StatusBy(v, "opened")' \subseteq StatusBy(v, "opened")
  BY <1>4
<1>6. FactInv'
  BY <1>3, <1>5, FactNext DEF FlowInv
<1>7. Still(act'[u][s], act[u][s])
  BY <1>2 DEF Still
<1>8. OrderInv'
  <2>1. \A x \in User :
          InOrder(queue'[x]) /\ Marks(queue'[x], "delivered") \subseteq Marks(queue[x], "delivered")
    BY DEF FlowInv, OrderInv
  <2> QED
    BY <1>3, <1>5, <1>7, <2>1, OrderStill DEF FlowInv
<1> QED
  BY <1>6, <1>8 DEF FlowInv

LEMMA HistoryStatus ==
  ASSUME NEW u \in User
  PROVE  \A st : /\ StatusIn(history[u], st) \subseteq StatusBy(u, st)
                 /\ \A s \in Slot : StatusIn(act[u][s].copy, st) \subseteq StatusBy(u, st)
  BY DEF StatusBy

LEMMA FlowEnds ==
  ASSUME TypeInv, PlaceInv, FlowInv, NEW u \in User, NEW s \in Slot, Elsewhere(u, s),
         act'[u][s] = Idle, queue' = queue, message' = message,
         \A st \in {"read", "opened"}, v \in User : StatusIn(history'[v], st) \subseteq StatusBy(v, st),
         \A v \in User : overlapped[v] => overlapped'[v]
  PROVE  FlowInv'
<1>1. \A st \in {"read", "opened"} : StatusIn(act'[u][s].copy, st) \subseteq StatusBy(u, st)
  BY EmptyStatus, IdleFields
<1>2. Begun(act'[u][s]) = {}
  BY IdleFields DEF Begun
<1>3. /\ \A type : Posts(act'[u][s], type) = {} /\ Marks(Pending(act'[u][s]), type) = {}
      /\ InOrder(Pending(act'[u][s]))
  BY IdleLooks
<1> QED
  BY <1>1, <1>2, <1>3, FlowNext

LEMMA FlowHolds ==
  ASSUME TypeInv, PlaceInv, FlowInv, NEW u \in User, NEW s \in Slot,
         NEW step \in {"save", "handle"}, NEW copy,
         Holds(u, s, step, copy), act[u][s].step \in {"load", "handle"},
         UNCHANGED <<history, queue, message, overlapped>>,
         \A st \in {"read", "opened"} : StatusIn(copy, st) \subseteq StatusBy(u, st)
  PROVE  FlowInv'
<1>1. /\ Others(u, s) /\ act'[u][s].step = step
      /\ act'[u][s].copy = copy /\ act'[u][s].batch = act[u][s].batch
  BY HoldsFields
<1>2. Pending(act'[u][s]) = Pending(act[u][s]) /\ Begun(act'[u][s]) = {}
      /\ \A type : Posts(act'[u][s], type) = {}
  BY <1>1 DEF Pending, Begun, Posts
<1>3. InOrder(Pending(act'[u][s]))
  BY <1>2 DEF FlowInv, OrderInv
<1>4. \A st \in {"read", "opened"} : StatusIn(act'[u][s].copy, st) \subseteq StatusBy(u, st)
  BY <1>1
<1>5. \A st \in {"read", "opened"}, v \in User : StatusIn(history'[v], st) \subseteq StatusBy(v, st)
  BY HistoryStatus
<1>6. Elsewhere(u, s)
  BY <1>1, OthersElsewhere
<1> QED
  BY <1>2, <1>3, <1>4, <1>5, <1>6, FlowNext

LEMMA FlowBegins ==
  ASSUME TypeInv, PlaceInv, FlowInv, NEW u \in User, NEW s \in Slot, NEW op, NEW step, NEW what,
         Begin(u, s, op, step, what), step \in {"post", "fetch"},
         UNCHANGED <<history, queue>>,
         \A m : Sent1(m) => message'[m] = message[m],
         step = "post" =>
           \/ what.type = "message" /\ ~Sent1(what.id)
           \/ what.type = "file-opened" /\ message'[what.id].kind # "text"
           \/ what.type = "timer"
  PROVE  FlowInv'
<1>1. /\ Others(u, s) /\ act'[u][s].step = step /\ act'[u][s].what = what
      /\ act'[u][s].copy = Empty /\ act'[u][s].batch = <<>>
  <2>1. TypeInv /\ Begin(u, s, op, step, what)
    OBVIOUS
  <2> QED
    BY ONLY <2>1, BeginFields
<1>2. /\ Posts(act'[u][s], "read") = {} /\ Posts(act'[u][s], "delivered") = {}
      /\ \A m \in Posts(act'[u][s], "message") : ~Sent1(m)
      /\ \A m \in Posts(act'[u][s], "file-opened") : message'[m].kind # "text"
  <2>1. \A type \in Types : Posts(act'[u][s], type) =
          IF step = "post" /\ what.type = type THEN {what.id} ELSE {}
    BY <1>1 DEF Posts
  <2>2. CASE step # "post" \/ what.type = "timer"
    BY <2>1, <2>2 DEF Types
  <2>3. CASE what.type = "message" /\ ~Sent1(what.id)
    BY <2>1, <2>3 DEF Types
  <2>4. CASE what.type = "file-opened" /\ message'[what.id].kind # "text"
    BY <2>1, <2>4 DEF Types
  <2> QED
    BY <2>2, <2>3, <2>4
<1>3. Pending(act'[u][s]) = <<>> /\ Begun(act'[u][s]) = {}
  BY <1>1 DEF Pending, Begun
<1>4. /\ \A type : Marks(Pending(act'[u][s]), type) = {}
      /\ InOrder(Pending(act'[u][s]))
  BY <1>3, MarksEmpty
<1>5. \A st \in {"read", "opened"} : StatusIn(act'[u][s].copy, st) \subseteq StatusBy(u, st)
  BY <1>1, EmptyStatus
<1>6. \A st \in {"read", "opened"}, v \in User : StatusIn(history'[v], st) \subseteq StatusBy(v, st)
  BY HistoryStatus
<1>7. \A v \in User : overlapped[v] => overlapped'[v]
  BY BeginOverlaps
<1>8. Elsewhere(u, s)
  BY <1>1, OthersElsewhere
<1> QED
  BY <1>2, <1>3, <1>4, <1>5, <1>6, <1>7, <1>8, FlowNext

LEMMA ActFlow ==
  ASSUME Inv, PlaceInv, FlowInv, NEW u \in User, NEW s \in Slot, Act(u, s)
  PROVE  FlowInv'
<1>0. TypeInv
  BY DEF Inv
<1>1. CASE Send(u, s)
  <2>a. PICK m \in Id, kind \in Kinds :
          /\ message[m] = None
          /\ message' = [message EXCEPT ![m] = [by |-> u, kind |-> kind]]
          /\ Begin(u, s, "send", "post", [type |-> "message", id |-> m])
    BY <1>1 DEF Send
  <2>1. PICK what, op, step :
          /\ message[m] = None
          /\ message' = [message EXCEPT ![m] = [by |-> u, kind |-> kind]]
          /\ what.type = "message" /\ what.id = m /\ step = "post"
          /\ Begin(u, s, op, step, what)
    BY <2>a
  <2>2. ~Sent1(m) /\ \A x : Sent1(x) => message'[x] = message[x]
    <3>1. message \in [Id -> [by : User, kind : Kinds] \cup {None}]
      BY <1>0, ActType
    <3> QED
      BY <2>1, <3>1 DEF Sent1
  <2>3. UNCHANGED <<history, queue>>
    BY <1>1 DEF Send, disk
  <2> QED
    BY <1>0, <2>1, <2>2, <2>3, FlowBegins
<1>2. CASE OpenFile(u, s)
  <2>1. PICK m, what, op, step :
          /\ File(m) /\ what.type = "file-opened" /\ what.id = m /\ step = "post"
          /\ Begin(u, s, op, step, what)
    BY <1>2 DEF OpenFile
  <2>2. UNCHANGED <<history, queue, message>>
    BY <1>2 DEF OpenFile, disk
  <2>3. message'[what.id].kind # "text"
    BY <2>1, <2>2 DEF File
  <2> QED
    BY <1>0, <2>1, <2>2, <2>3, FlowBegins
<1>3. CASE SetTimer(u, s)
  <2>1. PICK what, op, step :
          what.type = "timer" /\ step = "post" /\ Begin(u, s, op, step, what)
    BY <1>3 DEF SetTimer
  <2>2. UNCHANGED <<history, queue, message>>
    BY <1>3 DEF SetTimer, disk
  <2> QED
    BY <1>0, <2>1, <2>2, FlowBegins
<1> QED
  BY <1>1, <1>2, <1>3 DEF Act

LEMMA PollFlow ==
  ASSUME Inv, PlaceInv, FlowInv, NEW u \in User, NEW s \in Slot, Poll(u, s)
  PROVE  FlowInv'
<1>1. PICK what, op, step : step = "fetch" /\ Begin(u, s, op, step, what)
  BY DEF Poll
<1>2. UNCHANGED <<history, queue, message>> /\ TypeInv
  BY DEF Poll, disk, Inv
<1> QED
  BY <1>1, <1>2, FlowBegins

LEMMA EndFlow ==
  ASSUME Inv, PlaceInv, FlowInv, NEW u \in User, NEW s \in Slot, act' = [act EXCEPT ![u][s] = Idle],
         UNCHANGED <<history, queue, message, overlapped>>
  PROVE  FlowInv'
<1>0. TypeInv
  BY DEF Inv
<1>1. Elsewhere(u, s) /\ act'[u][s] = Idle
  BY <1>0, EndFields, OthersElsewhere
<1>2. \A st \in {"read", "opened"}, v \in User : StatusIn(history'[v], st) \subseteq StatusBy(v, st)
  BY HistoryStatus
<1> QED
  BY <1>0, <1>1, <1>2, FlowEnds

LEMMA SaveFlow ==
  ASSUME Inv, PlaceInv, FlowInv, NEW u \in User, NEW s \in Slot, Save(u, s)
  PROVE  FlowInv'
<1>0. TypeInv
  BY DEF Inv
<1>1. Elsewhere(u, s) /\ act'[u][s] = Idle
  BY <1>0, SaveElsewhere, SaveFields
<1>2. history'[u] = act[u][s].copy /\ \A v \in User \ {u} : history'[v] = history[v]
  BY <1>0, SaveFields
<1>3. \A st \in {"read", "opened"}, v \in User : StatusIn(history'[v], st) \subseteq StatusBy(v, st)
  BY <1>2, HistoryStatus
<1>4. UNCHANGED <<queue, message, overlapped>>
  BY DEF Save
<1> QED
  BY <1>0, <1>1, <1>3, <1>4, FlowEnds

LEMMA LoadedFlow ==
  ASSUME Inv, PlaceInv, FlowInv, NEW u \in User, NEW s \in Slot,
         Appended(u, s) \/ Opened(u, s) \/ PollLoaded(u, s) \/ Sweep(u, s)
  PROVE  FlowInv'
<1>0. TypeInv
  BY DEF Inv
<1>h. UNCHANGED <<history, queue, message, overlapped>>
  BY DEF Appended, Opened, PollLoaded, Sweep, disk, past
<1>a. \A r : \A c \in Copy, m \in Id, st \in {"read", "opened"} :
        r.status # st => StatusIn([c EXCEPT ![m] = r], st) \subseteq StatusIn(c, st)
  BY DEF StatusIn, Copy
<1>b. history[u] \in Copy
  BY <1>0, ActType
<1>1. CASE Appended(u, s)
  <2>1. PICK m : m = act[u][s].what.id
    OBVIOUS
  <2>2. PICK copy, step :
          copy = [history[u] EXCEPT ![m] = Sent(u, m)] /\ step = "save" /\ Holds(u, s, step, copy)
    BY <1>1, <2>1 DEF Appended
  <2>3. m \in Id /\ act[u][s].step = "load"
    BY <1>0, <1>1, <2>1 DEF Appended, TypeInv, ActOK, Text
  <2>4. Sent(u, m).status = "sent"
    BY DEF Sent
  <2>5. \A st \in {"read", "opened"} : StatusIn(copy, st) \subseteq StatusBy(u, st)
    BY <1>a, <1>b, <2>2, <2>3, <2>4, HistoryStatus
  <2> QED
    BY <1>0, <1>h, <2>2, <2>3, <2>5, FlowHolds
<1>2. CASE Opened(u, s)
  <2>1. PICK m : m = act[u][s].what.id
    OBVIOUS
  <2>2. PICK copy, step : copy = [history[u] EXCEPT ![m] = Absent] /\ step = "save"
    OBVIOUS
  <2>3. act' = [act EXCEPT ![u][s] = Idle] \/ Holds(u, s, step, copy)
    BY <1>2, <2>1, <2>2 DEF Opened, Return
  <2>4. m \in Id /\ act[u][s].step = "load"
    BY <1>0, <1>2, <2>1 DEF Opened, TypeInv, ActOK, Opening
  <2>5. Absent.status = "none"
    BY DEF Absent
  <2>6. \A st \in {"read", "opened"} : StatusIn(copy, st) \subseteq StatusBy(u, st)
    BY <1>a, <1>b, <2>2, <2>4, <2>5, HistoryStatus
  <2> QED
    BY <1>0, <1>h, <2>2, <2>3, <2>4, <2>6, FlowHolds, EndFlow
<1>3. CASE PollLoaded(u, s)
  <2>1. PICK step, copy : step = "handle" /\ copy = history[u] /\ Holds(u, s, step, copy)
    BY <1>3 DEF PollLoaded
  <2>2. act[u][s].step = "load"
    BY <1>3 DEF PollLoaded
  <2> QED
    BY <1>0, <1>h, <2>1, <2>2, FlowHolds, HistoryStatus
<1>4. CASE Sweep(u, s)
  <2>1. PICK step, copy : step = "save" /\ copy = Alive(u, act[u][s].copy)
    OBVIOUS
  <2>2. act' = [act EXCEPT ![u][s] = Idle] \/ Holds(u, s, step, copy)
    BY <1>4, <2>1 DEF Sweep, Return
  <2>3. act[u][s].step = "handle"
    BY <1>4 DEF Sweep
  <2>4. Absent.status = "none"
    BY DEF Absent
  <2>5. \A st \in {"read", "opened"} : StatusIn(copy, st) \subseteq StatusIn(act[u][s].copy, st)
    BY <2>1, <2>4 DEF Alive, StatusIn
  <2> QED
    BY <1>0, <1>h, <2>1, <2>2, <2>3, <2>5, FlowHolds, EndFlow, HistoryStatus
<1> QED
  BY <1>1, <1>2, <1>3, <1>4

LEMMA FlowSame ==
  ASSUME FlowInv, UNCHANGED <<history, act, queue, message, overlapped>>
  PROVE  FlowInv'
<1>1. \A p \in Place : \A type : In(p, type)' = In(p, type)
  BY DEF In
<1>2. \A type : OnWay(type)' = OnWay(type)
  BY <1>1 DEF OnWay
<1>3. \A u \in User : \A st : StatusBy(u, st)' = StatusBy(u, st)
  BY DEF StatusBy, StatusIn
<1>4. Reads' = Reads
  BY <1>2, <1>3 DEF Reads
<1>5. \A x \in User : Ahead(x)' = Ahead(x)
  BY DEF Ahead
<1> QED
  BY <1>2, <1>3, <1>4, <1>5 DEF FlowInv, FactInv, OrderInv, File

-----------------------------------------------------------------------------
(* Until activations of a page overlap there is one *)

AloneInv ==
  \A u \in User : ~overlapped[u] =>
    \A s, r \in Slot : act[u][s] # Idle /\ act[u][r] # Idle => s = r

LEMMA AloneKept ==
  ASSUME AloneInv, \A v \in User : overlapped[v] => overlapped'[v],
         \A v \in User, r \in Slot : act[v][r] = Idle => act'[v][r] = Idle
  PROVE  AloneInv'
<1>1. Idle' = Idle
  BY DEF Idle, Empty, Absent
<1> QED
  BY <1>1 DEF AloneInv

LEMMA GoesOnFields ==
  ASSUME TypeInv, NEW u \in User, NEW s \in Slot, GoesOn(u, s)
  PROVE  /\ act[u][s] # Idle /\ overlapped' = overlapped
         /\ \A v \in User, r \in Slot : <<v, r>> # <<u, s>> /\ act[v][r] = Idle => act'[v][r] = Idle
<1>1. act[u][s].step # "none"
  BY DEF GoesOn, Posted, TimerSet, Appended, Opened, Save, Fetch, PollLoaded, Handle, Receipt, Sweep
<1>2. overlapped' = overlapped
  BY DEF GoesOn, Posted, TimerSet, Appended, Opened, Save, Fetch, PollLoaded, Handle, Receipt, Sweep, past
<1>3. CASE Save(u, s)
  <2> SUFFICES ASSUME NEW v \in User, NEW r \in Slot, <<v, r>> # <<u, s>>, act[v][r] = Idle
               PROVE  act'[v][r] = Idle
    BY <1>1, <1>2, IdleFields
  <2>1. CASE v = u
    BY <1>3, <2>1, SaveFields
  <2>2. CASE v # u
    BY <1>3, <2>2, SaveFields
  <2> QED
    BY <2>1, <2>2
<1>4. ASSUME Others(u, s)
      PROVE  \A v \in User, r \in Slot : <<v, r>> # <<u, s>> /\ act[v][r] = Idle => act'[v][r] = Idle
  BY <1>4 DEF Others
<1>5. ASSUME ~Save(u, s) PROVE Others(u, s)
  <2>1. ASSUME NEW step, NEW copy, Holds(u, s, step, copy) PROVE Others(u, s)
    BY <2>1, HoldsFields
  <2>2. CASE Posted(u, s)
    BY <2>2, PostedFields
  <2>3. CASE TimerSet(u, s)
    BY <2>3, EndFields DEF TimerSet
  <2>4. CASE Appended(u, s)
    BY <2>1, <2>4 DEF Appended
  <2>5. CASE Opened(u, s)
    <3>1. act' = [act EXCEPT ![u][s] = Idle] \/ \E step, copy : Holds(u, s, step, copy)
      BY <2>5 DEF Opened, Return
    <3> QED
      BY <2>1, <3>1, EndFields
  <2>6. CASE Fetch(u, s)
    BY <2>6, FetchFields
  <2>7. CASE PollLoaded(u, s)
    BY <2>1, <2>7 DEF PollLoaded
  <2>8. CASE Handle(u, s)
    BY <2>8, HandleFields
  <2>9. CASE Receipt(u, s)
    BY <2>9, ReceiptFields
  <2>10. CASE Sweep(u, s)
    <3>1. act' = [act EXCEPT ![u][s] = Idle] \/ \E step, copy : Holds(u, s, step, copy)
      BY <2>10 DEF Sweep, Return
    <3> QED
      BY <2>1, <3>1, EndFields
  <2> QED
    BY <1>5, <2>2, <2>3, <2>4, <2>5, <2>6, <2>7, <2>8, <2>9, <2>10 DEF GoesOn
<1> QED
  BY <1>1, <1>2, <1>3, <1>4, <1>5, IdleFields

LEMMA BeginAlone ==
  ASSUME TypeInv, AloneInv, NEW u \in User, NEW s \in Slot, NEW op, NEW step, NEW what,
         Begin(u, s, op, step, what)
  PROVE  AloneInv'
<1>1. Others(u, s) /\ act[u][s] = Idle
  BY BeginFields
<1>2. /\ overlapped[u] \/ Busy(u) => overlapped'[u]
      /\ \A v \in User \ {u} : overlapped'[v] = overlapped[v]
  BY BeginOverlaps
<1>3. ASSUME NEW v \in User, ~overlapped'[v], NEW r \in Slot, NEW q \in Slot,
             act'[v][r] # Idle, act'[v][q] # Idle
      PROVE  r = q
  <2>1. CASE v = u
    <3>1. \A t \in Slot : act[u][t] = Idle
      BY <1>2, <1>3, <2>1 DEF Busy
    <3>2. \A t \in Slot : t # s => act'[u][t] = Idle
      BY <1>1, <3>1 DEF Others
    <3> QED
      BY <1>3, <2>1, <3>2
  <2>2. CASE v # u
    <3>1. act'[v][r] = act[v][r] /\ act'[v][q] = act[v][q] /\ ~overlapped[v]
      BY <1>1, <1>2, <1>3, <2>2 DEF Others
    <3> QED
      BY <1>3, <3>1 DEF AloneInv
  <2> QED
    BY <2>1, <2>2
<1>4. Idle' = Idle
  BY DEF Idle, Empty, Absent
<1> QED
  BY <1>3, <1>4 DEF AloneInv

LEMMA NextAlone ==
  ASSUME TypeInv, AloneInv, [Next]_vars
  PROVE  AloneInv'
<1>1. ASSUME NEW u \in User, NEW s \in Slot, Act(u, s) \/ Poll(u, s) PROVE AloneInv'
  <2>1. PICK op, step, what : Begin(u, s, op, step, what)
    BY <1>1 DEF Act, Send, OpenFile, SetTimer, Poll
  <2> QED
    BY <2>1, BeginAlone
<1>2. ASSUME NEW u \in User, NEW s \in Slot, GoesOn(u, s) PROVE AloneInv'
  <2>1. \A v \in User, r \in Slot : act[v][r] = Idle => act'[v][r] = Idle
    BY <1>2, GoesOnFields
  <2> QED
    BY <1>2, <2>1, GoesOnFields, AloneKept
<1>3. ASSUME NEW u \in User, NEW s \in Slot, Fail(u, s) PROVE AloneInv'
  <2>1. Others(u, s) /\ act'[u][s] = Idle
    BY <1>3, EndFields DEF Fail
  <2>2. \A v \in User, r \in Slot : act[v][r] = Idle => act'[v][r] = Idle
    BY <2>1 DEF Others
  <2>3. overlapped' = overlapped
    BY <1>3 DEF Fail
  <2> QED
    BY <2>2, <2>3, AloneKept
<1>4. ASSUME NEW u \in User, Expire(u) PROVE AloneInv'
  BY <1>4, AloneKept DEF Expire
<1>5. ASSUME NEW u \in User, Reopen(u) PROVE AloneInv'
  <2>1. \A s \in Slot : act'[u][s] = Idle
    BY <1>5, ReopenFields
  <2>2. \A v \in User \ {u}, s \in Slot : act'[v][s] = act[v][s]
    BY <1>5, ReopenFields
  <2>3. \A v \in User, r \in Slot : act[v][r] = Idle => act'[v][r] = Idle
    BY <2>1, <2>2
  <2>4. overlapped' = overlapped
    BY <1>5 DEF Reopen
  <2> QED
    BY <2>3, <2>4, AloneKept
<1>6. CASE UNCHANGED vars
  BY <1>6, AloneKept DEF vars, past
<1> QED
  BY <1>1, <1>2, <1>3, <1>4, <1>5, <1>6, SlotSplit DEF Next

LEMMA InitAlone == Init => AloneInv
  BY DEF Init, AloneInv

LEMMA OnWayKept ==
  ASSUME NEW type \in Types, \A p \in Place : In(p, type)' \subseteq OnWay(type)
  PROVE  OnWay(type)' \subseteq OnWay(type)
<1>1. OnWay(type)' = UNION {In(p, type)' : p \in Place}
  BY DEF OnWay
<1> QED
  BY <1>1

LEMMA InOnWay == \A type : \A p \in Place : In(p, type) \subseteq OnWay(type)
  BY DEF OnWay

LEMMA SameStatus ==
  ASSUME NEW u \in User, NEW s \in Slot, Elsewhere(u, s), history' = history,
         act'[u][s].copy = act[u][s].copy
  PROVE  \A st : \A v \in User : StatusBy(v, st)' \subseteq StatusBy(v, st)
<1> SUFFICES ASSUME NEW st, NEW v \in User PROVE StatusBy(v, st)' \subseteq StatusBy(v, st)
  OBVIOUS
<1>1. \A w \in User : StatusIn(history'[w], st) \subseteq StatusBy(w, st)
  BY HistoryStatus
<1>2. StatusIn(act'[u][s].copy, st) \subseteq StatusBy(u, st)
  BY HistoryStatus
<1> QED
  BY <1>1, <1>2, StatusElsewhere

LEMMA MarkedStatus ==
  ASSUME NEW old \in ChatMessage, NEW type \in {"delivered", "read", "file-opened"}
  PROVE  /\ Marked(old, type).status = IF type = "file-opened" THEN "opened" ELSE type
         /\ old.expires => Marked(old, type).expires
<1> DEFINE date == old.expires \/ (type = "read" /\ old.timed)
<1>1. old = [status |-> old.status, timed |-> old.timed, expires |-> old.expires]
  BY DEF ChatMessage
<1>2. old.expires => date
  OBVIOUS
<1>3. Marked(old, type) =
        IF type = "file-opened" THEN [old EXCEPT !.status = "opened"]
        ELSE [old EXCEPT !.status = type, !.expires = date]
  BY DEF Marked
<1> HIDE DEF date
<1> QED
  BY <1>1, <1>2, <1>3 DEF ChatMessage

LEMMA PostedFlow ==
  ASSUME Inv, PlaceInv, FlowInv, NEW u \in User, NEW s \in Slot, Posted(u, s)
  PROVE  FlowInv'
<1>0. TypeInv
  BY DEF Inv
<1>1. PICK e, v : e = act[u][s].what /\ v = Peer(u)
  OBVIOUS
<1>2. /\ Others(u, s) /\ Alike(act'[u][s], act[u][s])
      /\ act[u][s].step = "post" /\ act'[u][s].step \in {"load", "set"}
      /\ act'[u][s].copy = act[u][s].copy /\ act'[u][s].batch = act[u][s].batch
      /\ e \in Envelope
      /\ queue'[v] = Append(queue[v], e)
      /\ \A w \in User \ {v} : queue'[w] = queue[w]
      /\ v \in User
  BY <1>0, <1>1, PostedFields
<1>3. e.type \in {"message", "file-opened", "timer"}
  <2>1. act[u][s].op \in {"send", "open", "timer"}
    BY <1>0, <1>2 DEF TypeInv, ActOK
  <2> QED
    BY <1>0, <1>1, <2>1 DEF TypeInv, ActOK, Text, Opening, TimerChange
<1>4. UNCHANGED <<history, message, overlapped>>
  BY DEF Posted, disk
<1>5. ASSUME NEW type \in Types PROVE OnWay(type)' \subseteq OnWay(type)
  <2>1. PICK from, to : from = <<"post", u, s>> /\ to = <<"queue", Peer(u), None>>
    OBVIOUS
  <2>2. /\ \A t : In(from, t)' = {} /\ In(to, t)' \subseteq In(to, t) \cup In(from, t)
        /\ \A p \in Place, t \in Types : p # to => In(p, t)' \subseteq In(p, t)
        /\ from \in Place /\ to \in Place
    BY <1>0, <2>1, PostedIn
  <2>3. \A p \in Place : In(p, type)' \subseteq OnWay(type)
    BY <2>2, InOnWay
  <2> QED
    BY <2>3, OnWayKept
<1>6. /\ OnWay("read")' \subseteq OnWay("read") /\ OnWay("delivered")' \subseteq OnWay("delivered")
      /\ OnWay("message")' \subseteq OnWay("message")
      /\ OnWay("file-opened")' \subseteq OnWay("file-opened")
  BY <1>5 DEF Types
<1>7. Elsewhere(u, s)
  BY <1>2, OthersElsewhere
<1>8. /\ \A w \in User : StatusBy(w, "read")' \subseteq StatusBy(w, "read")
      /\ \A w \in User : StatusBy(w, "opened")' \subseteq StatusBy(w, "opened")
  BY <1>2, <1>4, <1>7, SameStatus
<1>9. FactInv'
  BY <1>0, <1>4, <1>6, <1>8, FactNext DEF FlowInv
<1>10. Pending(act'[u][s]) = Pending(act[u][s]) /\ Begun(act'[u][s]) = {}
  BY <1>2 DEF Pending, Begun
<1>11. Still(act'[u][s], act[u][s])
  BY <1>10 DEF Still, FlowInv, OrderInv
<1>12. \A x \in User :
         InOrder(queue'[x]) /\ Marks(queue'[x], "delivered") \subseteq Marks(queue[x], "delivered")
  <2>1. \A x \in User : InOrder(queue[x]) /\ queue[x] \in Seq(Envelope)
    BY <1>0, ActType DEF FlowInv, OrderInv
  <2>2. InOrder(queue'[v])
    BY <1>2, <1>3, <2>1, InOrderAppend
  <2>3. Marks(queue'[v], "delivered") = Marks(queue[v], "delivered")
    BY <1>2, <1>3, <2>1, MarksAppend
  <2> QED
    BY <1>2, <2>1, <2>2, <2>3
<1>13. OrderInv'
  BY <1>0, <1>4, <1>6, <1>7, <1>8, <1>10, <1>11, <1>12, OrderStill DEF FlowInv
<1> QED
  BY <1>9, <1>13 DEF FlowInv

LEMMA HandleFlow ==
  ASSUME Inv, RoleInv, PlaceInv, FlowInv, AloneInv, NEW u \in User, NEW s \in Slot, Handle(u, s)
  PROVE  FlowInv'
<1>0. TypeInv /\ TypeOK
  BY DEF Inv, TypeInv
<1> PICK e : e = Head(act[u][s].batch)
  OBVIOUS
<1>1. /\ Others(u, s)
      /\ act[u][s].step = "handle" /\ act[u][s].batch # <<>>
      /\ e \in Envelope
      /\ Takes(u, act[u][s].copy, act'[u][s].copy, e)
      /\ \/ act'[u][s].step = "handle" /\ act'[u][s].batch = Tail(act[u][s].batch)
         \/ /\ act'[u][s].step = "delivered" /\ act'[u][s].batch = act[u][s].batch
            /\ e.type = "message"
  BY <1>0, HandleFields
<1>2. Pending(act[u][s]) = act[u][s].batch /\ Pending(act'[u][s]) = Tail(act[u][s].batch)
      /\ \A type : Posts(act'[u][s], type) = {}
  BY <1>1 DEF Pending, Posts
<1>3. act[u][s].batch \in Seq(Envelope) /\ act[u][s].copy \in Copy
  BY <1>0, ActivationType
<1>4. /\ \A type : Marks(Pending(act'[u][s]), type) \subseteq Marks(Pending(act[u][s]), type)
      /\ e.id \in Marks(Pending(act[u][s]), e.type)
      /\ InOrder(Pending(act'[u][s]))
      /\ e.type = "read" => e.id \notin Marks(Pending(act'[u][s]), "delivered")
  <2>1. InOrder(Pending(act[u][s]))
    BY DEF FlowInv, OrderInv
  <2> QED
    BY <1>1, <1>2, <1>3, <2>1, MarksTail
<1>5. UNCHANGED <<history, queue, message, overlapped>>
  BY DEF Handle, past
<1>6. Elsewhere(u, s)
  BY <1>1, OthersElsewhere
<1>7. ASSUME NEW type \in Types PROVE OnWay(type)' \subseteq OnWay(type)
  <2>1. \A p \in Place : In(p, type)' \subseteq In(p, type)
    BY <1>2, <1>4, <1>5, <1>6, InKept
  <2> QED
    BY <2>1, OnWayKept, InOnWay
<1>8. /\ OnWay("read")' \subseteq OnWay("read") /\ OnWay("delivered")' \subseteq OnWay("delivered")
      /\ OnWay("message")' \subseteq OnWay("message")
      /\ OnWay("file-opened")' \subseteq OnWay("file-opened")
  BY <1>7 DEF Types
<1>9. e.type # "timer" => e.id \in OnWay(e.type)
  <2>1. <<"batch", u, s>> \in Place /\ In(<<"batch", u, s>>, e.type) = Marks(Pending(act[u][s]), e.type)
    BY PlaceIs DEF In
  <2> QED
    BY <1>4, <2>1, InOnWay
<1>10. ASSUME NEW st \in {"read", "opened"}, NEW m \in StatusIn(act'[u][s].copy, st)
       PROVE  \/ m \in StatusBy(u, st)
              \/ /\ m = e.id /\ message[m].by = u
                 /\ e.type = IF st = "read" THEN "read" ELSE "file-opened"
  <2>1. m \in Id /\ act'[u][s].copy[m].status = st
    BY <1>10 DEF StatusIn
  <2>2. CASE act'[u][s].copy[m] = act[u][s].copy[m]
    BY <2>1, <2>2 DEF StatusBy, StatusIn
  <2>3. CASE act'[u][s].copy[m] # act[u][s].copy[m]
    <3>a. /\ e.type = "timer" => act'[u][s].copy = act[u][s].copy
          /\ e.type # "timer" => \A x \in Id \ {e.id} : act'[u][s].copy[x] = act[u][s].copy[x]
          /\ e.type = "message" => act'[u][s].copy[e.id] = Arrived(u, e.id)
          /\ e.type \notin {"timer", "message"} =>
               act'[u][s].copy[e.id] =
                 IF act[u][s].copy[e.id] = Absent \/ message[e.id].by # u THEN act[u][s].copy[e.id]
                 ELSE Marked(act[u][s].copy[e.id], e.type)
      <4>1. PICK old, new : old = act[u][s].copy /\ new = act'[u][s].copy
        OBVIOUS
      <4>2. TypeOK /\ old \in Copy /\ Takes(u, old, new, e) /\ e \in Envelope
        BY <1>0, <1>1, <1>3, <4>1
      <4>3. /\ e.type = "timer" => new = old
            /\ e.type # "timer" => \A x \in Id \ {e.id} : new[x] = old[x]
            /\ e.type = "message" => new[e.id] = Arrived(u, e.id)
            /\ e.type \notin {"timer", "message"} =>
                 new[e.id] = IF old[e.id] = Absent \/ message[e.id].by # u THEN old[e.id]
                             ELSE Marked(old[e.id], e.type)
        BY ONLY <4>2, TakesAt
      <4> QED
        BY <4>1, <4>3
    <3>1. m = e.id /\ e.type # "timer"
      BY <2>1, <2>3, <3>a
    <3>2. e.type # "message"
      <4>1. Arrived(u, e.id).status = "delivered"
        BY DEF Arrived
      <4> QED
        BY <2>1, <3>1, <3>a, <4>1
    <3>3. /\ act[u][s].copy[m] # Absent /\ message[m].by = u
          /\ act'[u][s].copy[m] = Marked(act[u][s].copy[m], e.type)
      BY <2>3, <3>a, <3>1, <3>2
    <3>4. act[u][s].copy[m] \in ChatMessage
      BY <1>3, <2>1, <3>3 DEF Copy
    <3>5. e.type \in {"delivered", "read", "file-opened"}
      BY <1>1, <3>1, <3>2 DEF Envelope
    <3> QED
      BY <2>1, <3>1, <3>3, <3>4, <3>5, MarkedStatus
  <2> QED
    BY <2>2, <2>3
<1>11. ASSUME NEW st \in {"read", "opened"}, NEW v \in User, NEW m \in StatusBy(v, st)'
       PROVE  \/ m \in StatusBy(v, st)
              \/ /\ v = u /\ m = e.id /\ message[m].by = u
                 /\ e.type = IF st = "read" THEN "read" ELSE "file-opened"
  <2>1. \A w \in User : StatusIn(history'[w], st) \subseteq StatusBy(w, st)
    BY <1>5, HistoryStatus
  <2>2. m \in StatusBy(v, st) \/ (v = u /\ m \in StatusIn(act'[u][s].copy, st))
    BY <1>6, <2>1, StatusElsewhere
  <2> QED
    BY <1>10, <2>2
<1>12. FactInv'
  <2>1. \A v \in User : \A m \in StatusBy(v, "read")' :
          m \in StatusBy(v, "read") \/ (message'[m].by = v /\ message'[m].kind = "text")
    <3> SUFFICES ASSUME NEW v \in User, NEW m \in StatusBy(v, "read")', m \notin StatusBy(v, "read")
                 PROVE  message'[m].by = v /\ message'[m].kind = "text"
      OBVIOUS
    <3>1. v = u /\ m = e.id /\ message[m].by = u /\ e.type = "read"
      BY <1>11
    <3>2. ~File(m)
      BY <1>9, <3>1 DEF FlowInv, FactInv
    <3> QED
      BY <1>5, <3>1, <3>2 DEF File
  <2>2. \A v \in User : \A m \in StatusBy(v, "opened")' :
          m \in StatusBy(v, "opened") \/ message'[m].kind # "text"
    <3> SUFFICES ASSUME NEW v \in User, NEW m \in StatusBy(v, "opened")', m \notin StatusBy(v, "opened")
                 PROVE  message'[m].kind # "text"
      OBVIOUS
    <3>1. m = e.id /\ e.type = "file-opened"
      BY <1>11
    <3>2. File(m)
      BY <1>9, <3>1 DEF FlowInv, FactInv
    <3> QED
      BY <1>5, <3>2 DEF File
  <2> QED
    BY <1>0, <1>5, <1>8, <2>1, <2>2, FactNext DEF FlowInv
<1>13. Still(act'[u][s], act[u][s])
  BY <1>4 DEF Still
<1>14. \A m \in Begun(act'[u][s]) : m \notin Reads
  <2>1. \A m \in Begun(act'[u][s]) : m \in OnWay("message")
    BY <1>1, <1>9 DEF Begun
  <2> QED
    BY <2>1 DEF FlowInv, OrderInv
<1>15. ASSUME NEW v \in User, NEW m \in StatusBy(v, "read")', m \notin StatusBy(v, "read")
       PROVE  m \in OnWay("read") /\ (~overlapped'[v] => m \notin Ahead(v)')
  <2>1. v = u /\ m = e.id /\ e.type = "read"
    BY <1>11, <1>15
  <2>2. ASSUME ~overlapped'[u], m \in Ahead(u)' PROVE FALSE
    <3>1. Ahead(u)' = Marks(queue[u], "delivered")
                        \cup UNION {Marks(Pending(act'[u][r]), "delivered") : r \in Slot}
      BY <1>5 DEF Ahead
    <3>2. m \notin Marks(queue[u], "delivered")
      <4>1. m \in Marks(Pending(act[u][s]), "read")
        BY <1>4, <2>1
      <4> QED
        BY <4>1 DEF FlowInv, OrderInv
    <3>3. m \notin Marks(Pending(act'[u][s]), "delivered")
      BY <1>4, <2>1
    <3>4. ASSUME NEW r \in Slot, r # s PROVE Marks(Pending(act'[u][r]), "delivered") = {}
      <4>1. act[u][s] # Idle /\ ~overlapped[u]
        BY <1>1, <1>5, <2>2, IdleFields
      <4>2. act[u][r] = Idle
        BY <3>4, <4>1 DEF AloneInv
      <4>3. act'[u][r] = Idle
        BY <1>1, <3>4, <4>2 DEF Others
      <4> QED
        BY <4>3, IdleLooks
    <3> QED
      BY <2>2, <3>1, <3>2, <3>3, <3>4
  <2> QED
    BY <1>9, <2>1, <2>2
<1>16. OrderInv'
  <2>1. \A x \in User :
          InOrder(queue'[x]) /\ Marks(queue'[x], "delivered") \subseteq Marks(queue[x], "delivered")
    BY <1>5 DEF FlowInv, OrderInv
  <2>2. \A v \in User : \A m \in StatusBy(v, "read")' :
          \/ m \in StatusBy(v, "read")
          \/ m \in OnWay("read") /\ (~overlapped'[v] => m \notin Ahead(v)')
    BY <1>15
  <2> QED
    BY <1>0, <1>5, <1>6, <1>8, <1>13, <1>14, <2>1, <2>2, OrderStill DEF FlowInv
<1> QED
  BY <1>12, <1>16 DEF FlowInv

LEMMA FetchFlow ==
  ASSUME Inv, PlaceInv, FlowInv, NEW u \in User, NEW s \in Slot, Fetch(u, s)
  PROVE  FlowInv'
<1>0. TypeInv /\ FactInv /\ OrderInv
  BY DEF Inv, FlowInv
<1>1. /\ Others(u, s) /\ act'[u][s].step = "load"
      /\ act'[u][s].copy = act[u][s].copy /\ act'[u][s].batch = queue[u]
      /\ queue'[u] = <<>> /\ \A v \in User \ {u} : queue'[v] = queue[v]
  BY <1>0, FetchFields
<1>2. UNCHANGED <<history, message, overlapped>>
  BY DEF Fetch, disk, past
<1>3. Pending(act'[u][s]) = queue[u] /\ Begun(act'[u][s]) = {}
  BY <1>1 DEF Pending, Begun
<1>4. ASSUME NEW type \in Types PROVE OnWay(type)' \subseteq OnWay(type)
  <2>1. PICK from, to : from = <<"queue", u, None>> /\ to = <<"batch", u, s>>
    OBVIOUS
  <2>2. /\ \A t : In(from, t)' = {} /\ In(to, t)' = In(from, t)
        /\ \A p \in Place, t \in Types : p # to => In(p, t)' \subseteq In(p, t)
        /\ from \in Place /\ to \in Place
    BY <1>0, <2>1, FetchIn
  <2>3. \A p \in Place : In(p, type)' \subseteq OnWay(type)
    BY <2>2, InOnWay
  <2> QED
    BY <2>3, OnWayKept
<1>5. /\ OnWay("read")' \subseteq OnWay("read") /\ OnWay("delivered")' \subseteq OnWay("delivered")
      /\ OnWay("message")' \subseteq OnWay("message")
      /\ OnWay("file-opened")' \subseteq OnWay("file-opened")
  BY <1>4 DEF Types
<1>6. Elsewhere(u, s)
  BY <1>1, OthersElsewhere
<1>7. /\ \A w \in User : StatusBy(w, "read")' \subseteq StatusBy(w, "read")
      /\ \A w \in User : StatusBy(w, "opened")' \subseteq StatusBy(w, "opened")
  BY <1>1, <1>2, <1>6, SameStatus
<1>8. FactInv'
  BY <1>0, <1>2, <1>5, <1>7, FactNext
<1>9. Reads' \subseteq Reads
  BY <1>5, <1>7 DEF Reads
<1>10. ASSUME NEW v \in User, NEW r \in Slot
       PROVE  /\ Begun(act'[v][r]) \subseteq Begun(act[v][r])
              /\ Pending(act'[v][r]) = IF <<v, r>> = <<u, s>> THEN queue[u] ELSE Pending(act[v][r])
  <2>1. CASE <<v, r>> = <<u, s>>
    BY <1>3, <2>1
  <2>2. CASE <<v, r>> # <<u, s>>
    <3>1. act'[v][r] = act[v][r]
      BY <1>1, <2>2 DEF Others
    <3> QED
      BY <2>2, <3>1
  <2> QED
    BY <2>1, <2>2
<1>11. \A m \in Reads' :
         m \notin OnWay("message")' /\ \A v \in User, r \in Slot : m \notin Begun(act'[v][r])
  BY <1>0, <1>5, <1>9, <1>10 DEF OrderInv
<1>12. \A x \in User : InOrder(queue'[x])
  BY <1>0, <1>1, MarksEmpty DEF OrderInv
<1>13. ASSUME NEW x \in User, NEW r \in Slot
       PROVE  /\ InOrder(Pending(act'[x][r]))
              /\ Marks(Pending(act'[x][r]), "read") \cap Marks(queue'[x], "delivered") = {}
  <2>1. InOrder(Pending(act'[x][r]))
    BY <1>0, <1>10 DEF OrderInv
  <2>2. CASE x = u
    BY <1>1, <2>1, <2>2, MarksEmpty
  <2>3. CASE x # u
    <3>1. Pending(act'[x][r]) = Pending(act[x][r]) /\ queue'[x] = queue[x]
      BY <1>1, <1>10, <2>3
    <3> QED
      BY <1>0, <2>1, <3>1 DEF OrderInv
  <2> QED
    BY <2>2, <2>3
<1>14. ASSUME NEW x \in User PROVE Ahead(x)' \subseteq Ahead(x)
  <2>1. Ahead(x)' = Marks(queue'[x], "delivered")
                      \cup UNION {Marks(Pending(act'[x][r]), "delivered") : r \in Slot}
    BY DEF Ahead
  <2>2. Marks(queue'[x], "delivered") \subseteq Ahead(x)
    BY <1>1, MarksEmpty DEF Ahead
  <2>3. ASSUME NEW r \in Slot PROVE Marks(Pending(act'[x][r]), "delivered") \subseteq Ahead(x)
    BY <1>10 DEF Ahead
  <2> QED
    BY <2>1, <2>2, <2>3
<1>15. ASSUME NEW x \in User, ~overlapped'[x] PROVE StatusBy(x, "read")' \cap Ahead(x)' = {}
  <2>1. StatusBy(x, "read") \cap Ahead(x) = {}
    BY <1>0, <1>2, <1>15 DEF OrderInv
  <2> QED
    BY <1>7, <1>14, <2>1
<1>16. OrderInv'
  BY <1>11, <1>12, <1>13, <1>15 DEF OrderInv
<1> QED
  BY <1>8, <1>16 DEF FlowInv

LEMMA ReopenFlow ==
  ASSUME Inv, PlaceInv, FlowInv, NEW u \in User, Reopen(u)
  PROVE  FlowInv'
<1>0. TypeInv /\ FactInv /\ OrderInv
  BY DEF Inv, FlowInv
<1>1. \A s \in Slot : act'[u][s] = Idle
  BY <1>0, ReopenFields
<1>2. \A v \in User \ {u}, s \in Slot : act'[v][s] = act[v][s]
  BY <1>0, ReopenFields
<1>3. UNCHANGED <<history, queue, message, overlapped>>
  BY DEF Reopen, disk
<1>4. ASSUME NEW v \in User, NEW r \in Slot PROVE act'[v][r] = Idle \/ act'[v][r] = act[v][r]
  BY <1>1, <1>2
<1>5. ASSUME NEW type \in Types PROVE OnWay(type)' \subseteq OnWay(type)
  <2>1. ASSUME NEW p \in Place PROVE In(p, type)' \subseteq In(p, type)
    <3>1. CASE p[1] = "queue"
      BY <1>3, <3>1 DEF In
    <3>2. CASE p[1] # "queue"
      <4>1. p[2] \in User /\ p[3] \in Slot
        BY <3>2 DEF Place
      <4>2. act'[p[2]][p[3]] = Idle \/ act'[p[2]][p[3]] = act[p[2]][p[3]]
        BY <1>4, <4>1
      <4> QED
        BY <3>2, <4>2, IdleLooks DEF In
    <3> QED
      BY <3>1, <3>2
  <2> QED
    BY <2>1, OnWayKept, InOnWay
<1>6. /\ OnWay("read")' \subseteq OnWay("read") /\ OnWay("delivered")' \subseteq OnWay("delivered")
      /\ OnWay("message")' \subseteq OnWay("message")
      /\ OnWay("file-opened")' \subseteq OnWay("file-opened")
  BY <1>5 DEF Types
<1>7. ASSUME NEW st \in {"read", "opened"}, NEW v \in User PROVE StatusBy(v, st)' \subseteq StatusBy(v, st)
  <2>1. StatusBy(v, st)' = StatusIn(history[v], st)
                             \cup UNION {StatusIn(act'[v][r].copy, st) : r \in Slot}
    BY <1>3 DEF StatusBy, StatusIn
  <2>2. ASSUME NEW r \in Slot PROVE StatusIn(act'[v][r].copy, st) \subseteq StatusBy(v, st)
    BY <1>4, EmptyStatus, IdleFields, HistoryStatus
  <2> QED
    BY <2>1, <2>2, HistoryStatus
<1>8. /\ \A w \in User : StatusBy(w, "read")' \subseteq StatusBy(w, "read")
      /\ \A w \in User : StatusBy(w, "opened")' \subseteq StatusBy(w, "opened")
  BY <1>7
<1>9. FactInv'
  BY <1>0, <1>3, <1>6, <1>8, FactNext
<1>10. Reads' \subseteq Reads
  BY <1>6, <1>8 DEF Reads
<1>11. ASSUME NEW v \in User, NEW r \in Slot
       PROVE  /\ Begun(act'[v][r]) \subseteq Begun(act[v][r])
              /\ Pending(act'[v][r]) = <<>> \/ Pending(act'[v][r]) = Pending(act[v][r])
  <2>1. Begun(Idle) = {} /\ Pending(Idle) = <<>>
    BY IdleFields DEF Begun, Pending
  <2> QED
    BY <1>4, <2>1
<1>12. \A m \in Reads' :
         m \notin OnWay("message")' /\ \A v \in User, r \in Slot : m \notin Begun(act'[v][r])
  BY <1>0, <1>6, <1>10, <1>11 DEF OrderInv
<1>13. \A x \in User : InOrder(queue'[x])
  BY <1>0, <1>3 DEF OrderInv
<1>14. \A x \in User, r \in Slot :
         /\ InOrder(Pending(act'[x][r]))
         /\ Marks(Pending(act'[x][r]), "read") \cap Marks(queue'[x], "delivered") = {}
  BY <1>0, <1>3, <1>11, MarksEmpty DEF OrderInv
<1>15. ASSUME NEW x \in User PROVE Ahead(x)' \subseteq Ahead(x)
  <2>1. Ahead(x)' = Marks(queue[x], "delivered")
                      \cup UNION {Marks(Pending(act'[x][r]), "delivered") : r \in Slot}
    BY <1>3 DEF Ahead
  <2>2. ASSUME NEW r \in Slot PROVE Marks(Pending(act'[x][r]), "delivered") \subseteq Ahead(x)
    BY <1>11, MarksEmpty DEF Ahead
  <2> QED
    BY <2>1, <2>2 DEF Ahead
<1>16. ASSUME NEW x \in User, ~overlapped'[x] PROVE StatusBy(x, "read")' \cap Ahead(x)' = {}
  <2>1. StatusBy(x, "read") \cap Ahead(x) = {}
    BY <1>0, <1>3, <1>16 DEF OrderInv
  <2> QED
    BY <1>8, <1>15, <2>1
<1>17. OrderInv'
  BY <1>12, <1>13, <1>14, <1>16 DEF OrderInv
<1> QED
  BY <1>9, <1>17 DEF FlowInv

LEMMA ReceiptFlow ==
  ASSUME Inv, RoleInv, PlaceInv, FlowInv, NEW u \in User, NEW s \in Slot, Receipt(u, s)
  PROVE  FlowInv'
<1>0. TypeInv /\ FactInv /\ OrderInv /\ SpotInv /\ Fitting(u, s)
  BY DEF Inv, FlowInv, PlaceInv
<1> PICK m : m = Head(act[u][s].batch).id
  OBVIOUS
<1> PICK v : v = Peer(u)
  OBVIOUS
<1> PICK e : e = [type |-> act[u][s].step, id |-> m]
  OBVIOUS
<1>1. /\ Others(u, s) /\ act'[u][s].copy = act[u][s].copy
      /\ act[u][s].step \in {"delivered", "read"} /\ act[u][s].batch # <<>>
      /\ act[u][s].step = "delivered" =>
           act'[u][s].step = "read" /\ act'[u][s].batch = act[u][s].batch
      /\ act[u][s].step = "read" =>
           act'[u][s].step = "handle" /\ act'[u][s].batch = Tail(act[u][s].batch)
      /\ queue'[v] = Append(queue[v], e)
      /\ \A w \in User \ {v} : queue'[w] = queue[w]
      /\ e \in Envelope /\ v \in User
  BY <1>0, ReceiptFields
<1>2. e.type = act[u][s].step /\ e.id = m
  OBVIOUS
<1>3. UNCHANGED <<history, message, overlapped>>
  BY DEF Receipt, disk, past
<1>4. /\ Pending(act'[u][s]) = Pending(act[u][s]) /\ \A type : Posts(act'[u][s], type) = {}
      /\ Begun(act'[u][s]) = {} /\ m \in Doing(act[u][s])
      /\ e.type = "delivered" => m \in Begun(act[u][s])
  BY <1>1, <1>2 DEF Pending, Posts, Begun, Doing
<1>5. /\ u = Peer(message[m].by) /\ ~File(m) /\ m \in Known(u)
      /\ \A r \in Slot : m \in Doing(act[u][r]) => r = s
  BY <1>0, <1>4, KnownHas DEF Fitting
<1>6. Elsewhere(u, s)
  BY <1>1, OthersElsewhere
<1>7. ASSUME NEW type \in Types
      PROVE  OnWay(type)' \subseteq OnWay(type) \cup (IF type = e.type THEN {m} ELSE {})
  <2>1. ASSUME NEW p \in Place
        PROVE  In(p, type)' \subseteq OnWay(type) \cup (IF type = e.type THEN {m} ELSE {})
    <3>1. CASE p = <<"post", u, s>> \/ p = <<"batch", u, s>>
      <4>1. In(p, type)' \subseteq In(p, type)
        BY <1>4, <3>1 DEF In
      <4> QED
        BY <4>1, InOnWay
    <3>2. CASE p = <<"queue", v, None>>
      <4>1. In(p, type) = Marks(queue[v], type) /\ In(p, type)' = Marks(queue'[v], type)
        BY <3>2 DEF In
      <4>2. queue[v] \in Seq(Envelope)
        BY <1>0, <1>1, ActType
      <4>3. Marks(queue'[v], type) \subseteq Marks(queue[v], type) \cup (IF type = e.type THEN {m} ELSE {})
        BY <1>1, <1>2, <4>2, MarksAppend
      <4> QED
        BY <4>1, <4>3, InOnWay
    <3>3. CASE p # <<"post", u, s>> /\ p # <<"batch", u, s>> /\ p # <<"queue", v, None>>
      <4>1. p[1] = "queue" => queue'[p[2]] = queue[p[2]]
        BY <1>1, <3>3 DEF Place
      <4>2. In(p, type)' = In(p, type)
        BY <1>6, <3>3, <4>1, InElsewhere
      <4> QED
        BY <4>2, InOnWay
    <3> QED
      BY <3>1, <3>2, <3>3
  <2>2. OnWay(type)' = UNION {In(p, type)' : p \in Place}
    BY DEF OnWay
  <2> QED
    BY <2>1, <2>2
<1>8. /\ OnWay("read")' \subseteq OnWay("read") \cup (IF e.type = "read" THEN {m} ELSE {})
      /\ OnWay("delivered")' \subseteq OnWay("delivered") \cup {m}
      /\ OnWay("message")' \subseteq OnWay("message")
      /\ OnWay("file-opened")' \subseteq OnWay("file-opened")
  BY <1>1, <1>2, <1>7 DEF Types
<1>9. /\ \A w \in User : StatusBy(w, "read")' \subseteq StatusBy(w, "read")
      /\ \A w \in User : StatusBy(w, "opened")' \subseteq StatusBy(w, "opened")
  BY <1>1, <1>3, <1>6, SameStatus
<1>10. FactInv'
  <2>1. message'[m].kind = "text"
    BY <1>3, <1>5 DEF File
  <2> QED
    BY <1>0, <1>3, <1>8, <1>9, <2>1, FactNext
<1>11. Reads' \subseteq Reads \cup (IF e.type = "read" THEN {m} ELSE {})
  BY <1>8, <1>9 DEF Reads
<1>12. m \notin OnWay("message")
  <2> SUFFICES ASSUME NEW p \in Place, m \in In(p, "message") PROVE FALSE
    BY DEF OnWay
  <2>1. u = message[m].by /\ Sent1(m)
    BY <1>0, <1>5 DEF SpotInv
  <2> QED
    BY <1>5, <2>1, PeerIsNot
<1>13. e.type = "delivered" => m \notin Reads
  BY <1>0, <1>4 DEF OrderInv
<1>14. ASSUME NEW x \in User, NEW r \in Slot
       PROVE  /\ Begun(act'[x][r]) \subseteq Begun(act[x][r])
              /\ e.type = "read" => m \notin Begun(act'[x][r])
              /\ Pending(act'[x][r]) = Pending(act[x][r])
  <2>1. CASE <<x, r>> = <<u, s>>
    BY <1>4, <2>1
  <2>2. CASE <<x, r>> # <<u, s>>
    <3>1. act'[x][r] = act[x][r]
      BY <1>1, <2>2 DEF Others
    <3>2. ASSUME m \in Begun(act[x][r]) PROVE FALSE
      <4>1. m \in Doing(act[x][r])
        BY <3>2 DEF Begun, Doing
      <4>2. Fitting(x, r)
        BY DEF PlaceInv
      <4>3. x = Peer(message[m].by)
        BY <4>1, <4>2 DEF Fitting
      <4> QED
        BY <1>5, <2>2, <4>1, <4>3
    <3> QED
      BY <3>1, <3>2
  <2> QED
    BY <2>1, <2>2
<1>15. ASSUME NEW x \in Reads'
       PROVE  x \notin OnWay("message")' /\ \A w \in User, r \in Slot : x \notin Begun(act'[w][r])
  <2>1. CASE x \in Reads
    BY <1>0, <1>8, <1>14, <2>1 DEF OrderInv
  <2>2. CASE e.type = "read" /\ x = m
    BY <1>8, <1>12, <1>14, <2>2
  <2> QED
    BY <1>11, <2>1, <2>2
<1>16. /\ InOrder(queue'[v])
       /\ Marks(queue'[v], "delivered") \subseteq
            Marks(queue[v], "delivered") \cup (IF e.type = "delivered" THEN {m} ELSE {})
  <2>1. queue[v] \in Seq(Envelope) /\ InOrder(queue[v])
    BY <1>0, <1>1, ActType DEF OrderInv
  <2>2. e.type = "delivered" => m \notin Marks(queue[v], "read")
    <3>1. <<"queue", v, None>> \in Place /\ In(<<"queue", v, None>>, "read") = Marks(queue[v], "read")
      BY <1>1, PlaceIs DEF In
    <3>2. Marks(queue[v], "read") \subseteq Reads
      BY <3>1, InOnWay DEF Reads
    <3> QED
      BY <1>13, <3>2
  <2>3. InOrder(queue'[v])
    BY <1>1, <1>2, <2>1, <2>2, InOrderAppend
  <2>4. Marks(queue'[v], "delivered") \subseteq
          Marks(queue[v], "delivered") \cup (IF e.type = "delivered" THEN {m} ELSE {})
    BY <1>1, <1>2, <2>1, MarksAppend
  <2> QED
    BY <2>3, <2>4
<1>17. \A x \in User : InOrder(queue'[x])
  BY <1>0, <1>1, <1>16 DEF OrderInv
<1>18. ASSUME NEW x \in User, NEW r \in Slot
       PROVE  /\ InOrder(Pending(act'[x][r]))
              /\ Marks(Pending(act'[x][r]), "read") \cap Marks(queue'[x], "delivered") = {}
  <2>1. /\ InOrder(Pending(act[x][r]))
        /\ Marks(Pending(act[x][r]), "read") \cap Marks(queue[x], "delivered") = {}
        /\ Pending(act'[x][r]) = Pending(act[x][r])
    BY <1>0, <1>14 DEF OrderInv
  <2>2. Marks(Pending(act[x][r]), "read") \subseteq Reads
    <3>1. <<"batch", x, r>> \in Place /\ In(<<"batch", x, r>>, "read") = Marks(Pending(act[x][r]), "read")
      BY PlaceIs DEF In
    <3> QED
      BY <3>1, InOnWay DEF Reads
  <2>3. CASE x = v
    BY <1>13, <1>16, <2>1, <2>2, <2>3
  <2>4. CASE x # v
    BY <1>1, <2>1, <2>4
  <2> QED
    BY <2>3, <2>4
<1>19. ASSUME NEW x \in User, ~overlapped'[x] PROVE StatusBy(x, "read")' \cap Ahead(x)' = {}
  <2>1. StatusBy(x, "read") \cap Ahead(x) = {}
    BY <1>0, <1>3, <1>19 DEF OrderInv
  <2>2. Ahead(x)' \subseteq Ahead(x) \cup (IF e.type = "delivered" THEN {m} ELSE {})
    <3>1. Ahead(x)' = Marks(queue'[x], "delivered")
                        \cup UNION {Marks(Pending(act'[x][r]), "delivered") : r \in Slot}
      BY DEF Ahead
    <3>2. ASSUME NEW r \in Slot PROVE Marks(Pending(act'[x][r]), "delivered") \subseteq Ahead(x)
      BY <1>14 DEF Ahead
    <3>3. Marks(queue'[x], "delivered") \subseteq
            Marks(queue[x], "delivered") \cup (IF e.type = "delivered" THEN {m} ELSE {})
      BY <1>1, <1>16
    <3>4. Marks(queue[x], "delivered") \subseteq Ahead(x)
      BY DEF Ahead
    <3> QED
      BY <3>1, <3>2, <3>3, <3>4
  <2>3. StatusBy(x, "read") \subseteq Reads
    BY DEF Reads
  <2> QED
    BY <1>9, <1>13, <2>1, <2>2, <2>3
<1>20. OrderInv'
  BY <1>15, <1>17, <1>18, <1>19 DEF OrderInv
<1> QED
  BY <1>10, <1>20 DEF FlowInv

LEMMA InitFlow == Init => FlowInv
<1> SUFFICES ASSUME Init PROVE FlowInv
  OBVIOUS
<1>1. /\ \A u \in User : history[u] = Empty /\ queue[u] = <<>>
      /\ \A u \in User, s \in Slot : act[u][s] = Idle
  BY DEF Init
<1>2. \A p \in Place : \A type : In(p, type) = {}
  <2> SUFFICES ASSUME NEW p \in Place, NEW type PROVE In(p, type) = {}
    OBVIOUS
  <2>1. CASE p[1] = "queue"
    <3>1. p[2] \in User
      BY DEF Place
    <3> QED
      BY <1>1, <2>1, <3>1, MarksEmpty DEF In
  <2>2. CASE p[1] # "queue"
    <3>1. p[2] \in User /\ p[3] \in Slot
      BY <2>2 DEF Place
    <3> QED
      BY <1>1, <2>2, <3>1, IdleLooks DEF In
  <2> QED
    BY <2>1, <2>2
<1>3. \A type : OnWay(type) = {}
  BY <1>2 DEF OnWay
<1>4. \A u \in User : StatusBy(u, "read") = {} /\ StatusBy(u, "opened") = {}
  BY <1>1, EmptyStatus, IdleFields DEF StatusBy
<1>5. Reads = {}
  BY <1>3, <1>4 DEF Reads
<1>6. /\ \A u \in User : InOrder(queue[u]) /\ Marks(queue[u], "delivered") = {}
      /\ \A u \in User, s \in Slot : InOrder(Pending(act[u][s]))
  BY <1>1, MarksEmpty, IdleLooks
<1>7. FactInv
  BY <1>3, <1>4 DEF FactInv
<1>8. OrderInv
  BY <1>4, <1>5, <1>6 DEF OrderInv
<1> QED
  BY <1>7, <1>8 DEF FlowInv

LEMMA NextFlow ==
  ASSUME Inv, RoleInv, PlaceInv, AloneInv, FlowInv, [Next]_vars
  PROVE  FlowInv'
<1>1. ASSUME NEW u \in User, NEW s \in Handler, Act(u, s) PROVE FlowInv'
  BY <1>1, SlotSplit, ActFlow
<1>2. ASSUME NEW u \in User, NEW s \in Poller, Poll(u, s) PROVE FlowInv'
  BY <1>2, SlotSplit, PollFlow
<1>3. ASSUME NEW u \in User, NEW s \in Slot, GoesOn(u, s) PROVE FlowInv'
  <2>1. CASE TimerSet(u, s)
    BY <2>1, EndFlow DEF TimerSet, past
  <2> QED
    BY <1>3, <2>1, PostedFlow, LoadedFlow, SaveFlow, FetchFlow, HandleFlow, ReceiptFlow DEF GoesOn
<1>4. ASSUME NEW u \in User, NEW s \in Slot, Fail(u, s) PROVE FlowInv'
  BY <1>4, EndFlow DEF Fail, disk
<1>5. ASSUME NEW u \in User, Expire(u) PROVE FlowInv'
  BY <1>5, FlowSame DEF Expire, disk
<1>6. CASE UNCHANGED vars
  BY <1>6, FlowSame DEF vars, disk, past
<1> QED
  BY <1>1, <1>2, <1>3, <1>4, <1>5, <1>6, ReopenFlow DEF Next

-----------------------------------------------------------------------------
(* What an activation holds is further than the history *)

Further(d, c) ==
  \A m \in Ids(d) \cap Ids(c) :
    Rank(c[m].status) >= Rank(d[m].status) /\ (d[m].expires => c[m].expires)
HasCopy(a) == a.step \in {"save", "handle", "delivered", "read"}
RankInv ==
  \A u \in User : ~overlapped[u] =>
    \A s \in Slot : HasCopy(act[u][s]) => Further(history[u], act[u][s].copy)

LEMMA RankIs ==
  /\ \A st : Rank(st) \in {0, 1, 2} /\ Rank(st) >= Rank(st)
  /\ Rank("sent") = 0 /\ Rank("delivered") = 1 /\ Rank("read") = 2 /\ Rank("opened") = 2
  BY DEF Rank

(* A history is changed at one message *)
LEMMA FurtherAt ==
  ASSUME NEW d \in Copy, NEW c \in Copy, NEW m,
         \A x \in Id \ {m} : c[x] = d[x],
         m \in Ids(d) \cap Ids(c) =>
           Rank(c[m].status) >= Rank(d[m].status) /\ (d[m].expires => c[m].expires)
  PROVE  Further(d, c)
<1> SUFFICES ASSUME NEW x \in Ids(d) \cap Ids(c)
             PROVE  Rank(c[x].status) >= Rank(d[x].status) /\ (d[x].expires => c[x].expires)
  BY DEF Further
<1>1. CASE x = m
  BY <1>1
<1>2. CASE x # m
  BY <1>2, RankIs DEF Ids
<1> QED
  BY <1>1, <1>2

LEMMA RankElsewhere ==
  ASSUME RankInv, NEW u \in User, NEW s \in Slot, Others(u, s), history' = history,
         \A v \in User : overlapped[v] => overlapped'[v],
         ~overlapped[u] /\ HasCopy(act'[u][s]) => Further(history[u], act'[u][s].copy)
  PROVE  RankInv'
<1> SUFFICES ASSUME NEW v \in User, ~overlapped'[v], NEW r \in Slot, HasCopy(act'[v][r])
             PROVE  Further(history[v], act'[v][r].copy)
  BY DEF RankInv, HasCopy, Further, Ids
<1>1. ~overlapped[v]
  OBVIOUS
<1>2. CASE <<v, r>> = <<u, s>>
  BY <1>1, <1>2
<1>3. CASE <<v, r>> # <<u, s>>
  <2>1. act'[v][r] = act[v][r]
    BY <1>3 DEF Others
  <2> QED
    BY <1>1, <2>1 DEF RankInv
<1> QED
  BY <1>2, <1>3

LEMMA RankHolds ==
  ASSUME TypeInv, RankInv, NEW u \in User, NEW s \in Slot, NEW step, NEW copy, Holds(u, s, step, copy),
         UNCHANGED <<history, overlapped>>,
         ~overlapped[u] => Further(history[u], copy)
  PROVE  RankInv'
<1>1. Others(u, s) /\ act'[u][s].copy = copy
  BY HoldsFields
<1> QED
  BY <1>1, RankElsewhere

LEMMA RankEnds ==
  ASSUME TypeInv, RankInv, NEW u \in User, NEW s \in Slot, act' = [act EXCEPT ![u][s] = Idle],
         UNCHANGED <<history, overlapped>>
  PROVE  RankInv'
<1>1. Others(u, s) /\ act'[u][s] = Idle /\ ~HasCopy(Idle)
  BY EndFields, IdleFields DEF HasCopy
<1> QED
  BY <1>1, RankElsewhere

(* An activation that saves is the only one *)
LEMMA RankSaved ==
  ASSUME Inv, AloneInv, RankInv, NEW u \in User, NEW s \in Slot, Save(u, s)
  PROVE  RankInv'
<1>1. /\ act[u][s].step = "save" /\ act'[u][s] = Idle
      /\ \A v \in User \ {u} : history'[v] = history[v]
      /\ \A v \in User \ {u}, r \in Slot : act'[v][r] = act[v][r]
      /\ \A r \in Slot \ {s} : act[u][r] = Idle => act'[u][r] = Idle
  BY SaveFields DEF Inv
<1>2. overlapped' = overlapped /\ ~HasCopy(Idle)
  BY IdleFields DEF Save, HasCopy
<1> SUFFICES ASSUME NEW v \in User, ~overlapped[v], NEW r \in Slot, HasCopy(act'[v][r])
             PROVE  Further(history'[v], act'[v][r].copy)
  BY <1>2 DEF RankInv, HasCopy, Further, Ids
<1>3. CASE v = u
  <2>1. act[u][s] # Idle
    BY <1>1, IdleFields
  <2>2. act'[u][r] = Idle
    BY <1>1, <1>3, <2>1 DEF AloneInv
  <2> QED
    BY <1>2, <1>3, <2>2
<1>4. CASE v # u
  BY <1>1, <1>4 DEF RankInv
<1> QED
  BY <1>3, <1>4

(* What a receipt says is not behind what the history says *)
LEMMA RankHandled ==
  ASSUME Inv, RoleInv, PlaceInv, FlowInv, AloneInv, RankInv,
         NEW u \in User, NEW s \in Slot, Handle(u, s), ~overlapped[u]
  PROVE  Further(history[u], act'[u][s].copy)
<1>0. TypeInv /\ TypeOK /\ SpotInv /\ FactInv /\ OrderInv
  BY DEF Inv, TypeInv, PlaceInv, FlowInv
<1> PICK e : e = Head(act[u][s].batch)
  OBVIOUS
<1> PICK old, new, d : old = act[u][s].copy /\ new = act'[u][s].copy /\ d = history[u]
  OBVIOUS
<1>1. /\ act[u][s].step = "handle" /\ act[u][s].batch # <<>>
      /\ e \in Envelope /\ Takes(u, old, new, e)
  BY <1>0, HandleFields
<1>a. TypeOK /\ u \in User /\ old \in Copy /\ e \in Envelope /\ Takes(u, old, new, e)
  BY <1>0, <1>1, ActivationType
<1>2. old \in Copy /\ d \in Copy /\ act[u][s].batch \in Seq(Envelope)
  BY <1>0, ActivationType, ActType
<1>3. /\ new \in Copy /\ Ids(old) \subseteq Ids(new)
      /\ e.type = "timer" => new = old
      /\ e.type # "timer" => \A m \in Id \ {e.id} : new[m] = old[m]
      /\ e.type = "message" => new[e.id] = Arrived(u, e.id) /\ Ids(new) = Ids(old) \cup {e.id}
      /\ e.type \notin {"timer", "message"} =>
           /\ Ids(new) = Ids(old)
           /\ new[e.id] = IF old[e.id] = Absent \/ message[e.id].by # u THEN old[e.id]
                          ELSE Marked(old[e.id], e.type)
  BY ONLY <1>a, TakesAt
<1>4. Further(d, old)
  BY <1>1 DEF RankInv, HasCopy
<1>5. /\ Pending(act[u][s]) = act[u][s].batch
      /\ e.type # "timer" => e.id \in Marks(Pending(act[u][s]), e.type)
  BY <1>1, <1>2, MarksTail DEF Pending
<1>6. In(<<"batch", u, s>>, e.type) = Marks(Pending(act[u][s]), e.type) /\ <<"batch", u, s>> \in Place
  BY PlaceIs DEF In
<1>7. e.type # "timer" => e.id \in In(<<"batch", u, s>>, e.type) /\ e.id \in OnWay(e.type)
  BY <1>5, <1>6, InOnWay
<1> SUFFICES ASSUME NEW m \in Ids(d) \cap Ids(new)
             PROVE  Rank(new[m].status) >= Rank(d[m].status) /\ (d[m].expires => new[m].expires)
  BY DEF Further
<1>8. CASE new[m] = old[m]
  <2>1. m \in Ids(old)
    BY <1>8 DEF Ids
  <2> QED
    BY <1>4, <1>8, <2>1 DEF Further
<1>9. CASE new[m] # old[m]
  <2>1. m \in Id /\ m = e.id /\ e.type # "timer"
    BY <1>3, <1>9 DEF Ids
  <2>2. ASSUME e.type = "message" PROVE FALSE
    <3>1. m \in Known(u)
      BY KnownHas
    <3>2. u = Peer(message[m].by)
      BY <1>0, <1>6, <1>7, <2>1, <2>2 DEF SpotInv, Owner
    <3>3. u = message[m].by
      BY <1>0, <1>6, <1>7, <2>1, <2>2, <3>1 DEF SpotInv
    <3> QED
      BY <3>2, <3>3, PeerIsNot
  <2>3. /\ m \in Ids(old) /\ new[m] = Marked(old[m], e.type)
        /\ old[m] \in ChatMessage /\ e.type \in {"delivered", "read", "file-opened"}
    <3>1. e.type \in {"delivered", "read", "file-opened"}
      BY <1>1, <2>1, <2>2 DEF Envelope
    <3>2. old[m] # Absent /\ new[m] = Marked(old[m], e.type)
      BY <1>3, <1>9, <2>1, <3>1
    <3> QED
      BY <1>2, <2>1, <3>1, <3>2 DEF Copy, Ids
  <2>4. /\ new[m].status = IF e.type = "file-opened" THEN "opened" ELSE e.type
        /\ old[m].expires => new[m].expires
    BY <2>3, MarkedStatus
  <2>5. d[m].expires => new[m].expires
    BY <1>4, <2>3, <2>4 DEF Further
  <2>6. Rank(new[m].status) >= Rank(d[m].status)
    <3>1. CASE e.type # "delivered"
      <4>1. Rank(new[m].status) = 2
        BY <2>3, <2>4, <3>1, RankIs
      <4> QED
        BY <4>1, RankIs
    <3>2. CASE e.type = "delivered"
      <4>1. ~File(m) /\ m \in Ahead(u)
        <5>1. m \in Marks(Pending(act[u][s]), "delivered")
          BY <1>5, <2>1, <3>2
        <5>2. m \in OnWay("delivered")
          BY <1>7, <2>1, <3>2
        <5> QED
          BY <1>0, <5>1, <5>2 DEF FactInv, Ahead
      <4>2. d[m].status # "read"
        <5>1. d[m].status = "read" => m \in StatusBy(u, "read")
          BY <2>1 DEF StatusBy, StatusIn
        <5> QED
          BY <1>0, <4>1, <5>1 DEF OrderInv
      <4>3. d[m].status # "opened"
        <5>1. d[m].status = "opened" => m \in StatusBy(u, "opened")
          BY <2>1 DEF StatusBy, StatusIn
        <5> QED
          BY <1>0, <4>1, <5>1 DEF FactInv
      <4>4. d[m] \in ChatMessage
        BY <1>2, <2>1 DEF Copy, Ids
      <4>5. d[m].status \in {"sent", "delivered"}
        BY <4>2, <4>3, <4>4 DEF ChatMessage
      <4>6. Rank(new[m].status) = 1 /\ Rank(d[m].status) \in {0, 1}
        BY <2>4, <3>2, <4>5, RankIs
      <4> QED
        BY <4>6
    <3> QED
      BY <3>1, <3>2
  <2> QED
    BY <2>5, <2>6
<1> QED
  BY <1>8, <1>9

LEMMA RankGoesOn ==
  ASSUME Inv, RoleInv, PlaceInv, FlowInv, AloneInv, RankInv, NEW u \in User, NEW s \in Slot, GoesOn(u, s)
  PROVE  RankInv'
<1>0. TypeInv /\ history[u] \in Copy
  BY ActType DEF Inv
<1>s. ASSUME NEW copy, Further(history[u], copy), NEW c, \A m \in Id : c[m] \in {copy[m], Absent}
      PROVE  Further(history[u], c)
  BY <1>s DEF Further, Ids
<1>e. Further(history[u], history[u])
  BY RankIs DEF Further
<1>1. CASE Posted(u, s)
  <2>1. Others(u, s) /\ ~HasCopy(act'[u][s])
    BY <1>0, <1>1, PostedFields DEF HasCopy
  <2>2. UNCHANGED <<history, overlapped>>
    BY <1>1 DEF Posted, disk
  <2> QED
    BY <2>1, <2>2, RankElsewhere
<1>2. CASE TimerSet(u, s)
  BY <1>0, <1>2, RankEnds DEF TimerSet, past
<1>3. CASE Appended(u, s)
  <2>1. PICK m : m = act[u][s].what.id
    OBVIOUS
  <2>2. PICK copy : copy = [history[u] EXCEPT ![m] = Sent(u, m)] /\ Holds(u, s, "save", copy)
    BY <1>3, <2>1 DEF Appended
  <2>3. act[u][s].op = "send" /\ act[u][s].step = "load" /\ m \in Id
    BY <1>0, <1>3, <2>1 DEF Appended, TypeInv, ActOK, Text
  <2>4. copy \in Copy
    BY <1>0, <2>2, <2>3, SentType, PutType, ActType DEF TypeInv
  <2>5. m \notin Ids(history[u])
    <3>1. m \in Sends(act[u][s])
      BY <2>1, <2>3 DEF Sends
    <3>2. m \notin Known(u)
      BY <2>3, <3>1 DEF PlaceInv, Fitting
    <3> QED
      BY <3>2, KnownHas
  <2>6. \A x \in Id \ {m} : copy[x] = history[u][x]
    BY <1>0, <2>2 DEF Copy
  <2>7. Further(history[u], copy)
    BY <1>0, <2>4, <2>5, <2>6, FurtherAt
  <2>8. UNCHANGED <<history, overlapped>>
    BY <1>3 DEF Appended, disk, past
  <2> QED
    BY <1>0, <2>2, <2>7, <2>8, RankHolds
<1>4. CASE Opened(u, s)
  <2>1. UNCHANGED <<history, overlapped>>
    BY <1>4 DEF Opened, disk, past
  <2>2. PICK m : m = act[u][s].what.id
    OBVIOUS
  <2>3. PICK copy : copy = [history[u] EXCEPT ![m] = Absent]
    OBVIOUS
  <2>4. act' = [act EXCEPT ![u][s] = Idle] \/ Holds(u, s, "save", copy)
    BY <1>4, <2>2, <2>3 DEF Opened, Return
  <2>5. \A x \in Id : copy[x] \in {history[u][x], Absent}
    BY <1>0, <2>3 DEF Copy
  <2>6. Further(history[u], copy)
    BY <1>e, <1>s, <2>5
  <2> QED
    BY <1>0, <2>1, <2>4, <2>6, RankHolds, RankEnds
<1>5. CASE Save(u, s)
  BY <1>5, RankSaved
<1>6. CASE Fetch(u, s)
  <2>1. Others(u, s) /\ ~HasCopy(act'[u][s])
    BY <1>0, <1>6, FetchFields DEF HasCopy
  <2>2. UNCHANGED <<history, overlapped>>
    BY <1>6 DEF Fetch, disk, past
  <2> QED
    BY <2>1, <2>2, RankElsewhere
<1>7. CASE PollLoaded(u, s)
  <2>1. Holds(u, s, "handle", history[u])
    BY <1>7 DEF PollLoaded
  <2>2. UNCHANGED <<history, overlapped>>
    BY <1>7 DEF PollLoaded, disk, past
  <2> QED
    BY <1>0, <1>e, <2>1, <2>2, RankHolds
<1>8. CASE Handle(u, s)
  <2>1. PICK e : e = Head(act[u][s].batch)
    OBVIOUS
  <2>2. Others(u, s)
    BY <1>0, <1>8, <2>1, HandleFields
  <2>3. UNCHANGED <<history, overlapped>>
    BY <1>8 DEF Handle, past
  <2>4. ~overlapped[u] => Further(history[u], act'[u][s].copy)
    BY <1>8, RankHandled
  <2> QED
    BY <2>2, <2>3, <2>4, RankElsewhere
<1>9. CASE Receipt(u, s)
  <2>1. PICK m : m = Head(act[u][s].batch).id
    OBVIOUS
  <2>2. /\ Others(u, s) /\ act[u][s].step \in {"delivered", "read"}
        /\ act'[u][s].copy = act[u][s].copy
    BY <1>0, <1>9, <2>1, ReceiptFields
  <2>3. UNCHANGED <<history, overlapped>>
    BY <1>9 DEF Receipt, disk, past
  <2>4. ~overlapped[u] => Further(history[u], act'[u][s].copy)
    BY <2>2 DEF RankInv, HasCopy
  <2> QED
    BY <2>2, <2>3, <2>4, RankElsewhere
<1>10. CASE Sweep(u, s)
  <2>1. UNCHANGED <<history, overlapped>>
    BY <1>10 DEF Sweep, disk, past
  <2>2. PICK copy : copy = Alive(u, act[u][s].copy)
    OBVIOUS
  <2>3. act' = [act EXCEPT ![u][s] = Idle] \/ Holds(u, s, "save", copy)
    BY <1>10, <2>2 DEF Sweep, Return
  <2>4. act[u][s].step = "handle"
    BY <1>10 DEF Sweep
  <2>5. \A x \in Id : copy[x] \in {act[u][s].copy[x], Absent}
    BY <2>2 DEF Alive
  <2>6. ~overlapped[u] => Further(history[u], act[u][s].copy)
    BY <2>4 DEF RankInv, HasCopy
  <2>7. ~overlapped[u] => Further(history[u], copy)
    BY <1>s, <2>5, <2>6
  <2> QED
    BY <1>0, <2>1, <2>3, <2>7, RankHolds, RankEnds
<1> QED
  BY <1>1, <1>2, <1>3, <1>4, <1>5, <1>6, <1>7, <1>8, <1>9, <1>10 DEF GoesOn

LEMMA NextRank ==
  ASSUME Inv, RoleInv, PlaceInv, FlowInv, AloneInv, RankInv, [Next]_vars
  PROVE  RankInv'
<1>0. TypeInv
  BY DEF Inv
<1>1. ASSUME NEW u \in User, NEW s \in Slot, NEW op, NEW step \in {"post", "fetch"}, NEW what,
             Begin(u, s, op, step, what), history' = history
      PROVE  RankInv'
  <2>1. Others(u, s) /\ ~HasCopy(act'[u][s])
    BY <1>0, <1>1, BeginFields DEF HasCopy
  <2>2. \A v \in User : overlapped[v] => overlapped'[v]
    <3>1. /\ overlapped[u] => overlapped'[u]
          /\ \A v \in User \ {u} : overlapped'[v] = overlapped[v]
      BY <1>0, <1>1, BeginOverlaps
    <3> QED
      BY <3>1
  <2> QED
    BY <1>1, <2>1, <2>2, RankElsewhere
<1>2. ASSUME NEW u \in User, NEW s \in Handler, Act(u, s) PROVE RankInv'
  <2>1. history' = history
    BY <1>2 DEF Act, Send, OpenFile, SetTimer, disk
  <2>2. PICK op, what, step : step = "post" /\ Begin(u, s, op, step, what)
    BY <1>2 DEF Act, Send, OpenFile, SetTimer
  <2> QED
    BY <1>1, <2>1, <2>2, SlotSplit
<1>3. ASSUME NEW u \in User, NEW s \in Poller, Poll(u, s) PROVE RankInv'
  <2>1. history' = history
    BY <1>3 DEF Poll, disk
  <2>2. PICK op, what, step : step = "fetch" /\ Begin(u, s, op, step, what)
    BY <1>3 DEF Poll
  <2> QED
    BY <1>1, <2>1, <2>2, SlotSplit
<1>4. ASSUME NEW u \in User, NEW s \in Slot, Fail(u, s) PROVE RankInv'
  BY <1>0, <1>4, RankEnds DEF Fail, disk
<1>5. ASSUME NEW u \in User, Expire(u) PROVE RankInv'
  BY <1>5 DEF Expire, disk, RankInv, HasCopy, Further, Ids
<1>6. ASSUME NEW u \in User, Reopen(u) PROVE RankInv'
  <2>1. \A s \in Slot : act'[u][s] = Idle
    BY <1>0, <1>6, ReopenFields
  <2>2. \A v \in User \ {u}, s \in Slot : act'[v][s] = act[v][s]
    BY <1>0, <1>6, ReopenFields
  <2>3. UNCHANGED <<history, overlapped>>
    BY <1>6 DEF Reopen, disk
  <2>4. ~HasCopy(Idle)
    BY IdleFields DEF HasCopy
  <2>5. ASSUME NEW v \in User, NEW r \in Slot, HasCopy(act'[v][r])
        PROVE  HasCopy(act[v][r]) /\ act'[v][r] = act[v][r]
    BY <2>1, <2>2, <2>4, <2>5
  <2> QED
    BY <2>3, <2>5 DEF RankInv, Further, Ids, HasCopy
<1>7. CASE UNCHANGED vars
  BY <1>7 DEF vars, disk, past, RankInv, HasCopy, Further, Ids
<1> QED
  BY <1>2, <1>3, <1>4, <1>5, <1>6, <1>7, RankGoesOn DEF Next

LEMMA InitRank == Init => RankInv
<1> SUFFICES ASSUME Init PROVE RankInv
  OBVIOUS
<1>1. \A u \in User, s \in Slot : ~HasCopy(act[u][s])
  BY IdleFields DEF Init, HasCopy
<1> QED
  BY <1>1 DEF RankInv

LEMMA SavesOnward ==
  ASSUME Inv, RankInv, NEW u \in User, NEW s \in Slot, Save(u, s), ~overlapped[u],
         NEW m \in Ids(history[u]) \cap Ids(history'[u])
  PROVE  /\ Rank(history'[u][m].status) >= Rank(history[u][m].status)
         /\ history[u][m].expires => history'[u][m].expires
<1>1. act[u][s].step = "save" /\ history'[u] = act[u][s].copy
  BY SaveFields DEF Inv
<1>2. Further(history[u], act[u][s].copy)
  BY <1>1 DEF RankInv, HasCopy
<1> QED
  BY <1>1, <1>2 DEF Further

-----------------------------------------------------------------------------
(* A message is on its way until the peer has it *)

Got(v, m) ==
  \/ m \in Ids(history[v]) \cup due[v] \cup destroyed[v]
  \/ \E s \in Poller : m \in Ids(act[v][s].copy) /\ act[v][s].some
  \/ failed > 0 \/ clobbered[v]
ArriveInv == \A m \in Id : Sent1(m) => m \in OnWay("message") \/ Got(Peer(message[m].by), m)

Carried(a) == Posts(a, "message") \cup Marks(Pending(a), "message")

LEMMA CarriedOnWay ==
  /\ \A u \in User : Marks(queue[u], "message") \subseteq OnWay("message")
  /\ \A u \in User, s \in Slot : Carried(act[u][s]) \subseteq OnWay("message")
  /\ \A u \in User : Marks(queue'[u], "message") \subseteq OnWay("message")'
  /\ \A u \in User, s \in Slot : Carried(act'[u][s]) \subseteq OnWay("message")'
<1>1. OnWay("message")' = UNION {In(p, "message")' : p \in Place}
  BY DEF OnWay
<1>2. OnWay("message") = UNION {In(p, "message") : p \in Place}
  BY DEF OnWay
<1>3. ASSUME NEW u \in User
      PROVE  /\ Marks(queue[u], "message") \subseteq OnWay("message")
             /\ Marks(queue'[u], "message") \subseteq OnWay("message")'
  <2>1. <<"queue", u, None>> \in Place
    BY DEF Place
  <2> QED
    BY <1>1, <1>2, <2>1 DEF In
<1>4. ASSUME NEW u \in User, NEW s \in Slot
      PROVE  /\ Carried(act[u][s]) \subseteq OnWay("message")
             /\ Carried(act'[u][s]) \subseteq OnWay("message")'
  <2>1. <<"post", u, s>> \in Place /\ <<"batch", u, s>> \in Place
    BY DEF Place
  <2>2. /\ Posts(act[u][s], "message") = In(<<"post", u, s>>, "message")
        /\ Marks(Pending(act[u][s]), "message") = In(<<"batch", u, s>>, "message")
        /\ Posts(act'[u][s], "message") = In(<<"post", u, s>>, "message")'
        /\ Marks(Pending(act'[u][s]), "message") = In(<<"batch", u, s>>, "message")'
    BY InIs
  <2> QED
    BY <1>1, <1>2, <2>1, <2>2 DEF Carried
<1> QED
  BY <1>3, <1>4

LEMMA OnWayIs ==
  ASSUME NEW m \in OnWay("message")
  PROVE  \/ \E u \in User : m \in Marks(queue[u], "message")
         \/ \E u \in User, s \in Slot : m \in Carried(act[u][s])
<1>1. PICK p \in Place : m \in In(p, "message")
  BY DEF OnWay
<1>2. CASE p[1] = "queue"
  BY <1>1, <1>2 DEF In, Place
<1>3. CASE p[1] # "queue"
  <2>1. PICK u \in User, s \in Slot : p = <<"post", u, s>> \/ p = <<"batch", u, s>>
    BY <1>3 DEF Place
  <2>2. /\ In(<<"post", u, s>>, "message") = Posts(act[u][s], "message")
        /\ In(<<"batch", u, s>>, "message") = Marks(Pending(act[u][s]), "message")
    BY InIs
  <2>3. m \in Carried(act[u][s])
    BY <1>1, <2>1, <2>2 DEF Carried
  <2> QED
    BY <2>3
<1> QED
  BY <1>2, <1>3

(* A message that was sent is known, and so is who receives it *)
LEMMA SentBy ==
  ASSUME TypeInv, NEW m \in Id, Sent1(m)
  PROVE  message[m].by \in User /\ Peer(message[m].by) \in User
<1>1. message[m] \in [by : User, kind : Kinds]
  BY ActType DEF Sent1
<1> QED
  BY <1>1, PeerType

(* What leaves its place is at another, or was received *)
LEMMA ArriveNext ==
  ASSUME TypeInv, ArriveInv, NEW u \in User, NEW s \in Slot, Elsewhere(u, s),
         \A m \in Id : message'[m] # None =>
           (Sent1(m) /\ message'[m] = message[m]) \/ m \in OnWay("message")',
         \A v \in User, m \in Id : Got(v, m) => Got(v, m)',
         \A w \in User : \A m \in Marks(queue[w], "message"), v \in User :
           v = Peer(message[m].by) => m \in OnWay("message")' \/ Got(v, m)',
         \A m \in Carried(act[u][s]), v \in User :
           v = Peer(message[m].by) => m \in OnWay("message")' \/ Got(v, m)'
  PROVE  ArriveInv'
<1>1. ASSUME NEW m \in Id, message'[m] # None, m \notin OnWay("message")',
             NEW v, v = Peer(message'[m].by)
      PROVE  Got(v, m)'
  <2>1. Sent1(m) /\ message'[m] = message[m]
    BY <1>1
  <2>2. v \in User /\ v = Peer(message[m].by)
    BY <1>1, <2>1, SentBy
  <2>3. CASE Got(v, m)
    BY <1>1, <2>2, <2>3
  <2>4. CASE \E w \in User : m \in Marks(queue[w], "message")
    BY <1>1, <2>2, <2>4
  <2>5. CASE \E w \in User, r \in Slot : m \in Carried(act[w][r])
    <3>1. PICK w \in User, r \in Slot : m \in Carried(act[w][r])
      BY <2>5
    <3>2. CASE <<w, r>> = <<u, s>>
      BY <1>1, <2>2, <3>1, <3>2
    <3>3. CASE <<w, r>> # <<u, s>>
      <4>1. Looks(act'[w][r], act[w][r])
        BY <3>3 DEF Elsewhere
      <4>2. Carried(act'[w][r]) = Carried(act[w][r])
        BY <4>1, LooksSame DEF Carried
      <4> QED
        BY <1>1, <3>1, <4>2, CarriedOnWay
    <3> QED
      BY <3>2, <3>3
  <2>6. m \in OnWay("message") \/ Got(v, m)
    BY <2>1, <2>2 DEF ArriveInv
  <2> QED
    BY <2>3, <2>4, <2>5, <2>6, OnWayIs
<1> QED
  BY <1>1 DEF ArriveInv, Sent1

(* Nothing is lost where nothing is dropped *)
LEMMA GotElsewhere ==
  ASSUME NEW u \in User, NEW s \in Slot, Elsewhere(u, s),
         UNCHANGED <<history, due, destroyed, clobbered, failed>>,
         \A m \in Ids(act[u][s].copy) :
           act[u][s].some => m \in due[u] \/ (m \in Ids(act'[u][s].copy) /\ act'[u][s].some)
  PROVE  \A v \in User, m \in Id : Got(v, m) => Got(v, m)'
<1> SUFFICES ASSUME NEW v \in User, NEW m \in Id, Got(v, m) PROVE Got(v, m)'
  OBVIOUS
<1>1. CASE \E r \in Poller : m \in Ids(act[v][r].copy) /\ act[v][r].some
  <2>1. PICK r \in Poller : m \in Ids(act[v][r].copy) /\ act[v][r].some
    BY <1>1
  <2>2. CASE <<v, r>> = <<u, s>>
    <3>1. m \in due[v] \/ (m \in Ids(act'[v][r].copy) /\ act'[v][r].some)
      BY <2>1, <2>2
    <3> QED
      BY <3>1 DEF Got, Ids
  <2>3. CASE <<v, r>> # <<u, s>>
    <3>1. r \in Slot
      BY SlotSplit
    <3>2. act'[v][r].copy = act[v][r].copy /\ act'[v][r].some = act[v][r].some
      BY <2>3, <3>1 DEF Elsewhere, Looks
    <3> QED
      BY <2>1, <3>2 DEF Got, Ids
  <2> QED
    BY <2>2, <2>3
<1>2. CASE m \in Ids(history[v]) \cup due[v] \cup destroyed[v] \/ failed > 0 \/ clobbered[v]
  BY <1>2 DEF Got, Ids
<1> QED
  BY <1>1, <1>2 DEF Got

(* Nothing is sent or received *)
LEMMA ArriveKept ==
  ASSUME TypeInv, ArriveInv, NEW u \in User, NEW s \in Slot, Others(u, s),
         UNCHANGED <<history, queue, message, due, destroyed, clobbered, failed>>,
         Carried(act[u][s]) \subseteq Carried(act'[u][s]),
         \A m \in Ids(act[u][s].copy) :
           act[u][s].some => m \in due[u] \/ (m \in Ids(act'[u][s].copy) /\ act'[u][s].some)
  PROVE  ArriveInv'
<1>1. Elsewhere(u, s)
  BY OthersElsewhere
<1>2. \A v \in User, m \in Id : Got(v, m) => Got(v, m)'
  BY <1>1, GotElsewhere
<1>3. \A w \in User : \A m \in Marks(queue[w], "message") : m \in OnWay("message")'
  BY CarriedOnWay
<1>4. \A m \in Carried(act[u][s]) : m \in OnWay("message")'
  BY CarriedOnWay
<1>5. \A m \in Id : message'[m] # None => Sent1(m) /\ message'[m] = message[m]
  BY DEF Sent1
<1> QED
  BY <1>1, <1>2, <1>3, <1>4, <1>5, ArriveNext

(* An activation without envelopes carries no message *)
LEMMA CarriesNone ==
  ASSUME NEW a, a.step \notin {"post", "delivered", "read"}, a.batch = <<>>
  PROVE  Carried(a) = {}
  BY MarksEmpty DEF Carried, Pending, Posts

(* Neither does one that has not received any *)
LEMMA UserCarries ==
  ASSUME TypeInv, RoleInv, NEW u \in User, NEW s \in Slot,
         act[u][s].op # "poll" \/ act[u][s].step = "fetch",
         act[u][s].step # "post"
  PROVE  Carried(act[u][s]) = {} /\ ~act[u][s].some
<1>1. Role(s, act[u][s]) /\ ActOK(act[u][s])
  BY ActivationType DEF RoleInv
<1>2. act[u][s].some = FALSE /\ act[u][s].batch = <<>>
  BY <1>1 DEF Role, ActOK
<1>3. act[u][s].step \notin {"post", "delivered", "read"}
  BY <1>1 DEF Role
<1> QED
  BY <1>2, <1>3, CarriesNone

LEMMA MarksSplit ==
  ASSUME NEW q \in Seq(Envelope), q # <<>>, NEW type, NEW x \in Marks(q, type)
  PROVE  x \in Marks(Tail(q), type) \/ (Head(q).type = type /\ x = Head(q).id)
<1>1. PICK i \in DOMAIN q : q[i].type = type /\ q[i].id = x
  BY DEF Marks
<1>2. CASE i = 1
  BY <1>1, <1>2
<1>3. CASE i # 1
  <2>1. PICK k : k = Tail(q)
    OBVIOUS
  <2>2. i - 1 \in DOMAIN k /\ k[i - 1] = q[i]
    BY <1>1, <1>3, <2>1
  <2>3. x \in Marks(k, type)
    BY <1>1, <2>2 DEF Marks
  <2> QED
    BY <2>1, <2>3
<1> QED
  BY <1>2, <1>3

LEMMA BeginArrive ==
  ASSUME TypeInv, ArriveInv, NEW u \in User, NEW s \in Slot, NEW op, NEW step, NEW what,
         Begin(u, s, op, step, what),
         UNCHANGED <<history, queue, message, due, destroyed, clobbered, failed>>
  PROVE  ArriveInv'
<1>1. Others(u, s) /\ act[u][s] = Idle
  BY BeginFields
<1>2. Carried(Idle) = {} /\ ~Idle.some
  BY IdleFields, CarriesNone
<1> QED
  BY <1>1, <1>2, ArriveKept

LEMMA BeginTakes ==
  ASSUME TypeInv, NEW u \in User, NEW s \in Slot, NEW op, NEW step, NEW what,
         Begin(u, s, op, step, what)
  PROVE  Others(u, s) /\ act[u][s] = Idle /\ act'[u][s].step = step /\ act'[u][s].what = what
<1>1. /\ act[u][s] = Idle /\ Others(u, s)
      /\ act'[u][s].op = op /\ act'[u][s].step = step /\ act'[u][s].what = what
      /\ act'[u][s].batch = <<>> /\ act'[u][s].copy = Empty /\ act'[u][s].some = FALSE
      /\ act'[u][s].stale = FALSE
  BY BeginFields, Zenon
<1> QED
  BY <1>1

LEMMA SentArrive ==
  ASSUME TypeInv, ArriveInv, NEW u \in User, NEW s \in Slot, NEW op, NEW step, NEW what,
         Others(u, s), act[u][s] = Idle, act'[u][s].step = step, act'[u][s].what = what,
         step = "post", what.type = "message", NEW m \in Id, what.id = m,
         NEW kind \in Kinds, message' = [message EXCEPT ![m] = [by |-> u, kind |-> kind]],
         UNCHANGED <<history, queue, due, destroyed, clobbered, failed>>
  PROVE  ArriveInv'
<1>3. UNCHANGED <<history, queue, due, destroyed, clobbered, failed>>
  OBVIOUS
<1>4. Carried(act[u][s]) = {} /\ ~act[u][s].some
  BY IdleFields, CarriesNone
<1>5. m \in Carried(act'[u][s])
  BY DEF Carried, Posts
<1>6. \A x \in Id \ {m} : message'[x] = message[x]
  BY ActType
<1>7. \A x \in Id : message'[x] # None => (Sent1(x) /\ message'[x] = message[x]) \/ x \in OnWay("message")'
  BY <1>5, <1>6, CarriedOnWay DEF Sent1
<1>8. Elsewhere(u, s)
  BY OthersElsewhere
<1>9. \A v \in User, x \in Id : Got(v, x) => Got(v, x)'
  BY <1>3, <1>4, <1>8, GotElsewhere
<1>10. \A w \in User : \A x \in Marks(queue[w], "message") : x \in OnWay("message")'
  BY <1>3, CarriedOnWay
<1> QED
  BY <1>4, <1>7, <1>8, <1>9, <1>10, ArriveNext

LEMMA SendArrive ==
  ASSUME TypeInv, ArriveInv, NEW u \in User, NEW s \in Slot, Send(u, s)
  PROVE  ArriveInv'
<1>1. PICK m \in Id, kind \in Kinds :
        /\ message' = [message EXCEPT ![m] = [by |-> u, kind |-> kind]]
        /\ Begin(u, s, "send", "post", [type |-> "message", id |-> m])
  BY DEF Send
<1>2. PICK op, step, what :
        step = "post" /\ what.type = "message" /\ what.id = m /\ Begin(u, s, op, step, what)
  BY <1>1
<1>3. UNCHANGED <<history, queue, due, destroyed, clobbered, failed>>
  BY DEF Send, disk
<1>4. TypeInv /\ ArriveInv
  OBVIOUS
<1>5. Begin(u, s, op, step, what)
  BY <1>2
<1>6. Others(u, s) /\ act[u][s] = Idle /\ act'[u][s].step = step /\ act'[u][s].what = what
  BY ONLY <1>4, <1>5, u \in User, s \in Slot, BeginTakes
<1> QED
  BY <1>1, <1>2, <1>3, <1>4, <1>6, SentArrive

LEMMA PostedArrive ==
  ASSUME TypeInv, ArriveInv, NEW u \in User, NEW s \in Slot, Posted(u, s)
  PROVE  ArriveInv'
<1> PICK e, v : e = act[u][s].what /\ v = Peer(u)
  OBVIOUS
<1>1. /\ Others(u, s) /\ Alike(act'[u][s], act[u][s])
      /\ act[u][s].step = "post" /\ act'[u][s].step \in {"load", "set"}
      /\ act'[u][s].copy = act[u][s].copy /\ act'[u][s].batch = act[u][s].batch
      /\ e \in Envelope
      /\ queue'[v] = Append(queue[v], e)
      /\ \A w \in User \ {v} : queue'[w] = queue[w]
      /\ v \in User
  BY PostedFields
<1>2. UNCHANGED <<history, message, due, destroyed, clobbered, failed>>
  BY DEF Posted, disk
<1>3. Elsewhere(u, s)
  BY <1>1, OthersElsewhere
<1>4. \A w \in User, x \in Id : Got(w, x) => Got(w, x)'
  BY <1>1, <1>2, <1>3, GotElsewhere DEF Alike
<1>5. /\ Marks(queue[v], "message") \subseteq Marks(queue'[v], "message")
      /\ e.type = "message" => e.id \in Marks(queue'[v], "message")
  <2>1. queue[v] \in Seq(Envelope) /\ e \in Envelope
    BY <1>1, ActType
  <2>2. /\ Marks(queue[v], "message") \subseteq Marks(Append(queue[v], e), "message")
        /\ e.type = "message" =>
             Marks(Append(queue[v], e), "message") = Marks(queue[v], "message") \cup {e.id}
    BY ONLY <2>1, MarksAppend
  <2> QED
    BY <1>1, <2>2
<1>6. \A w \in User : \A x \in Marks(queue[w], "message") : x \in OnWay("message")'
  <2> SUFFICES ASSUME NEW w \in User, NEW x \in Marks(queue[w], "message")
               PROVE  x \in Marks(queue'[w], "message")
    BY CarriedOnWay
  <2> QED
    BY <1>1, <1>5
<1>7. \A x \in Carried(act[u][s]) : x \in OnWay("message")'
  <2> SUFFICES ASSUME NEW x \in Carried(act[u][s])
               PROVE  x \in Carried(act'[u][s]) \/ x \in Marks(queue'[v], "message")
    BY <1>1, CarriedOnWay
  <2>1. CASE x \in Posts(act[u][s], "message")
    BY <1>5, <2>1 DEF Posts
  <2>2. CASE x \in Marks(Pending(act[u][s]), "message")
    <3>1. Pending(act'[u][s]) = Pending(act[u][s])
      BY <1>1 DEF Pending
    <3> QED
      BY <2>2, <3>1 DEF Carried
  <2> QED
    BY <2>1, <2>2 DEF Carried
<1>8. \A x \in Id : message'[x] # None => Sent1(x) /\ message'[x] = message[x]
  BY <1>2 DEF Sent1
<1> QED
  BY <1>3, <1>4, <1>6, <1>7, <1>8, ArriveNext

LEMMA SaveArrive ==
  ASSUME Inv, RoleInv, ArriveInv, NEW u \in User, NEW s \in Slot, Save(u, s)
  PROVE  ArriveInv'
<1>0. TypeInv /\ Role(s, act[u][s])
  BY DEF Inv, RoleInv
<1>1. /\ act[u][s].step = "save" /\ act'[u][s] = Idle
      /\ history'[u] = act[u][s].copy
      /\ \A v \in User \ {u} :
           history'[v] = history[v] /\ destroyed'[v] = destroyed[v] /\ clobbered'[v] = clobbered[v]
      /\ clobbered'[u] = (clobbered[u] \/ act[u][s].stale)
  BY <1>0, SaveFields
<1>2. destroyed'[u] = destroyed[u] \cup IF act[u][s].op = "open" THEN {act[u][s].what.id} ELSE {}
  BY <1>0, SaveFields
<1>3. UNCHANGED <<queue, message, due, failed>>
  BY DEF Save
<1>4. Elsewhere(u, s)
  BY <1>0, SaveElsewhere
<1>5. Carried(act[u][s]) = {}
  BY <1>0, <1>1, CarriesNone DEF Role
<1>6. ASSUME NEW v \in User, NEW m \in Id, Got(v, m) PROVE Got(v, m)'
  <2>1. CASE m \in Ids(history[v])
    <3>1. CASE v # u
      BY <1>1, <2>1, <3>1 DEF Got, Ids
    <3>2. CASE v = u
      <4>1. CASE act[u][s].stale
        BY <1>1, <3>2, <4>1 DEF Got
      <4>2. CASE ~act[u][s].stale
        <5>1. Comes(act[u][s], history[u], due[u])
          BY DEF Inv, HoldInv
        <5>2. m \in Ids(act[u][s].copy) \/ m \in due[u] \/ (act[u][s].op = "open" /\ act[u][s].what.id = m)
          BY <1>1, <2>1, <3>2, <4>2, <5>1 DEF Comes
        <5>3. m \in Ids(history'[u]) \cup due'[u] \cup destroyed'[u]
          BY <1>1, <1>2, <1>3, <5>2
        <5> QED
          BY <3>2, <5>3 DEF Got, Ids
      <4> QED
        BY <4>1, <4>2
    <3> QED
      BY <3>1, <3>2
  <2>2. CASE m \in due[v] \cup destroyed[v] \/ failed > 0 \/ clobbered[v]
    <3>1. destroyed[v] \subseteq destroyed'[v] /\ (clobbered[v] => clobbered'[v])
      BY <1>1, <1>2
    <3> QED
      BY <1>3, <2>2, <3>1 DEF Got
  <2>3. CASE \E r \in Poller : m \in Ids(act[v][r].copy) /\ act[v][r].some
    <3>1. PICK r \in Poller : m \in Ids(act[v][r].copy) /\ act[v][r].some
      BY <2>3
    <3>2. CASE <<v, r>> = <<u, s>>
      <4>1. m \in Ids(history'[v])
        BY <1>1, <3>1, <3>2
      <4> QED
        BY <4>1 DEF Got, Ids
    <3>3. CASE <<v, r>> # <<u, s>>
      <4>1. act'[v][r].copy = act[v][r].copy /\ act'[v][r].some = act[v][r].some
        BY <1>4, <3>3, SlotSplit DEF Elsewhere, Looks
      <4> QED
        BY <3>1, <4>1 DEF Got, Ids
    <3> QED
      BY <3>2, <3>3
  <2> QED
    BY <1>6, <2>1, <2>2, <2>3 DEF Got
<1>7. \A w \in User : \A x \in Marks(queue[w], "message") : x \in OnWay("message")'
  BY <1>3, CarriedOnWay
<1>8. \A x \in Id : message'[x] # None => Sent1(x) /\ message'[x] = message[x]
  BY <1>3 DEF Sent1
<1> QED
  BY <1>0, <1>4, <1>5, <1>6, <1>7, <1>8, ArriveNext

LEMMA FetchArrive ==
  ASSUME Inv, RoleInv, ArriveInv, NEW u \in User, NEW s \in Slot, Fetch(u, s)
  PROVE  ArriveInv'
<1>0. TypeInv /\ Role(s, act[u][s])
  BY DEF Inv, RoleInv
<1>1. /\ Others(u, s) /\ act[u][s].step = "fetch" /\ act'[u][s].step = "load"
      /\ act'[u][s].batch = queue[u]
      /\ queue'[u] = <<>> /\ \A v \in User \ {u} : queue'[v] = queue[v]
  BY <1>0, FetchFields
<1>2. UNCHANGED <<history, message, due, destroyed, clobbered, failed>>
  BY DEF Fetch, disk, past
<1>3. Elsewhere(u, s)
  BY <1>1, OthersElsewhere
<1>4. Carried(act[u][s]) = {} /\ ~act[u][s].some
  BY <1>0, <1>1, UserCarries
<1>5. \A v \in User, x \in Id : Got(v, x) => Got(v, x)'
  BY <1>2, <1>3, <1>4, GotElsewhere
<1>6. \A w \in User : \A x \in Marks(queue[w], "message") : x \in OnWay("message")'
  <2> SUFFICES ASSUME NEW w \in User, NEW x \in Marks(queue[w], "message")
               PROVE  x \in Carried(act'[u][s]) \/ x \in Marks(queue'[w], "message")
    BY CarriedOnWay
  <2>1. Pending(act'[u][s]) = queue[u]
    BY <1>1 DEF Pending
  <2> QED
    BY <1>1, <2>1 DEF Carried
<1>7. \A x \in Id : message'[x] # None => Sent1(x) /\ message'[x] = message[x]
  BY <1>2 DEF Sent1
<1> QED
  BY <1>0, <1>3, <1>4, <1>5, <1>6, <1>7, ArriveNext

LEMMA HandleArrive ==
  ASSUME Inv, RoleInv, PlaceInv, ArriveInv, NEW u \in User, NEW s \in Slot, Handle(u, s)
  PROVE  ArriveInv'
<1>0. TypeInv /\ TypeOK /\ SpotInv /\ Role(s, act[u][s])
  BY DEF Inv, TypeInv, PlaceInv, RoleInv
<1> PICK e : e = Head(act[u][s].batch)
  OBVIOUS
<1>1. /\ Others(u, s) /\ Alike(act'[u][s], act[u][s])
      /\ act[u][s].step = "handle" /\ act[u][s].batch # <<>> /\ act[u][s].some
      /\ e \in Envelope
      /\ Takes(u, act[u][s].copy, act'[u][s].copy, e)
      /\ \/ act'[u][s].step = "handle" /\ act'[u][s].batch = Tail(act[u][s].batch)
         \/ act'[u][s].step = "delivered" /\ act'[u][s].batch = act[u][s].batch
  BY <1>0, HandleFields
<1>2. act[u][s].batch \in Seq(Envelope) /\ act[u][s].copy \in Copy
  BY <1>0, ActivationType
<1>3. /\ Ids(act[u][s].copy) \subseteq Ids(act'[u][s].copy)
      /\ e.type = "message" => e.id \in Ids(act'[u][s].copy)
  <2>1. PICK old, new : old = act[u][s].copy /\ new = act'[u][s].copy
    OBVIOUS
  <2>2. TypeOK /\ old \in Copy /\ Takes(u, old, new, e) /\ e \in Envelope
    BY <1>0, <1>1, <1>2, <2>1
  <2>3. Ids(old) \subseteq Ids(new) /\ (e.type = "message" => e.id \in Ids(new))
    BY ONLY <2>2, TakesAt
  <2> QED
    BY <2>1, <2>3
<1>4. act'[u][s].some /\ s \in Poller
  BY <1>0, <1>1 DEF Alike, Role
<1>5. UNCHANGED <<history, queue, message, due, destroyed, clobbered, failed>>
  BY DEF Handle, past
<1>6. Elsewhere(u, s)
  BY <1>1, OthersElsewhere
<1>7. \A v \in User, x \in Id : Got(v, x) => Got(v, x)'
  BY <1>3, <1>4, <1>5, <1>6, GotElsewhere
<1>8. \A w \in User : \A x \in Marks(queue[w], "message") : x \in OnWay("message")'
  BY <1>5, CarriedOnWay
<1>9. ASSUME NEW x \in Carried(act[u][s]), NEW v \in User, v = Peer(message[x].by)
      PROVE  x \in OnWay("message")' \/ Got(v, x)'
  <2>1. x \in Marks(act[u][s].batch, "message")
    BY <1>1, <1>9 DEF Carried, Posts, Pending
  <2>2. Pending(act'[u][s]) = Tail(act[u][s].batch)
    BY <1>1 DEF Pending
  <2>3. CASE x \in Marks(Tail(act[u][s].batch), "message")
    BY <2>2, <2>3, CarriedOnWay DEF Carried
  <2>4. CASE e.type = "message" /\ x = e.id
    <3>1. <<"batch", u, s>> \in Place /\ x \in In(<<"batch", u, s>>, "message")
      BY <1>1, <2>1, PlaceIs DEF In, Pending
    <3>2. u = v
      BY <1>0, <1>9, <3>1 DEF SpotInv, Owner
    <3>3. x \in Ids(act'[u][s].copy)
      BY <1>3, <2>4
    <3> QED
      BY <1>4, <3>2, <3>3 DEF Got, Ids
  <2> QED
    BY <1>1, <1>2, <2>1, <2>3, <2>4, MarksSplit
<1>10. \A x \in Id : message'[x] # None => Sent1(x) /\ message'[x] = message[x]
  BY <1>5 DEF Sent1
<1> QED
  BY <1>0, <1>6, <1>7, <1>8, <1>9, <1>10, ArriveNext

LEMMA ReceiptArrive ==
  ASSUME Inv, ArriveInv, NEW u \in User, NEW s \in Slot, Receipt(u, s)
  PROVE  ArriveInv'
<1>0. TypeInv
  BY DEF Inv
<1> PICK m : m = Head(act[u][s].batch).id
  OBVIOUS
<1> PICK v, e : v = Peer(u) /\ e = [type |-> act[u][s].step, id |-> m]
  OBVIOUS
<1>1. /\ Others(u, s) /\ Alike(act'[u][s], act[u][s]) /\ act'[u][s].copy = act[u][s].copy
      /\ act[u][s].step \in {"delivered", "read"}
      /\ act[u][s].step = "delivered" =>
           act'[u][s].step = "read" /\ act'[u][s].batch = act[u][s].batch
      /\ act[u][s].step = "read" =>
           act'[u][s].step = "handle" /\ act'[u][s].batch = Tail(act[u][s].batch)
      /\ e \in Envelope
      /\ queue'[v] = Append(queue[v], e)
      /\ \A w \in User \ {v} : queue'[w] = queue[w]
      /\ v \in User
  BY <1>0, ReceiptFields
<1>2. UNCHANGED <<history, message, due, destroyed, clobbered, failed>>
  BY DEF Receipt, disk, past
<1>3. Elsewhere(u, s)
  BY <1>1, OthersElsewhere
<1>4. \A w \in User, x \in Id : Got(w, x) => Got(w, x)'
  BY <1>1, <1>2, <1>3, GotElsewhere DEF Alike
<1>5. Marks(queue[v], "message") \subseteq Marks(queue'[v], "message")
  <2>1. queue[v] \in Seq(Envelope)
    BY <1>0, <1>1, ActType
  <2> QED
    BY <1>1, <2>1, MarksAppend
<1>6. \A w \in User : \A x \in Marks(queue[w], "message") : x \in OnWay("message")'
  <2> SUFFICES ASSUME NEW w \in User, NEW x \in Marks(queue[w], "message")
               PROVE  x \in Marks(queue'[w], "message")
    BY CarriedOnWay
  <2> QED
    BY <1>1, <1>5
<1>7. \A x \in Carried(act[u][s]) : x \in OnWay("message")'
  <2>1. Carried(act[u][s]) \subseteq Carried(act'[u][s])
    BY <1>1 DEF Carried, Posts, Pending
  <2> QED
    BY <2>1, CarriedOnWay
<1>8. \A x \in Id : message'[x] # None => Sent1(x) /\ message'[x] = message[x]
  BY <1>2 DEF Sent1
<1> QED
  BY <1>0, <1>3, <1>4, <1>6, <1>7, <1>8, ArriveNext

LEMMA GoesOnArrive ==
  ASSUME Inv, RoleInv, PlaceInv, ArriveInv, NEW u \in User, NEW s \in Slot, GoesOn(u, s)
  PROVE  ArriveInv'
<1>0. TypeInv /\ Role(s, act[u][s])
  BY DEF Inv, RoleInv
<1>e. ASSUME act' = [act EXCEPT ![u][s] = Idle], Carried(act[u][s]) = {}, ~act[u][s].some,
             UNCHANGED <<history, queue, message, due, destroyed, clobbered, failed>>
      PROVE  ArriveInv'
  BY <1>0, <1>e, EndFields, ArriveKept
<1>h. ASSUME NEW step, NEW copy, Holds(u, s, step, copy), Carried(act[u][s]) = {}, ~act[u][s].some,
             UNCHANGED <<history, queue, message, due, destroyed, clobbered, failed>>
      PROVE  ArriveInv'
  BY <1>0, <1>h, HoldsFields, ArriveKept
<1>1. CASE TimerSet(u, s)
  <2>1. act[u][s].op = "timer" /\ act[u][s].step = "set"
    BY <1>0, <1>1 DEF TimerSet, TypeInv, ActOK
  <2>2. Carried(act[u][s]) = {} /\ ~act[u][s].some
    BY <1>0, <2>1, UserCarries
  <2> QED
    BY <1>1, <1>e, <2>2 DEF TimerSet, past
<1>2. CASE Appended(u, s)
  <2>1. Carried(act[u][s]) = {} /\ ~act[u][s].some
    BY <1>0, <1>2, UserCarries DEF Appended
  <2>2. PICK copy : Holds(u, s, "save", copy)
    BY <1>2 DEF Appended
  <2> QED
    BY <1>2, <1>h, <2>1, <2>2 DEF Appended, disk, past
<1>3. CASE Opened(u, s)
  <2>1. Carried(act[u][s]) = {} /\ ~act[u][s].some
    BY <1>0, <1>3, UserCarries DEF Opened
  <2>2. act' = [act EXCEPT ![u][s] = Idle] \/ \E copy : Holds(u, s, "save", copy)
    BY <1>3 DEF Opened, Return
  <2>3. UNCHANGED <<history, queue, message, due, destroyed, clobbered, failed>>
    BY <1>3 DEF Opened, disk, past
  <2> QED
    BY <1>e, <1>h, <2>1, <2>2, <2>3
<1>4. CASE PollLoaded(u, s)
  <2>1. Holds(u, s, "handle", history[u]) /\ act[u][s].step = "load"
    BY <1>4 DEF PollLoaded
  <2>2. act[u][s].copy = Empty
    BY <1>0, <2>1 DEF Role
  <2>3. /\ Others(u, s) /\ act'[u][s].step = "handle" /\ act'[u][s].batch = act[u][s].batch
    BY <1>0, <2>1, HoldsFields
  <2>4. Carried(act[u][s]) \subseteq Carried(act'[u][s])
    BY <2>1, <2>3 DEF Carried, Posts, Pending
  <2>5. UNCHANGED <<history, queue, message, due, destroyed, clobbered, failed>>
    BY <1>4 DEF PollLoaded, disk, past
  <2> QED
    BY <1>0, <2>2, <2>3, <2>4, <2>5, EmptyType, ArriveKept
<1>5. CASE Sweep(u, s)
  <2>1. PICK alive : alive = Alive(u, act[u][s].copy)
    OBVIOUS
  <2>2. /\ act[u][s].step = "handle" /\ act[u][s].batch = <<>>
        /\ \/ Holds(u, s, "save", alive)
           \/ ~act[u][s].some /\ act' = [act EXCEPT ![u][s] = Idle]
    BY <1>5, <2>1 DEF Sweep, Return
  <2>3. UNCHANGED <<history, queue, message, due, destroyed, clobbered, failed>>
    BY <1>5 DEF Sweep, disk, past
  <2>4. Carried(act[u][s]) = {}
    BY <2>2, CarriesNone
  <2>5. CASE Holds(u, s, "save", alive)
    <3>1. Others(u, s) /\ act'[u][s].copy = alive /\ act'[u][s].some = act[u][s].some
      BY <1>0, <2>5, HoldsFields DEF Alike
    <3>2. \A m \in Ids(act[u][s].copy) : m \in due[u] \/ m \in Ids(act'[u][s].copy)
      BY <2>1, <3>1 DEF Alive, Ids
    <3> QED
      BY <1>0, <2>3, <2>4, <3>1, <3>2, ArriveKept
  <2> QED
    BY <1>e, <2>2, <2>3, <2>4, <2>5
<1> QED
  BY <1>0, <1>1, <1>2, <1>3, <1>4, <1>5, PostedArrive, SaveArrive, FetchArrive, HandleArrive,
     ReceiptArrive DEF GoesOn

LEMMA NextArrive ==
  ASSUME Inv, RoleInv, PlaceInv, ArriveInv, [Next]_vars
  PROVE  ArriveInv'
<1>0. TypeInv
  BY DEF Inv
<1>f. ASSUME Failed PROVE ArriveInv'
  <2>1. failed' > 0
    BY <1>0, <1>f DEF Failed, TypeInv, TypeOK
  <2> QED
    BY <2>1 DEF ArriveInv, Got
<1>s. ASSUME UNCHANGED <<history, act, queue, message, destroyed, clobbered, failed>>,
             \A v \in User : due[v] \subseteq due'[v]
      PROVE  ArriveInv'
  <2>1. OnWay("message")' = OnWay("message")
    BY <1>s DEF OnWay, In
  <2>2. ASSUME NEW m \in Id, message'[m] # None, m \notin OnWay("message")',
               NEW v, v = Peer(message'[m].by)
        PROVE  Got(v, m)'
    <3>1. Sent1(m)
      BY <1>s, <2>2 DEF Sent1
    <3>2. v \in User /\ Got(v, m)
      BY <1>0, <1>s, <2>1, <2>2, <3>1, SentBy DEF ArriveInv
    <3> QED
      BY <1>s, <3>2 DEF Got, Ids
  <2> QED
    BY <2>2 DEF ArriveInv, Sent1
<1>1. ASSUME NEW u \in User, NEW s \in Handler, Act(u, s) PROVE ArriveInv'
  <2>1. CASE Send(u, s)
    BY <1>0, <2>1, SlotSplit, SendArrive
  <2>2. CASE OpenFile(u, s)
    <3>1. PICK op, step, what : Begin(u, s, op, step, what)
      BY <2>2 DEF OpenFile
    <3> QED
      BY <1>0, <2>2, <3>1, SlotSplit, BeginArrive DEF OpenFile, disk
  <2>3. CASE SetTimer(u, s)
    <3>1. PICK op, step, what : Begin(u, s, op, step, what)
      BY <2>3 DEF SetTimer
    <3> QED
      BY <1>0, <2>3, <3>1, SlotSplit, BeginArrive DEF SetTimer, disk
  <2> QED
    BY <1>1, <2>1, <2>2, <2>3 DEF Act
<1>2. ASSUME NEW u \in User, NEW s \in Poller, Poll(u, s) PROVE ArriveInv'
  <2>1. PICK op, step, what : Begin(u, s, op, step, what)
    BY <1>2 DEF Poll
  <2> QED
    BY <1>0, <1>2, <2>1, SlotSplit, BeginArrive DEF Poll, disk
<1>3. ASSUME NEW u \in User, NEW s \in Slot, Fail(u, s) PROVE ArriveInv'
  BY <1>3, <1>f DEF Fail
<1>4. ASSUME NEW u \in User, Expire(u) PROVE ArriveInv'
  <2>1. \A v \in User : due[v] \subseteq due'[v]
    BY <1>0, <1>4, ActType DEF Expire
  <2> QED
    BY <1>4, <1>s, <2>1 DEF Expire, disk
<1>5. ASSUME NEW u \in User, Reopen(u) PROVE ArriveInv'
  <2>1. CASE Busy(u)
    BY <1>5, <1>f, <2>1 DEF Reopen
  <2>2. CASE ~Busy(u)
    <3>1. act' = act
      <4>1. act[u] = [s \in Slot |-> Idle]
        BY <1>0, <2>2, ActType DEF Busy
      <4> QED
        BY <1>0, <1>5, <4>1, ActType DEF Reopen
    <3> QED
      BY <1>5, <1>s, <2>2, <3>1 DEF Reopen, disk
  <2> QED
    BY <2>1, <2>2
<1>6. CASE UNCHANGED vars
  BY <1>6, <1>s DEF vars, disk, past
<1> QED
  BY <1>1, <1>2, <1>3, <1>4, <1>5, <1>6, GoesOnArrive DEF Next

LEMMA InitArrive == Init => ArriveInv
  BY DEF Init, ArriveInv, Sent1

LEMMA ReadReceived ==
  ASSUME TypeInv, PlaceInv, FlowInv, ArriveInv, NEW u \in User, NEW m \in Ids(history[u]),
         history[u][m].status = "read"
  PROVE  \/ m \in Ids(history[Peer(u)]) \/ m \in due[Peer(u)]
         \/ \E s \in Poller : m \in Ids(act[Peer(u)][s].copy)
         \/ failed > 0 \/ clobbered[Peer(u)]
<1>0. FactInv /\ OrderInv /\ SpotInv
  BY DEF PlaceInv, FlowInv
<1>1. m \in Id /\ m \in StatusBy(u, "read")
  BY DEF Ids, StatusBy, StatusIn
<1>2. Sent1(m) /\ message[m].by = u /\ ~File(m)
  BY <1>0, <1>1, KnownHas DEF FactInv, SpotInv
<1>3. m \notin OnWay("message")
  BY <1>0, <1>1 DEF OrderInv, Reads
<1>4. Got(Peer(u), m)
  BY <1>1, <1>2, <1>3 DEF ArriveInv
<1>5. m \notin destroyed[Peer(u)]
  BY <1>0, <1>2, PeerType DEF SpotInv
<1> QED
  BY <1>4, <1>5 DEF Got

-----------------------------------------------------------------------------
(* Theorems *)

ReceiptsInv == PlacesInv /\ AloneInv /\ FlowInv /\ RankInv /\ ArriveInv

LEMMA InitReceipts == Init => ReceiptsInv
  BY InitPlacesInv, InitAlone, InitFlow, InitRank, InitArrive DEF ReceiptsInv

LEMMA NextReceipts == ReceiptsInv /\ [Next]_vars => ReceiptsInv'
<1> SUFFICES ASSUME ReceiptsInv, [Next]_vars PROVE ReceiptsInv'
  OBVIOUS
<1>1. PlacesInv' /\ Inv /\ TypeInv /\ RoleInv /\ PlaceInv
  BY NextPlacesInv DEF ReceiptsInv, PlacesInv, Inv
<1>2. AloneInv'
  BY <1>1, NextAlone DEF ReceiptsInv
<1>3. FlowInv' /\ RankInv' /\ ArriveInv'
  BY <1>1, NextFlow, NextRank, NextArrive DEF ReceiptsInv
<1> QED
  BY <1>1, <1>2, <1>3 DEF ReceiptsInv

(* As long as the handlers and polls of a page do not overlap, receipts bring *)
(* the status of a message only forward, in whichever order polls fetch them, *)
(* and what makes a message disappear stays set.                              *)
THEOREM StatusOnward == Spec => Onward
<1> DEFINE A == \A u \in User : \A m \in Ids(history[u]) \cap Ids(history'[u]) :
                  \/ overlapped[u]
                  \/ /\ Rank(history'[u][m].status) >= Rank(history[u][m].status)
                     /\ history[u][m].expires => history'[u][m].expires
<1>1. ReceiptsInv /\ [Next]_vars => [A]_vars
  <2> SUFFICES ASSUME ReceiptsInv, Next, NEW u \in User, ~overlapped[u],
                      NEW m \in Ids(history[u]) \cap Ids(history'[u])
               PROVE  /\ Rank(history'[u][m].status) >= Rank(history[u][m].status)
                      /\ history[u][m].expires => history'[u][m].expires
    BY DEF vars
  <2>1. CASE \E w \in User, s \in Slot : Save(w, s)
    <3>1. PICK w \in User, s \in Slot : Save(w, s)
      BY <2>1
    <3>2. CASE w = u
      BY <3>1, <3>2, SavesOnward DEF ReceiptsInv, PlacesInv
    <3>3. CASE w # u
      <4>1. history'[u] = history[u]
        BY <3>1, <3>3, SaveFields DEF ReceiptsInv, PlacesInv, Inv
      <4> QED
        BY <4>1, RankIs
    <3> QED
      BY <3>2, <3>3
  <2>2. CASE history' = history
    BY <2>2, RankIs
  <2> QED
    BY <2>1, <2>2, OnlySaves
<1> QED
  BY <1>1, InitReceipts, NextReceipts, PTL DEF Spec, Onward

(* A message that was sent is at its sender, at the server or in the batch of *)
(* a poll until the peer has it, to keep, to delete once it has expired or    *)
(* was opened; only an activation that fails or is overtaken may lose it.     *)
THEOREM SentArrives == Spec => []ArriveInv
<1>1. ReceiptsInv => ArriveInv
  BY DEF ReceiptsInv
<1> QED
  BY <1>1, InitReceipts, NextReceipts, PTL DEF Spec

(* A text that its sender sees as read is in the history of its recipient, or *)
(* in a poll that is about to save it: handling a text and its receipts one   *)
(* after the other never reports as read what the recipient does not get, as  *)
(* long as no activation fails or is overtaken.                               *)
THEOREM ReadIsKept == Spec => []Told
<1>1. ReceiptsInv => Told
  BY ReadReceived DEF ReceiptsInv, PlacesInv, Inv, Told
<1> QED
  BY <1>1, InitReceipts, NextReceipts, PTL DEF Spec

=============================================================================
