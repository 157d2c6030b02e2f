-------------------------- MODULE HistoryAgreeProofs --------------------------
(***************************************************************************)
(* The users of History agree once nothing is under way.  As long as       *)
(* nothing failed and no activations of a page overlapped (Good), a page   *)
(* does one thing after the other, and each invariant follows one thing    *)
(* that a message or a timer brings: what its sender keeps (KeepInv), its  *)
(* receipts (AckInv), and where the timer of both users ends (TimerInv).   *)
(***************************************************************************)
EXTENDS HistoryReceiptsProofs

-----------------------------------------------------------------------------
(* Until activations of a page overlap, no copy goes stale *)

CleanInv ==
  \A u \in User : ~overlapped[u] => ~clobbered[u] /\ \A s \in Slot : ~act[u][s].stale

LEMMA CleanElsewhere ==
  ASSUME CleanInv, NEW u \in User, NEW s \in Slot, Others(u, s), clobbered' = clobbered,
         \A v \in User : overlapped[v] => overlapped'[v],
         act'[u][s].stale => act[u][s].stale
  PROVE  CleanInv'
<1> SUFFICES ASSUME NEW v \in User, ~overlapped'[v], NEW r \in Slot
             PROVE  ~clobbered'[v] /\ ~act'[v][r].stale
  BY DEF CleanInv
<1>1. ~clobbered[v] /\ ~act[v][r].stale
  BY DEF CleanInv
<1>2. <<v, r>> = <<u, s>> \/ act'[v][r] = act[v][r]
  BY DEF Others
<1> QED
  BY <1>1, <1>2

LEMMA GoesOnStale ==
  ASSUME TypeInv, NEW u \in User, NEW s \in Slot, GoesOn(u, s), ~Save(u, s)
  PROVE  Others(u, s) /\ clobbered' = clobbered /\ (act'[u][s].stale => act[u][s].stale)
<1>1. ASSUME NEW step, NEW copy, Holds(u, s, step, copy)
      PROVE  Others(u, s) /\ act'[u][s].stale = act[u][s].stale
  BY <1>1, HoldsFields DEF Alike
<1>2. ASSUME act' = [act EXCEPT ![u][s] = Idle]
      PROVE  Others(u, s) /\ ~act'[u][s].stale
  BY <1>2, EndFields, IdleFields
<1>3. clobbered' = clobbered
  BY DEF GoesOn, Posted, TimerSet, Appended, Opened, Fetch, PollLoaded, Handle, Receipt, Sweep, past
<1>4. CASE Posted(u, s)
  BY <1>3, <1>4, PostedFields DEF Alike
<1>5. CASE TimerSet(u, s)
  BY <1>2, <1>3, <1>5 DEF TimerSet
<1>6. CASE Appended(u, s) \/ PollLoaded(u, s)
  BY <1>1, <1>3, <1>6 DEF Appended, PollLoaded
<1>7. CASE Opened(u, s) \/ Sweep(u, s)
  <2>1. act' = [act EXCEPT ![u][s] = Idle] \/ \E step, copy : Holds(u, s, step, copy)
    BY <1>7 DEF Opened, Sweep, Return
  <2> QED
    BY <1>1, <1>2, <1>3, <2>1
<1>8. CASE Fetch(u, s)
  BY <1>3, <1>8, FetchFields
<1>9. CASE Handle(u, s)
  BY <1>3, <1>9, HandleFields DEF Alike
<1>10. CASE Receipt(u, s)
  BY <1>3, <1>10, ReceiptFields DEF Alike
<1> QED
  BY <1>4, <1>5, <1>6, <1>7, <1>8, <1>9, <1>10 DEF GoesOn

LEMMA SaveStale ==
  ASSUME TypeInv, AloneInv, CleanInv, NEW u \in User, NEW s \in Slot, Save(u, s)
  PROVE  CleanInv'
<1>1. PICK h : h = [r \in Slot |-> IF r = s THEN Idle ELSE [act[u][r] EXCEPT !.stale = @ \/ Holding(u, r)]]
  OBVIOUS
<1>2. act' = [act EXCEPT ![u] = h] /\ clobbered' = [clobbered EXCEPT ![u] = @ \/ act[u][s].stale]
  BY <1>1 DEF Save
<1>3. overlapped' = overlapped /\ act[u][s].step = "save"
  BY DEF Save
<1> SUFFICES ASSUME NEW v \in User, ~overlapped[v], NEW r \in Slot
             PROVE  ~clobbered'[v] /\ ~act'[v][r].stale
  BY <1>3 DEF CleanInv
<1>4. ~clobbered[v] /\ \A q \in Slot : ~act[v][q].stale
  BY DEF CleanInv
<1>5. CASE v # u
  BY <1>2, <1>4, <1>5, ActType
<1>6. CASE v = u
  <2>1. ~clobbered'[v]
    BY <1>2, <1>4, <1>6, ActType
  <2>2. act'[v][r] = h[r]
    BY <1>2, <1>6, ActType
  <2>3. CASE r = s
    BY <1>1, <2>1, <2>2, <2>3, IdleFields
  <2>4. CASE r # s
    <3>1. act[u][s] # Idle
      BY <1>3, IdleFields
    <3>2. act[u][r] = Idle
      BY <1>6, <2>4, <3>1 DEF AloneInv
    <3>3. ~Holding(u, r)
      BY <3>2, IdleFields DEF Holding
    <3>4. h[r] = [Idle EXCEPT !.stale = @ \/ Holding(u, r)]
      BY <1>1, <2>4, <3>2
    <3>5. h[r].stale = FALSE
      BY <3>3, <3>4 DEF Idle
    <3> QED
      BY <2>1, <2>2, <3>5
  <2> QED
    BY <2>3, <2>4
<1> QED
  BY <1>5, <1>6

LEMMA NextClean ==
  ASSUME TypeInv, AloneInv, CleanInv, [Next]_vars
  PROVE  CleanInv'
<1>1. ASSUME NEW u \in User, NEW s \in Slot, Act(u, s) \/ Poll(u, s) PROVE CleanInv'
  <2>1. PICK op, step, what : Begin(u, s, op, step, what)
    BY <1>1 DEF Act, Send, OpenFile, SetTimer, Poll
  <2>2. Others(u, s) /\ ~act'[u][s].stale
    BY <2>1, BeginFields
  <2>3. \A v \in User : overlapped[v] => overlapped'[v]
    BY <2>1, BeginOverlaps
  <2>4. clobbered' = clobbered
    BY <1>1 DEF Act, Send, OpenFile, SetTimer, Poll
  <2> QED
    BY <2>2, <2>3, <2>4, CleanElsewhere
<1>2. ASSUME NEW u \in User, NEW s \in Slot, GoesOn(u, s) PROVE CleanInv'
  BY <1>2, SaveStale, GoesOnStale, GoesOnFields, CleanElsewhere
<1>3. ASSUME NEW u \in User, NEW s \in Slot, Fail(u, s) PROVE CleanInv'
  <2>1. Others(u, s) /\ ~act'[u][s].stale
    BY <1>3, EndFields, IdleFields DEF Fail
  <2>2. clobbered' = clobbered /\ overlapped' = overlapped
    BY <1>3 DEF Fail
  <2> QED
    BY <2>1, <2>2, CleanElsewhere
<1>4. ASSUME NEW u \in User, Expire(u) PROVE CleanInv'
  BY <1>4 DEF Expire, CleanInv
<1>5. ASSUME NEW u \in User, Reopen(u) PROVE CleanInv'
  <2>1. clobbered' = clobbered /\ overlapped' = overlapped
    BY <1>5 DEF Reopen
  <2>2. \A v \in User, r \in Slot : act'[v][r] = act[v][r] \/ ~act'[v][r].stale
    BY <1>5, ReopenFields, IdleFields
  <2> QED
    BY <2>1, <2>2 DEF CleanInv
<1>6. CASE UNCHANGED vars
  BY <1>6 DEF vars, past, CleanInv
<1> QED
  BY <1>1, <1>2, <1>3, <1>4, <1>5, <1>6, SlotSplit DEF Next

LEMMA InitClean == Init => CleanInv
  BY IdleFields DEF Init, CleanInv

-----------------------------------------------------------------------------
(* As long as nothing failed and no activations overlapped, a page does one *)
(* thing after the other                                                    *)

Good == failed = 0 /\ \A u \in User : ~overlapped[u]
AllIdle(u) == \A s \in Slot : act[u][s] = Idle
Only(u, s) == \A r \in Slot \ {s} : act[u][r] = Idle
Rests ==
  /\ UNCHANGED <<disk, queue, message, destroyed, crossed>>
  /\ \A u \in User : due[u] \subseteq due'[u]
  /\ \A u \in User, s \in Slot : act'[u][s] = act[u][s]

LEMMA GoodStep ==
  ASSUME TypeInv, AloneInv, [Next]_vars, Good'
  PROVE  /\ Good
         /\ \/ \E u \in User, s \in Slot : (Act(u, s) \/ Poll(u, s)) /\ AllIdle(u)
            \/ \E u \in User, s \in Slot : GoesOn(u, s) /\ Only(u, s)
            \/ Rests
<1>0. failed \in Nat
  BY DEF TypeInv, TypeOK
<1>1. ASSUME NEW u \in User, NEW s \in Slot, Act(u, s) \/ Poll(u, s)
      PROVE  Good /\ AllIdle(u)
  <2>1. PICK op, step, what : Begin(u, s, op, step, what)
    BY <1>1 DEF Act, Send, OpenFile, SetTimer, Poll
  <2>2. ~overlapped[u] /\ ~Busy(u)
    BY <2>1, BeginOverlaps DEF Good
  <2>3. \A v \in User \ {u} : overlapped'[v] = overlapped[v]
    BY <2>1, BeginOverlaps
  <2>4. failed' = failed
    BY <1>1 DEF Act, Send, OpenFile, SetTimer, Poll
  <2> QED
    BY <2>2, <2>3, <2>4 DEF Good, AllIdle, Busy
<1>2. ASSUME NEW u \in User, NEW s \in Slot, GoesOn(u, s)
      PROVE  Good /\ Only(u, s)
  <2>1. overlapped' = overlapped /\ act[u][s] # Idle
    BY <1>2, GoesOnFields
  <2>2. failed' = failed
    BY <1>2 DEF GoesOn, Posted, TimerSet, Appended, Opened, Save, Fetch, PollLoaded, Handle, Receipt,
                Sweep, past
  <2>3. Good
    BY <2>1, <2>2 DEF Good
  <2> QED
    BY <2>1, <2>3 DEF Good, Only, AloneInv
<1>3. ASSUME NEW u \in User, NEW s \in Slot, Fail(u, s) PROVE FALSE
  <2>1. failed' = failed + 1
    BY <1>3 DEF Fail, Failed
  <2> QED
    BY <1>0, <2>1 DEF Good
<1>4. ASSUME NEW u \in User, Expire(u) PROVE Good /\ Rests
  <2>1. \A v \in User : due[v] \subseteq due'[v]
    BY <1>4, ActType DEF Expire
  <2> QED
    BY <1>4, <2>1 DEF Expire, Good, Rests, disk
<1>5. ASSUME NEW u \in User, Reopen(u) PROVE Good /\ Rests
  <2>1. ~Busy(u) /\ failed' = failed
    BY <1>0, <1>5 DEF Reopen, Failed, Good
  <2>2. \A v \in User, s \in Slot : act'[v][s] = act[v][s]
    BY <1>5, <2>1, ReopenFields DEF Busy
  <2> QED
    BY <1>5, <2>1, <2>2 DEF Reopen, Good, Rests
<1>6. CASE UNCHANGED vars
  BY <1>6 DEF vars, past, Good, Rests
<1> QED
  BY <1>1, <1>2, <1>3, <1>4, <1>5, <1>6, SlotSplit DEF Next

-----------------------------------------------------------------------------
(* What a user has to receive, at the server and in the batches of polls *)

Mail(u, type) == Marks(queue[u], type) \cup UNION {Marks(Pending(act[u][s]), type) : s \in Slot}

LEMMA MailHas ==
  ASSUME NEW u \in User, NEW type
  PROVE  /\ Marks(queue[u], type) \subseteq Mail(u, type)
         /\ \A s \in Slot : Marks(Pending(act[u][s]), type) \subseteq Mail(u, type)
         /\ Marks(queue'[u], type) \subseteq Mail(u, type)'
         /\ \A s \in Slot : Marks(Pending(act'[u][s]), type) \subseteq Mail(u, type)'
<1>1. Mail(u, type)' = Marks(queue'[u], type) \cup UNION {Marks(Pending(act'[u][s]), type) : s \in Slot}
  BY DEF Mail
<1> QED
  BY <1>1 DEF Mail

LEMMA MailElsewhere ==
  ASSUME NEW u \in User, NEW s \in Slot, Elsewhere(u, s), NEW type, NEW X,
         \A v \in User : Marks(queue[v], type) \subseteq Mail(v, type)',
         Marks(Pending(act[u][s]), type) \subseteq Mail(u, type)' \cup X
  PROVE  \A v \in User : Mail(v, type) \subseteq Mail(v, type)' \cup (IF v = u THEN X ELSE {})
<1> SUFFICES ASSUME NEW v \in User, NEW r \in Slot
             PROVE  Marks(Pending(act[v][r]), type) \subseteq Mail(v, type)' \cup (IF v = u THEN X ELSE {})
  BY DEF Mail
<1>1. CASE <<v, r>> = <<u, s>>
  BY <1>1
<1>2. CASE <<v, r>> # <<u, s>>
  <2>1. Looks(act'[v][r], act[v][r])
    BY <1>2 DEF Elsewhere
  <2>2. Pending(act'[v][r]) = Pending(act[v][r])
    BY <2>1, LooksSame
  <2> QED
    BY <2>2, MailHas
<1> QED
  BY <1>1, <1>2

LEMMA MailSame ==
  ASSUME NEW u \in User, NEW s \in Slot, Elsewhere(u, s), queue' = queue,
         Pending(act[u][s]) = Pending(act'[u][s]) \/ Pending(act[u][s]) = <<>>, NEW type
  PROVE  \A v \in User : Mail(v, type) \subseteq Mail(v, type)'
<1>1. \A v \in User : Marks(queue[v], type) \subseteq Mail(v, type)'
  BY MailHas
<1>2. Marks(Pending(act[u][s]), type) \subseteq Mail(u, type)'
  BY MailHas, MarksEmpty
<1>3. \A v \in User : Mail(v, type) \subseteq Mail(v, type)' \cup (IF v = u THEN {} ELSE {})
  BY <1>1, <1>2, MailElsewhere
<1> QED
  BY <1>3

LEMMA PostedMail ==
  ASSUME TypeInv, NEW u \in User, NEW s \in Slot, Posted(u, s), NEW type
  PROVE  /\ \A v \in User : Mail(v, type) \subseteq Mail(v, type)'
         /\ \A v \in User : v = Peer(u) => Posts(act[u][s], type) \subseteq Mail(v, type)'
<1> PICK e, w : e = act[u][s].what /\ w = Peer(u)
  OBVIOUS
<1>1. /\ Others(u, s) /\ act[u][s].step = "post" /\ act'[u][s].step \in {"load", "set"}
      /\ act'[u][s].batch = act[u][s].batch /\ e \in Envelope
      /\ queue'[w] = Append(queue[w], e) /\ \A v \in User \ {w} : queue'[v] = queue[v]
      /\ w \in User
  BY PostedFields
<1>2. queue[w] \in Seq(Envelope)
  BY <1>1, ActType
<1>3. /\ Marks(queue[w], type) \subseteq Marks(queue'[w], type)
      /\ e.type = type => e.id \in Marks(queue'[w], type)
  <2>1. PICK q, p : q = queue[w] /\ p = Append(q, e)
    OBVIOUS
  <2>2. /\ Marks(q, type) \subseteq Marks(p, type)
        /\ e.type = type => Marks(p, type) = Marks(q, type) \cup {e.id}
    BY <1>1, <1>2, <2>1, MarksAppend
  <2> QED
    BY <1>1, <2>1, <2>2
<1>4. \A v \in User : Marks(queue[v], type) \subseteq Mail(v, type)'
  BY <1>1, <1>3, MailHas
<1>5. Pending(act'[u][s]) = Pending(act[u][s])
  BY <1>1 DEF Pending
<1>6. Elsewhere(u, s)
  BY <1>1, OthersElsewhere
<1>7. Marks(Pending(act[u][s]), type) \subseteq Mail(u, type)'
  BY <1>5, MailHas
<1>8. \A v \in User : Mail(v, type) \subseteq Mail(v, type)' \cup (IF v = u THEN {} ELSE {})
  BY <1>4, <1>6, <1>7, MailElsewhere
<1>9. Posts(act[u][s], type) \subseteq Marks(queue'[w], type)
  BY <1>1, <1>3 DEF Posts
<1>10. Posts(act[u][s], type) \subseteq Mail(w, type)'
  BY <1>1, <1>9, MailHas
<1>11. \A v \in User : Mail(v, type) \subseteq Mail(v, type)'
  BY <1>8
<1>12. \A v \in User : v = Peer(u) => Posts(act[u][s], type) \subseteq Mail(v, type)'
  BY <1>10
<1> QED
  BY <1>11, <1>12

LEMMA ReceiptMail ==
  ASSUME TypeInv, NEW u \in User, NEW s \in Slot, Receipt(u, s), NEW type
  PROVE  /\ \A v \in User : Mail(v, type) \subseteq Mail(v, type)'
         /\ \A v \in User : v = Peer(u) /\ act[u][s].step = type =>
              Head(act[u][s].batch).id \in Mail(v, type)'
<1> PICK m, w, step : m = Head(act[u][s].batch).id /\ w = Peer(u) /\ step = act[u][s].step
  OBVIOUS
<1> PICK e : e = [type |-> step, id |-> m]
  OBVIOUS
<1>1. /\ Others(u, s) /\ step \in {"delivered", "read"}
      /\ step = "delivered" => act'[u][s].step = "read" /\ act'[u][s].batch = act[u][s].batch
      /\ step = "read" => act'[u][s].step = "handle" /\ act'[u][s].batch = Tail(act[u][s].batch)
      /\ e \in Envelope /\ w \in User
      /\ queue'[w] = Append(queue[w], e) /\ \A v \in User \ {w} : queue'[v] = queue[v]
  BY ReceiptFields
<1>2. queue[w] \in Seq(Envelope)
  BY <1>1, ActType
<1>3. /\ Marks(queue[w], type) \subseteq Marks(queue'[w], type)
      /\ step = type => m \in Marks(queue'[w], type)
  <2>1. e.type = step /\ e.id = m
    OBVIOUS
  <2>2. PICK q, p : q = queue[w] /\ p = Append(q, e)
    OBVIOUS
  <2>3. /\ Marks(q, type) \subseteq Marks(p, type)
        /\ e.type = type => Marks(p, type) = Marks(q, type) \cup {e.id}
    BY <1>1, <1>2, <2>2, MarksAppend
  <2> QED
    BY <1>1, <2>1, <2>2, <2>3
<1>4. \A v \in User : Marks(queue[v], type) \subseteq Mail(v, type)'
  BY <1>1, <1>3, MailHas
<1>5. Pending(act'[u][s]) = Pending(act[u][s])
  BY <1>1 DEF Pending
<1>6. Elsewhere(u, s)
  BY <1>1, OthersElsewhere
<1>7. Marks(Pending(act[u][s]), type) \subseteq Mail(u, type)'
  BY <1>5, MailHas
<1>8. \A v \in User : Mail(v, type) \subseteq Mail(v, type)' \cup (IF v = u THEN {} ELSE {})
  BY <1>4, <1>6, <1>7, MailElsewhere
<1>9. step = type => m \in Mail(w, type)'
  BY <1>1, <1>3, MailHas
<1>10. \A v \in User : Mail(v, type) \subseteq Mail(v, type)'
  BY <1>8
<1>11. \A v \in User : v = Peer(u) /\ step = type => m \in Mail(v, type)'
  BY <1>9
<1> QED
  BY <1>10, <1>11

LEMMA FetchMail ==
  ASSUME TypeInv, RoleInv, NEW u \in User, NEW s \in Slot, Fetch(u, s), NEW type
  PROVE  \A v \in User : Mail(v, type) \subseteq Mail(v, type)'
<1>1. /\ Others(u, s) /\ act[u][s].step = "fetch" /\ act'[u][s].step = "load"
      /\ act'[u][s].batch = queue[u] /\ \A v \in User \ {u} : queue'[v] = queue[v]
  BY FetchFields
<1>2. Pending(act[u][s]) = <<>>
  <2>1. ~act[u][s].some
    BY <1>1 DEF RoleInv, Role
  <2>2. act[u][s].batch = <<>>
    BY <2>1, ActivationType DEF ActOK
  <2> QED
    BY <1>1, <2>2 DEF Pending
<1>3. Pending(act'[u][s]) = queue[u]
  BY <1>1 DEF Pending
<1>4. \A v \in User : Marks(queue[v], type) \subseteq Mail(v, type)'
  <2> SUFFICES ASSUME NEW v \in User PROVE Marks(queue[v], type) \subseteq Mail(v, type)'
    OBVIOUS
  <2>1. CASE v = u
    BY <1>3, <2>1, MailHas
  <2>2. CASE v # u
    BY <1>1, <2>2, MailHas
  <2> QED
    BY <2>1, <2>2
<1>5. Elsewhere(u, s)
  BY <1>1, OthersElsewhere
<1>6. Marks(Pending(act[u][s]), type) \subseteq Mail(u, type)'
  BY <1>2, MarksEmpty
<1>7. \A v \in User : Mail(v, type) \subseteq Mail(v, type)' \cup (IF v = u THEN {} ELSE {})
  BY <1>4, <1>5, <1>6, MailElsewhere
<1> QED
  BY <1>7

LEMMA HandleMail ==
  ASSUME TypeInv, NEW u \in User, NEW s \in Slot, Handle(u, s), NEW type
  PROVE  \A v \in User : \A m \in Mail(v, type) :
           \/ m \in Mail(v, type)'
           \/ v = u /\ Head(act[u][s].batch).type = type /\ Head(act[u][s].batch).id = m
<1> PICK e, q : e = Head(act[u][s].batch) /\ q = act[u][s].batch
  OBVIOUS
<1>1. /\ Others(u, s) /\ act[u][s].step = "handle" /\ q # <<>>
      /\ \/ act'[u][s].step = "handle" /\ act'[u][s].batch = Tail(q)
         \/ act'[u][s].step = "delivered" /\ act'[u][s].batch = q
  BY HandleFields
<1>2. Pending(act[u][s]) = q /\ Pending(act'[u][s]) = Tail(q)
  BY <1>1 DEF Pending
<1>3. q \in Seq(Envelope)
  BY ActivationType
<1>4. Elsewhere(u, s)
  BY <1>1, OthersElsewhere
<1>5. PICK X : X = {m \in Id : e.type = type /\ e.id = m} \cup {m \in Marks(q, type) : e.type = type /\ e.id = m}
  OBVIOUS
<1>6. Marks(q, type) \subseteq Marks(Tail(q), type) \cup X
  BY <1>1, <1>3, <1>5, MarksSplit
<1>7. Marks(Pending(act[u][s]), type) \subseteq Mail(u, type)' \cup X
  BY <1>2, <1>6, MailHas
<1>8. queue' = queue
  BY DEF Handle
<1>9. \A v \in User : Marks(queue[v], type) \subseteq Mail(v, type)'
  BY <1>8, MailHas
<1>10. \A v \in User : Mail(v, type) \subseteq Mail(v, type)' \cup (IF v = u THEN X ELSE {})
  BY <1>4, <1>7, <1>9, MailElsewhere
<1> QED
  BY <1>5, <1>10

(* A step on a message leaves the rest of the mail where it is *)
LEMMA GoesOnMail ==
  ASSUME TypeInv, RoleInv, NEW u \in User, NEW s \in Slot, GoesOn(u, s), NEW type
  PROVE  \A v \in User : \A m \in Mail(v, type) :
           \/ m \in Mail(v, type)'
           \/ /\ v = u /\ Handle(u, s)
              /\ Head(act[u][s].batch).type = type /\ Head(act[u][s].batch).id = m
<1>0. Role(s, act[u][s]) /\ ActOK(act[u][s])
  BY ActivationType DEF RoleInv
<1>1. ASSUME NEW step, NEW copy, Holds(u, s, step, copy), queue' = queue,
             act[u][s].step \notin {"delivered", "read"}, step \notin {"delivered", "read"}
      PROVE  \A v \in User : Mail(v, type) \subseteq Mail(v, type)'
  <2>1. Others(u, s) /\ act'[u][s].step = step /\ act'[u][s].batch = act[u][s].batch
    BY <1>1, HoldsFields
  <2>2. Pending(act'[u][s]) = Pending(act[u][s])
    BY <1>1, <2>1 DEF Pending
  <2>3. Elsewhere(u, s)
    BY <2>1, OthersElsewhere
  <2> QED
    BY <1>1, <2>2, <2>3, MailSame
<1>2. ASSUME act' = [act EXCEPT ![u][s] = Idle], queue' = queue, act[u][s].batch = <<>>
      PROVE  \A v \in User : Mail(v, type) \subseteq Mail(v, type)'
  <2>1. Elsewhere(u, s)
    BY <1>2, EndFields, OthersElsewhere
  <2>2. Pending(act[u][s]) = <<>>
    BY <1>0, <1>2 DEF Pending, ActOK
  <2> QED
    BY <1>2, <2>1, <2>2, MailSame
<1>3. CASE Posted(u, s)
  BY <1>3, PostedMail
<1>4. CASE TimerSet(u, s)
  <2>1. ~act[u][s].some
    BY <1>0, <1>4 DEF TimerSet, Role, ActOK
  <2> QED
    BY <1>0, <1>2, <1>4, <2>1 DEF TimerSet, ActOK
<1>5. CASE Appended(u, s) \/ PollLoaded(u, s)
  BY <1>1, <1>5 DEF Appended, PollLoaded
<1>6. CASE Opened(u, s)
  <2>1. act[u][s].step = "load" /\ queue' = queue /\ act[u][s].batch = <<>>
    BY <1>0, <1>6 DEF Opened, Role, ActOK
  <2>2. act' = [act EXCEPT ![u][s] = Idle] \/ \E copy : Holds(u, s, "save", copy)
    BY <1>6 DEF Opened, Return
  <2> QED
    BY <1>1, <1>2, <2>1, <2>2
<1>7. CASE Sweep(u, s)
  <2>1. act[u][s].step = "handle" /\ queue' = queue /\ act[u][s].batch = <<>>
    BY <1>7 DEF Sweep
  <2>2. act' = [act EXCEPT ![u][s] = Idle] \/ \E copy : Holds(u, s, "save", copy)
    BY <1>7 DEF Sweep, Return
  <2> QED
    BY <1>1, <1>2, <2>1, <2>2
<1>8. CASE Save(u, s)
  <2>1. queue' = queue /\ Elsewhere(u, s) /\ act[u][s].step = "save"
    BY <1>8, SaveElsewhere DEF Save
  <2>2. Pending(act[u][s]) = <<>>
    BY <1>0, <2>1 DEF Role, Pending
  <2> QED
    BY <2>1, <2>2, MailSame
<1>9. CASE Fetch(u, s)
  BY <1>9, FetchMail
<1>10. CASE Handle(u, s)
  BY <1>10, HandleMail
<1>11. CASE Receipt(u, s)
  BY <1>11, ReceiptMail
<1> QED
  BY <1>3, <1>4, <1>5, <1>6, <1>7, <1>8, <1>9, <1>10, <1>11 DEF GoesOn

-----------------------------------------------------------------------------
(* Who sent a message keeps it *)

Keeps(u, m) ==
  \/ m \in Ids(history[u]) \cup due[u]
  \/ \E s \in Slot : /\ m \in Sends(act[u][s])
                     /\ act[u][s].step = "save" => m \in Ids(act[u][s].copy)
KeepInv == Good => \A m \in Id : message[m] # None => \A u \in User : u = message[m].by => Keeps(u, m)

LEMMA KeepsElsewhere ==
  ASSUME NEW u \in User, NEW s \in Slot, Elsewhere(u, s), NEW w \in User, w # u, NEW m, Keeps(w, m),
         history'[w] = history[w], due[w] \subseteq due'[w]
  PROVE  Keeps(w, m)'
<1>1. CASE m \in Ids(history[w]) \cup due[w]
  <2>1. m \in Ids(history'[w]) \cup due'[w]
    BY <1>1
  <2> QED
    BY <2>1 DEF Keeps
<1>2. CASE \E r \in Slot : /\ m \in Sends(act[w][r])
                           /\ act[w][r].step = "save" => m \in Ids(act[w][r].copy)
  <2>1. PICK r \in Slot : /\ m \in Sends(act[w][r])
                          /\ act[w][r].step = "save" => m \in Ids(act[w][r].copy)
    BY <1>2
  <2>2. Looks(act'[w][r], act[w][r])
    BY DEF Elsewhere
  <2>3. Sends(act'[w][r]) = Sends(act[w][r])
    BY <2>2, LooksSame
  <2>4. m \in Sends(act'[w][r]) /\ (act'[w][r].step = "save" => m \in Ids(act'[w][r].copy))
    BY <2>1, <2>2, <2>3 DEF Looks
  <2> QED
    BY <2>4 DEF Keeps
<1> QED
  BY <1>1, <1>2 DEF Keeps

LEMMA GoesOnKeeps ==
  ASSUME Inv, RoleInv, PlaceInv, CleanInv, Good, NEW u \in User, NEW s \in Slot, GoesOn(u, s), Only(u, s),
         NEW m \in Id, message[m].by = u, Keeps(u, m)
  PROVE  Keeps(u, m)'
<1>0. TypeInv /\ Role(s, act[u][s]) /\ ActOK(act[u][s]) /\ ~act[u][s].stale /\ Fitting(u, s)
  BY ActivationType DEF Inv, RoleInv, CleanInv, Good, PlaceInv
<1>1. \A r \in Slot : m \in Sends(act[u][r]) => r = s
  BY IdleLooks DEF Only
<1>2. due' = due /\ (~Save(u, s) => history' = history)
  BY DEF GoesOn, Posted, TimerSet, Appended, Opened, Save, Fetch, PollLoaded, Handle, Receipt, Sweep,
         disk, past
<1>3. CASE Save(u, s)
  <2>1. act[u][s].step = "save" /\ history'[u] = act[u][s].copy
    BY <1>0, <1>3, SaveFields
  <2>2. m \in Ids(history[u]) => m \in Ids(act[u][s].copy) \/ m \in due[u]
    BY <1>0, <2>1 DEF Inv, HoldInv, Comes, Fitting
  <2>3. m \in Ids(act[u][s].copy) \/ m \in due[u]
    BY <1>1, <2>1, <2>2 DEF Keeps
  <2>4. m \in Ids(history'[u]) \cup due'[u]
    BY <1>2, <2>1, <2>3
  <2> QED
    BY <2>4 DEF Keeps
<1>4. CASE ~Save(u, s)
  <2>1. CASE m \in Ids(history[u]) \cup due[u]
    <3>1. m \in Ids(history'[u]) \cup due'[u]
      BY <1>2, <1>4, <2>1
    <3> QED
      BY <3>1 DEF Keeps
  <2>2. CASE m \in Sends(act[u][s])
    <3>1. act[u][s].op = "send" /\ act[u][s].what.id = m
      BY <2>2 DEF Sends
    <3>2. Posted(u, s) \/ Appended(u, s)
      BY <1>0, <1>4, <3>1 DEF GoesOn, TimerSet, Opened, Fetch, PollLoaded, Handle, Receipt, Sweep, Role, ActOK
    <3>3. CASE Posted(u, s)
      <4>1. act'[u][s].op = "send" /\ act'[u][s].what = act[u][s].what /\ act'[u][s].step # "save"
        BY <1>0, <3>1, <3>3, PostedFields DEF Alike
      <4>2. m \in Sends(act'[u][s])
        BY <3>1, <4>1 DEF Sends
      <4> QED
        BY <4>1, <4>2 DEF Keeps
    <3>4. CASE Appended(u, s)
      <4>1. PICK copy : copy = [history[u] EXCEPT ![m] = Sent(u, m)] /\ Holds(u, s, "save", copy)
        BY <3>1, <3>4 DEF Appended
      <4>2. /\ act'[u][s].op = "send" /\ act'[u][s].what = act[u][s].what /\ act'[u][s].copy = copy
        BY <1>0, <3>1, <4>1, HoldsFields DEF Alike
      <4>3. copy[m] = Sent(u, m)
        BY <1>0, <4>1, ActType DEF Copy
      <4>4. m \in Ids(copy)
        BY <1>0, <4>3, SentType, AbsentIsNone DEF TypeInv, Ids
      <4>5. m \in Sends(act'[u][s]) /\ m \in Ids(act'[u][s].copy)
        BY <3>1, <4>2, <4>4 DEF Sends
      <4> QED
        BY <4>5 DEF Keeps
    <3> QED
      BY <3>2, <3>3, <3>4
  <2> QED
    BY <1>1, <2>1, <2>2 DEF Keeps
<1> QED
  BY <1>3, <1>4

-----------------------------------------------------------------------------
(* A receipt that has reached its sender *)

Fits(c, m, st) == c[m] = Absent \/ c[m].status = st
WillSave(a) == HasCopy(a) /\ (a.some \/ a.step = "save")
Noted(u, m, st) ==
  /\ \A s \in Slot : /\ m \notin Sends(act[u][s])
                     /\ HasCopy(act[u][s]) => Fits(act[u][s].copy, m, st)
  /\ Fits(history[u], m, st) \/ \E s \in Slot : WillSave(act[u][s])

LEMMA IdleNotes == \A m : m \notin Sends(Idle) /\ ~HasCopy(Idle) /\ ~WillSave(Idle)
  BY IdleFields, IdleLooks DEF HasCopy, WillSave

LEMMA LooksNotes ==
  ASSUME NEW a, NEW b, Looks(a, b), NEW m, NEW st
  PROVE  /\ Sends(a) = Sends(b) /\ HasCopy(a) = HasCopy(b) /\ WillSave(a) = WillSave(b)
         /\ Fits(a.copy, m, st) = Fits(b.copy, m, st)
<1>1. a.op = b.op /\ a.step = b.step /\ a.what = b.what /\ a.some = b.some /\ a.copy = b.copy
  BY DEF Looks
<1> QED
  BY <1>1 DEF Sends, HasCopy, WillSave, Fits

LEMMA NotedElsewhere ==
  ASSUME NEW u \in User, NEW s \in Slot, Elsewhere(u, s), NEW w \in User, w # u, NEW m, NEW st,
         Noted(w, m, st), history'[w] = history[w]
  PROVE  Noted(w, m, st)'
<1>1. \A r \in Slot : Looks(act'[w][r], act[w][r])
  BY DEF Elsewhere
<1>2. \A r \in Slot : m \notin Sends(act'[w][r]) /\ (HasCopy(act'[w][r]) => Fits(act'[w][r].copy, m, st))
  BY <1>1, LooksNotes DEF Noted
<1>3. Fits(history'[w], m, st) \/ \E r \in Slot : WillSave(act'[w][r])
  BY <1>1, LooksNotes DEF Noted
<1> QED
  BY <1>2, <1>3 DEF Noted, HasCopy, WillSave, Fits, Sends

LEMMA NotedNext ==
  ASSUME NEW u \in User, NEW s \in Slot, Only(u, s), Elsewhere(u, s), NEW m, NEW st,
         m \notin Sends(act'[u][s]), HasCopy(act'[u][s]) => Fits(act'[u][s].copy, m, st),
         Fits(history'[u], m, st) \/ WillSave(act'[u][s])
  PROVE  Noted(u, m, st)'
<1>1. ASSUME NEW r \in Slot
      PROVE  m \notin Sends(act'[u][r]) /\ (HasCopy(act'[u][r]) => Fits(act'[u][r].copy, m, st))
  <2>1. CASE r = s
    BY <2>1
  <2>2. CASE r # s
    <3>1. Looks(act'[u][r], Idle)
      BY <2>2 DEF Only, Elsewhere
    <3> QED
      BY <3>1, LooksNotes, IdleNotes
  <2> QED
    BY <2>1, <2>2
<1> QED
  BY <1>1 DEF Noted, HasCopy, WillSave, Fits, Sends

LEMMA NotedOnly ==
  ASSUME NEW u \in User, NEW s \in Slot, Only(u, s), NEW m, NEW st, Noted(u, m, st)
  PROVE  /\ m \notin Sends(act[u][s]) /\ (HasCopy(act[u][s]) => Fits(act[u][s].copy, m, st))
         /\ Fits(history[u], m, st) \/ WillSave(act[u][s])
<1>1. \A r \in Slot : WillSave(act[u][r]) => r = s
  BY IdleNotes DEF Only
<1> QED
  BY <1>1 DEF Noted

(* The receipt that tells the end of a message *)
Last(m, st) == IF File(m) THEN st = "opened" ELSE st = "read"

LEMMA NotedHandle ==
  ASSUME Inv, RoleInv, PlaceInv, FlowInv, Good, NEW u \in User, NEW s \in Slot, Handle(u, s), Only(u, s),
         NEW m \in Id, message[m].by = u, NEW st \in {"read", "opened"}, Last(m, st),
         NEW e, e = Head(act[u][s].batch),
         Noted(u, m, st) \/ (e.id = m /\ e.type = IF st = "read" THEN "read" ELSE "file-opened")
  PROVE  Noted(u, m, st)'
<1>0. TypeInv /\ TypeOK /\ SpotInv /\ FactInv /\ OrderInv /\ ~overlapped[u]
  BY DEF Inv, TypeInv, PlaceInv, FlowInv, Good
<1> PICK old, new : old = act[u][s].copy /\ new = act'[u][s].copy
  OBVIOUS
<1>1. /\ Others(u, s) /\ Alike(act'[u][s], act[u][s])
      /\ act[u][s].step = "handle" /\ act[u][s].batch # <<>> /\ act[u][s].some
      /\ e \in Envelope /\ Takes(u, old, new, e) /\ act'[u][s].step \in {"handle", "delivered"}
  BY <1>0, HandleFields
<1>a. TypeOK /\ u \in User /\ old \in Copy /\ e \in Envelope /\ Takes(u, old, new, e)
  BY <1>0, <1>1, ActivationType
<1>2. /\ e.type = "timer" => new = old
      /\ e.type # "timer" => \A x \in Id \ {e.id} : new[x] = old[x]
      /\ e.type \notin {"timer", "message"} =>
           new[e.id] = IF old[e.id] = Absent \/ message[e.id].by # u THEN old[e.id]
                       ELSE Marked(old[e.id], e.type)
  BY ONLY <1>a, TakesAt
<1>3. act[u][s].op = "poll" /\ act'[u][s].op = "poll" /\ WillSave(act'[u][s]) /\ HasCopy(act[u][s])
  BY <1>1 DEF RoleInv, Role, Alike, WillSave, HasCopy
<1>4. Pending(act[u][s]) = act[u][s].batch /\ act[u][s].batch \in Seq(Envelope)
  BY <1>0, <1>1, ActivationType DEF Pending
<1>5. e.id \in Marks(Pending(act[u][s]), e.type)
  BY <1>1, <1>4, MarksTail
<1>6. /\ In(<<"batch", u, s>>, e.type) = Marks(Pending(act[u][s]), e.type)
      /\ <<"batch", u, s>> \in Place
  BY PlaceIs DEF In
<1>7. e.id \in In(<<"batch", u, s>>, e.type) /\ e.id \in OnWay(e.type)
  BY <1>5, <1>6, InOnWay
<1>8. ASSUME e.id = m PROVE e.type # "message"
  <2>1. SUFFICES ASSUME e.type = "message" PROVE FALSE
    OBVIOUS
  <2>2. u = Peer(message[m].by)
    BY <1>0, <1>6, <1>7, <1>8, <2>1 DEF SpotInv, Owner
  <2> QED
    BY <2>2, PeerIsNot
<1>9. CASE new[m] = old[m] /\ Noted(u, m, st)
  <2>1. Fits(new, m, st)
    BY <1>3, <1>9, NotedOnly DEF Fits
  <2>2. m \notin Sends(act'[u][s])
    BY <1>3 DEF Sends
  <2> QED
    BY <1>1, <1>3, <2>1, <2>2, OthersElsewhere, NotedNext
<1>10. CASE new[m] # old[m] \/ ~Noted(u, m, st)
  <2>1. e.id = m /\ e.type # "timer"
    BY <1>2, <1>10
  <2>2. e.type \in {"delivered", "read", "file-opened"}
    BY <1>1, <1>8, <2>1 DEF Envelope
  <2>3. e.type = IF st = "read" THEN "read" ELSE "file-opened"
    <3>1. CASE ~Noted(u, m, st)
      BY <3>1
    <3>2. CASE Noted(u, m, st)
      <4>1. CASE st = "opened"
        <5>1. File(m)
          BY <4>1 DEF Last
        <5> QED
          BY <1>0, <1>7, <2>1, <2>2, <4>1, <5>1 DEF FactInv
      <4>2. CASE st = "read"
        <5>1. ~File(m)
          BY <4>2 DEF Last
        <5>2. e.type # "file-opened"
          BY <1>0, <1>7, <2>1, <5>1 DEF FactInv
        <5>3. ASSUME e.type = "delivered" PROVE FALSE
          <6>1. m \in Ahead(u)
            BY <1>5, <2>1, <5>3 DEF Ahead
          <6>2. old[m] # Absent
            BY <1>2, <1>10, <2>1, <2>2, <3>2
          <6>3. old[m].status = "read"
            BY <1>3, <3>2, <4>2, <6>2, NotedOnly DEF Fits
          <6>4. m \in StatusBy(u, "read")
            BY <6>3 DEF StatusBy, StatusIn
          <6> QED
            BY <1>0, <6>1, <6>4 DEF OrderInv
        <5> QED
          BY <2>2, <4>2, <5>2, <5>3
      <4> QED
        BY <4>1, <4>2
    <3> QED
      BY <3>1, <3>2
  <2>4. Fits(new, m, st)
    <3>1. CASE old[m] = Absent
      BY <1>2, <2>1, <2>2, <3>1 DEF Fits
    <3>2. CASE old[m] # Absent
      <4>1. new[m] = Marked(old[m], e.type)
        BY <1>2, <2>1, <2>2, <3>2
      <4>2. old[m] \in ChatMessage
        BY <1>a, <3>2 DEF Copy
      <4>3. Marked(old[m], e.type).status = IF e.type = "file-opened" THEN "opened" ELSE e.type
        BY <2>2, <4>2, MarkedStatus
      <4> QED
        BY <2>3, <4>1, <4>3 DEF Fits
    <3> QED
      BY <3>1, <3>2
  <2>5. m \notin Sends(act'[u][s])
    BY <1>3 DEF Sends
  <2> QED
    BY <1>1, <1>3, <2>4, <2>5, OthersElsewhere, NotedNext
<1> QED
  BY <1>9, <1>10

LEMMA NotedHolds ==
  ASSUME TypeInv, NEW u \in User, NEW s \in Slot, Only(u, s), NEW step, NEW copy, Holds(u, s, step, copy),
         NEW m, NEW st, Noted(u, m, st), Fits(copy, m, st), history' = history,
         Fits(history[u], m, st) \/ step = "save"
  PROVE  Noted(u, m, st)'
<1>1. /\ Others(u, s) /\ Alike(act'[u][s], act[u][s]) /\ act'[u][s].copy = copy
      /\ act'[u][s].step = step
  BY HoldsFields
<1>2. m \notin Sends(act'[u][s])
  BY <1>1, NotedOnly DEF Sends, Alike
<1>3. Fits(history'[u], m, st) \/ WillSave(act'[u][s])
  BY <1>1 DEF WillSave, HasCopy
<1> QED
  BY <1>1, <1>2, <1>3, OthersElsewhere, NotedNext

LEMMA NotedStays ==
  ASSUME TypeInv, NEW u \in User, NEW s \in Slot, Only(u, s), Others(u, s), ~HasCopy(act[u][s]),
         ~HasCopy(act'[u][s]), Sends(act'[u][s]) \subseteq Sends(act[u][s]), history' = history,
         NEW m, NEW st, Noted(u, m, st)
  PROVE  Noted(u, m, st)'
<1>1. m \notin Sends(act'[u][s]) /\ Fits(history'[u], m, st)
  BY NotedOnly DEF WillSave
<1> QED
  BY <1>1, OthersElsewhere, NotedNext

LEMMA NotedEnds ==
  ASSUME TypeInv, NEW u \in User, NEW s \in Slot, Only(u, s), Elsewhere(u, s), act'[u][s] = Idle,
         NEW m, NEW st, Fits(history'[u], m, st)
  PROVE  Noted(u, m, st)'
<1>1. m \notin Sends(act'[u][s]) /\ ~HasCopy(act'[u][s])
  BY IdleNotes
<1> QED
  BY <1>1, NotedNext

LEMMA NotedGoesOn ==
  ASSUME Inv, RoleInv, PlaceInv, FlowInv, Good, NEW u \in User, NEW s \in Slot, GoesOn(u, s), Only(u, s),
         NEW m \in Id, message[m].by = u, NEW st \in {"read", "opened"}, Last(m, st), Noted(u, m, st)
  PROVE  Noted(u, m, st)'
<1>0. TypeInv /\ TypeOK /\ Role(s, act[u][s]) /\ ActOK(act[u][s])
  BY ActivationType DEF Inv, TypeInv, RoleInv
<1>1. /\ m \notin Sends(act[u][s]) /\ (HasCopy(act[u][s]) => Fits(act[u][s].copy, m, st))
      /\ Fits(history[u], m, st) \/ WillSave(act[u][s])
  BY NotedOnly
<1>2. \A x, r : x \in Id /\ x # m /\ Fits(history[u], m, st) => Fits([history[u] EXCEPT ![x] = r], m, st)
  BY <1>0, ActType DEF Fits, Copy
<1>3. CASE Posted(u, s)
  <2>1. /\ Others(u, s) /\ Alike(act'[u][s], act[u][s])
        /\ act[u][s].step = "post" /\ act'[u][s].step \in {"load", "set"}
    BY <1>0, <1>3, PostedFields
  <2>2. Sends(act'[u][s]) \subseteq Sends(act[u][s])
    BY <2>1 DEF Alike, Sends
  <2>3. history' = history
    BY <1>3 DEF Posted, disk
  <2> QED
    BY <1>0, <2>1, <2>2, <2>3, NotedStays DEF HasCopy
<1>4. CASE TimerSet(u, s)
  <2>1. Others(u, s) /\ act'[u][s] = Idle
    BY <1>0, <1>4, EndFields DEF TimerSet
  <2>2. history' = history /\ ~WillSave(act[u][s])
    BY <1>4 DEF TimerSet, WillSave, HasCopy
  <2> QED
    BY <1>0, <1>1, <2>1, <2>2, OthersElsewhere, NotedEnds
<1>5. CASE Appended(u, s)
  <2>1. PICK x, copy : x = act[u][s].what.id /\ copy = [history[u] EXCEPT ![x] = Sent(u, x)]
                        /\ Holds(u, s, "save", copy)
    BY <1>5 DEF Appended
  <2>2. act[u][s].op = "send" /\ act[u][s].step = "load" /\ history' = history
    BY <1>5 DEF Appended, disk
  <2>3. x \in Id /\ x # m
    BY <1>0, <1>1, <2>1, <2>2 DEF ActOK, Text, Sends
  <2>4. Fits(history[u], m, st)
    BY <1>1, <2>2 DEF WillSave, HasCopy
  <2>5. Fits(copy, m, st)
    BY <1>2, <2>1, <2>3, <2>4
  <2> QED
    BY <1>0, <2>1, <2>2, <2>5, NotedHolds
<1>6. CASE Opened(u, s)
  <2>1. act[u][s].op = "open" /\ act[u][s].step = "load" /\ history' = history
    BY <1>6 DEF Opened, disk
  <2>2. Fits(history[u], m, st)
    BY <1>1, <2>1 DEF WillSave, HasCopy
  <2>3. CASE \E copy : copy = [history[u] EXCEPT ![act[u][s].what.id] = Absent] /\ Holds(u, s, "save", copy)
    <3>1. PICK x, copy : x = act[u][s].what.id /\ copy = [history[u] EXCEPT ![x] = Absent]
                          /\ Holds(u, s, "save", copy)
      BY <2>3
    <3>2. copy[m] = history[u][m] \/ copy[m] = Absent
      BY <1>0, <3>1, ActType DEF Copy
    <3>3. Fits(copy, m, st)
      BY <2>2, <3>2 DEF Fits
    <3> QED
      BY <1>0, <2>1, <3>1, <3>3, NotedHolds
  <2>4. CASE act' = [act EXCEPT ![u][s] = Idle]
    BY <1>0, <2>1, <2>2, <2>4, EndFields, OthersElsewhere, NotedEnds
  <2> QED
    BY <1>6, <2>3, <2>4 DEF Opened, Return
<1>7. CASE Save(u, s)
  <2>1. act[u][s].step = "save" /\ act'[u][s] = Idle /\ history'[u] = act[u][s].copy
    BY <1>0, <1>7, SaveFields
  <2>2. Fits(history'[u], m, st)
    BY <1>1, <2>1 DEF HasCopy
  <2> QED
    BY <1>0, <1>7, <2>1, <2>2, SaveElsewhere, NotedEnds
<1>8. CASE Fetch(u, s)
  <2>1. /\ Others(u, s) /\ act[u][s].step = "fetch" /\ act'[u][s].step = "load"
        /\ act'[u][s].op = act[u][s].op /\ act'[u][s].what = act[u][s].what
    BY <1>0, <1>8, FetchFields
  <2>2. Sends(act'[u][s]) \subseteq Sends(act[u][s])
    BY <2>1 DEF Sends
  <2>3. history' = history
    BY <1>8 DEF Fetch, disk
  <2> QED
    BY <1>0, <2>1, <2>2, <2>3, NotedStays DEF HasCopy
<1>9. CASE PollLoaded(u, s)
  <2>1. act[u][s].step = "load" /\ history' = history /\ Holds(u, s, "handle", history[u])
    BY <1>9 DEF PollLoaded, disk
  <2>2. Fits(history[u], m, st)
    BY <1>1, <2>1 DEF WillSave, HasCopy
  <2> QED
    BY <1>0, <2>1, <2>2, NotedHolds
<1>10. CASE Handle(u, s)
  BY <1>10, NotedHandle
<1>11. CASE Receipt(u, s)
  <2>1. /\ Others(u, s) /\ Alike(act'[u][s], act[u][s]) /\ act'[u][s].copy = act[u][s].copy
        /\ act[u][s].step \in {"delivered", "read"} /\ act'[u][s].step \in {"read", "handle"}
    BY <1>0, <1>11, ReceiptFields
  <2>2. HasCopy(act[u][s]) /\ HasCopy(act'[u][s]) /\ m \notin Sends(act'[u][s])
    BY <1>1, <2>1 DEF HasCopy, Sends, Alike
  <2>3. history' = history
    BY <1>11 DEF Receipt, disk
  <2>4. WillSave(act[u][s]) => WillSave(act'[u][s])
    BY <2>1, <2>2 DEF WillSave, Alike
  <2> QED
    BY <1>0, <1>1, <2>1, <2>2, <2>3, <2>4, OthersElsewhere, NotedNext
<1>12. CASE Sweep(u, s)
  <2>1. PICK old, alive : old = act[u][s].copy /\ alive = Alive(u, old)
    OBVIOUS
  <2>2. act[u][s].step = "handle" /\ history' = history /\ old \in Copy
    BY <1>0, <1>12, <2>1, ActivationType DEF Sweep, disk
  <2>3. Fits(old, m, st)
    BY <1>1, <2>1, <2>2 DEF HasCopy
  <2>4. Fits(alive, m, st)
    BY <2>1, <2>3 DEF Fits, Alive
  <2>5. CASE Holds(u, s, "save", alive)
    BY <1>0, <2>2, <2>4, <2>5, NotedHolds
  <2>6. CASE ~act[u][s].some /\ act' = [act EXCEPT ![u][s] = Idle]
    <3>1. Fits(history[u], m, st)
      BY <1>1, <2>2, <2>6 DEF WillSave
    <3> QED
      BY <1>0, <2>2, <2>6, <3>1, EndFields, OthersElsewhere, NotedEnds
  <2> QED
    BY <1>12, <2>1, <2>5, <2>6 DEF Sweep, Return
<1> QED
  BY <1>3, <1>4, <1>5, <1>6, <1>7, <1>8, <1>9, <1>10, <1>11, <1>12 DEF GoesOn

-----------------------------------------------------------------------------
(* A message is on its way, or its receipt is, or the sender has noted it *)

Unread(u, v, m) ==
  \/ \E s \in Slot : act[u][s].step = "post" /\ m \in Sends(act[u][s])
  \/ m \in Mail(v, "message")
  \/ \E s \in Slot : m \in Doing(act[v][s])
  \/ m \in Mail(u, "read")
Opens(a) == IF a.op = "open" /\ a.step # "post" THEN {a.what.id} ELSE {}
OpenedBy(u) == destroyed[u] \cup UNION {Opens(act[u][s]) : s \in Slot}
Told1(u, v, m) ==
  /\ ~File(m) => Unread(u, v, m) \/ Noted(u, m, "read")
  /\ File(m) /\ m \in OpenedBy(v) => m \in Mail(u, "file-opened") \/ Noted(u, m, "opened")
Between(u, v, m) == message[m] # None /\ message[m].by = u /\ Peer(u) = v /\ Peer(v) = u
AckInv == Good =>
  \A m \in Id, u, v \in User : Between(u, v, m) => Told1(u, v, m)

LEMMA OpensLooks ==
  ASSUME NEW a, NEW b, Looks(a, b)
  PROVE  Opens(a) = Opens(b) /\ Sends(a) = Sends(b) /\ Doing(a) = Doing(b)
  BY LooksSame DEF Looks, Opens

LEMMA UnreadGoesOn ==
  ASSUME Inv, RoleInv, PlaceInv, FlowInv, Good, NEW u \in User, NEW s \in Slot, GoesOn(u, s), Only(u, s),
         Elsewhere(u, s), NEW m \in Id, NEW w \in User, NEW v \in User, Between(w, v, m), ~File(m),
         Unread(w, v, m)
  PROVE  Unread(w, v, m)' \/ Noted(w, m, "read")'
<1>0. /\ TypeInv /\ Role(s, act[u][s]) /\ ActOK(act[u][s])
      /\ message[m].by = w /\ Peer(w) = v /\ Peer(v) = w
  BY ActivationType DEF Inv, RoleInv, Between
<1>1. ASSUME NEW r \in Slot, act[w][r].step = "post", m \in Sends(act[w][r]) PROVE Unread(w, v, m)'
  <2>1. CASE <<w, r>> # <<u, s>>
    <3>1. Looks(act'[w][r], act[w][r])
      BY <2>1 DEF Elsewhere
    <3>2. act'[w][r].step = "post" /\ m \in Sends(act'[w][r])
      BY <1>1, <3>1, OpensLooks DEF Looks
    <3> QED
      BY <3>2 DEF Unread, Sends
  <2>2. CASE <<w, r>> = <<u, s>>
    <3>1. Posted(u, s)
      BY <1>0, <1>1, <2>2 DEF GoesOn, TimerSet, Appended, Opened, Save, Fetch, PollLoaded, Handle, Receipt,
                              Sweep
    <3>2. act[u][s].op = "send" /\ act[u][s].what.id = m
      BY <1>1, <2>2 DEF Sends
    <3>3. m \in Posts(act[u][s], "message")
      BY <1>0, <1>1, <2>2, <3>2 DEF Posts, ActOK, Text
    <3>4. m \in Mail(v, "message")'
      BY <1>0, <2>2, <3>1, <3>3, PostedMail
    <3> QED
      BY <3>4 DEF Unread
  <2> QED
    BY <2>1, <2>2
<1>2. ASSUME m \in Mail(v, "message") PROVE Unread(w, v, m)'
  <2>1. \/ m \in Mail(v, "message")'
        \/ /\ v = u /\ Handle(u, s)
           /\ Head(act[u][s].batch).type = "message" /\ Head(act[u][s].batch).id = m
    BY <1>0, <1>2, GoesOnMail
  <2>2. CASE m \in Mail(v, "message")'
    BY <2>2 DEF Unread
  <2>3. CASE /\ v = u /\ Handle(u, s)
             /\ Head(act[u][s].batch).type = "message" /\ Head(act[u][s].batch).id = m
    <3>1. act'[u][s].step = "delivered" /\ act'[u][s].batch = act[u][s].batch
      BY <1>0, <2>3, HandleFields
    <3>2. m \in Doing(act'[u][s])
      BY <2>3, <3>1 DEF Doing
    <3> QED
      BY <2>3, <3>2 DEF Unread, Doing
  <2> QED
    BY <2>1, <2>2, <2>3
<1>3. ASSUME NEW r \in Slot, m \in Doing(act[v][r]) PROVE Unread(w, v, m)'
  <2>1. CASE <<v, r>> # <<u, s>>
    <3>1. Looks(act'[v][r], act[v][r])
      BY <2>1 DEF Elsewhere
    <3>2. m \in Doing(act'[v][r])
      BY <1>3, <3>1, OpensLooks
    <3> QED
      BY <3>2 DEF Unread, Doing
  <2>2. CASE <<v, r>> = <<u, s>>
    <3>1. act[u][s].step \in {"delivered", "read"} /\ Head(act[u][s].batch).id = m
      BY <1>3, <2>2 DEF Doing
    <3>2. Receipt(u, s)
      BY <3>1, <1>0 DEF GoesOn, Posted, TimerSet, Appended, Opened, Save, Fetch, PollLoaded, Handle, Sweep,
                        ActOK
    <3>3. CASE act[u][s].step = "delivered"
      <4>1. act'[u][s].step = "read" /\ act'[u][s].batch = act[u][s].batch
        BY <1>0, <3>2, <3>3, ReceiptFields
      <4>2. m \in Doing(act'[u][s])
        BY <3>1, <4>1 DEF Doing
      <4> QED
        BY <2>2, <4>2 DEF Unread, Doing
    <3>4. CASE act[u][s].step = "read"
      <4>1. m \in Mail(w, "read")'
        BY <1>0, <2>2, <3>1, <3>2, <3>4, ReceiptMail
      <4> QED
        BY <4>1 DEF Unread
    <3> QED
      BY <3>1, <3>3, <3>4
  <2> QED
    BY <2>1, <2>2
<1>4. ASSUME m \in Mail(w, "read") PROVE Unread(w, v, m)' \/ Noted(w, m, "read")'
  <2>1. \/ m \in Mail(w, "read")'
        \/ /\ w = u /\ Handle(u, s)
           /\ Head(act[u][s].batch).type = "read" /\ Head(act[u][s].batch).id = m
    BY <1>0, <1>4, GoesOnMail
  <2>2. CASE m \in Mail(w, "read")'
    BY <2>2 DEF Unread
  <2>3. CASE /\ w = u /\ Handle(u, s)
             /\ Head(act[u][s].batch).type = "read" /\ Head(act[u][s].batch).id = m
    <3>1. Last(m, "read")
      BY DEF Last
    <3> QED
      BY <1>0, <2>3, <3>1, NotedHandle
  <2> QED
    BY <2>1, <2>2, <2>3
<1> QED
  BY <1>1, <1>2, <1>3, <1>4 DEF Unread

LEMMA OpenedGoesOn ==
  ASSUME Inv, RoleInv, PlaceInv, FlowInv, Good, NEW u \in User, NEW s \in Slot, GoesOn(u, s), Only(u, s),
         Elsewhere(u, s), NEW m \in Id, NEW w \in User, NEW v \in User, Between(w, v, m), File(m),
         Told1(w, v, m), m \in OpenedBy(v)'
  PROVE  m \in Mail(w, "file-opened")' \/ Noted(w, m, "opened")'
<1>0. /\ TypeInv /\ Role(s, act[u][s]) /\ ActOK(act[u][s])
      /\ message[m].by = w /\ Peer(w) = v /\ Peer(v) = w /\ Last(m, "opened")
  BY ActivationType DEF Inv, RoleInv, Between, Last
<1>1. ASSUME m \in OpenedBy(v) PROVE m \in Mail(w, "file-opened")' \/ Noted(w, m, "opened")'
  <2>1. CASE m \in Mail(w, "file-opened")
    <3>1. \/ m \in Mail(w, "file-opened")'
          \/ /\ w = u /\ Handle(u, s)
             /\ Head(act[u][s].batch).type = "file-opened" /\ Head(act[u][s].batch).id = m
      BY <1>0, <2>1, GoesOnMail
    <3> QED
      BY <1>0, <3>1, NotedHandle
  <2>2. CASE Noted(w, m, "opened")
    <3>1. CASE w = u
      BY <1>0, <2>2, <3>1, NotedGoesOn
    <3>2. CASE w # u
      <4>1. history'[w] = history[w]
        <5>1. CASE Save(u, s)
          BY <1>0, <3>2, <5>1, SaveFields
        <5>2. CASE ~Save(u, s)
          BY <5>2 DEF GoesOn, Posted, TimerSet, Appended, Opened, Fetch, PollLoaded, Handle, Receipt, Sweep,
                      disk
        <5> QED
          BY <5>1, <5>2
      <4> QED
        BY <2>2, <3>2, <4>1, NotedElsewhere
    <3> QED
      BY <3>1, <3>2
  <2> QED
    BY <1>1, <2>1, <2>2 DEF Told1
<1>2. CASE m \in OpenedBy(v)
  BY <1>1, <1>2
<1>3. CASE m \notin OpenedBy(v)
  <2>1. OpenedBy(v)' = destroyed'[v] \cup UNION {Opens(act'[v][r]) : r \in Slot}
    BY DEF OpenedBy, Opens
  <2>2. ASSUME NEW r \in Slot, <<v, r>> # <<u, s>> PROVE m \notin Opens(act'[v][r])
    <3>1. Looks(act'[v][r], act[v][r])
      BY <2>2 DEF Elsewhere
    <3> QED
      BY <1>3, <3>1, OpensLooks DEF OpenedBy
  <2>3. m \notin destroyed'[v]
    <3>1. CASE Save(u, s)
      <4>1. act[u][s].step = "save"
        BY <1>0, <3>1, SaveFields
      <4>2. /\ v # u => destroyed'[v] = destroyed[v]
            /\ v = u => destroyed'[v] = destroyed[v] \cup
                          IF act[u][s].op = "open" THEN {act[u][s].what.id} ELSE {}
        BY <1>0, <3>1, SaveFields
      <4>3. v = u => m \notin Opens(act[u][s])
        BY <1>3 DEF OpenedBy
      <4> QED
        BY <1>3, <4>1, <4>2, <4>3 DEF OpenedBy, Opens
    <3>2. CASE ~Save(u, s)
      <4>1. destroyed' = destroyed
        BY <3>2 DEF GoesOn, Posted, TimerSet, Appended, Opened, Fetch, PollLoaded, Handle, Receipt, Sweep,
                    past
      <4> QED
        BY <1>3, <4>1 DEF OpenedBy
    <3> QED
      BY <3>1, <3>2
  <2>4. v = u /\ m \in Opens(act'[u][s]) /\ m \notin Opens(act[u][s])
    BY <1>3, <2>1, <2>2, <2>3 DEF OpenedBy
  <2>5. act'[u][s].op = "open" /\ act'[u][s].what.id = m /\ act'[u][s].step # "post"
    BY <2>4 DEF Opens
  <2>6. act[u][s].op = "open" /\ act[u][s].what = act'[u][s].what
    <3>1. act'[u][s] # Idle
      BY <2>5, IdleFields
    <3>2. ASSUME NEW step, NEW copy, Holds(u, s, step, copy)
          PROVE  act[u][s].op = act'[u][s].op /\ act[u][s].what = act'[u][s].what
      BY <1>0, <3>2, HoldsFields DEF Alike
    <3>3. CASE Posted(u, s)
      BY <1>0, <2>5, <3>3, PostedFields DEF Alike
    <3>4. CASE TimerSet(u, s) \/ Save(u, s)
      BY <1>0, <3>1, <3>4, EndFields, SaveFields DEF TimerSet
    <3>5. CASE Appended(u, s) \/ PollLoaded(u, s)
      BY <2>5, <3>2, <3>5 DEF Appended, PollLoaded
    <3>6. CASE Opened(u, s) \/ Sweep(u, s)
      <4>1. act' = [act EXCEPT ![u][s] = Idle] \/ \E step, copy : Holds(u, s, step, copy)
        BY <3>6 DEF Opened, Sweep, Return
      <4>2. \E step, copy : Holds(u, s, step, copy)
        BY <1>0, <3>1, <4>1, EndFields
      <4> QED
        BY <2>5, <3>2, <4>2
    <3>7. CASE Fetch(u, s)
      BY <1>0, <2>5, <3>7, FetchFields
    <3>8. CASE Handle(u, s)
      BY <1>0, <2>5, <3>8, HandleFields DEF Alike
    <3>9. CASE Receipt(u, s)
      BY <1>0, <2>5, <3>9, ReceiptFields DEF Alike
    <3> QED
      BY <3>3, <3>4, <3>5, <3>6, <3>7, <3>8, <3>9 DEF GoesOn
  <2>7. act[u][s].step = "post"
    BY <2>4, <2>5, <2>6 DEF Opens
  <2>8. Posted(u, s)
    BY <1>0, <2>7 DEF GoesOn, TimerSet, Appended, Opened, Save, Fetch, PollLoaded, Handle, Receipt, Sweep
  <2>9. m \in Posts(act[u][s], "file-opened")
    BY <1>0, <2>5, <2>6, <2>7 DEF Posts, ActOK, Opening
  <2>10. m \in Mail(w, "file-opened")'
    BY <1>0, <2>4, <2>8, <2>9, PostedMail
  <2> QED
    BY <2>10
<1> QED
  BY <1>2, <1>3

(* What the user or a timer begins *)
Starts(u, s) ==
  /\ Elsewhere(u, s) /\ UNCHANGED <<history, queue, due, destroyed>>
  /\ act[u][s] = Idle
  /\ act'[u][s].step \in {"post", "fetch"} /\ act'[u][s].batch = <<>> /\ Opens(act'[u][s]) = {}
  /\ \A m \in Id : message[m] # None => message'[m] = message[m] /\ m \notin Sends(act'[u][s])
  /\ \A m \in Id : message[m] = None /\ message'[m] # None =>
       message'[m].by = u /\ m \in Sends(act'[u][s]) /\ act'[u][s].step = "post"

LEMMA BeginStarts ==
  ASSUME TypeInv, NEW u \in User, NEW s \in Slot, NEW op, NEW step, NEW what,
         Begin(u, s, op, step, what), step \in {"post", "fetch"}, step = "fetch" => op # "open",
         UNCHANGED <<history, queue, due, destroyed>>,
         \A m \in Id : message[m] # None => message'[m] = message[m] /\ (op = "send" => what.id # m),
         \A m \in Id : message[m] = None /\ message'[m] # None =>
           message'[m].by = u /\ op = "send" /\ step = "post" /\ what.id = m
  PROVE  Starts(u, s)
<1>1. /\ act[u][s] = Idle /\ Others(u, s)
      /\ act'[u][s].op = op /\ act'[u][s].step = step /\ act'[u][s].what = what
      /\ act'[u][s].batch = <<>> /\ act'[u][s].copy = Empty /\ act'[u][s].some = FALSE
      /\ act'[u][s].stale = FALSE
  BY BeginFields, Zenon
<1>2. Sends(act'[u][s]) = IF op = "send" THEN {what.id} ELSE {}
  BY <1>1 DEF Sends
<1>3. Opens(act'[u][s]) = {}
  BY <1>1 DEF Opens
<1> QED
  BY <1>1, <1>2, <1>3, OthersElsewhere DEF Starts

LEMMA ActStarts ==
  ASSUME TypeInv, NEW u \in User, NEW s \in Slot, Act(u, s) \/ Poll(u, s)
  PROVE  Starts(u, s)
<1>0. TypeInv
  OBVIOUS
<1>1. CASE Send(u, s)
  <2>1. PICK m \in Id, kind \in Kinds :
          /\ message[m] = None
          /\ message' = [message EXCEPT ![m] = [by |-> u, kind |-> kind]]
          /\ Begin(u, s, "send", "post", [type |-> "message", id |-> m])
    BY <1>1 DEF Send
  <2>2. PICK op, step, what :
          op = "send" /\ step = "post" /\ what.id = m /\ Begin(u, s, op, step, what)
    BY <2>1
  <2>3. UNCHANGED <<history, queue, due, destroyed>>
    BY <1>1 DEF Send, disk
  <2>4. \A x \in Id : message[x] # None => message'[x] = message[x] /\ (op = "send" => what.id # x)
    BY <2>1, <2>2, ActType
  <2>5. message'[m].by = u
    BY <2>1, ActType
  <2>6. \A x \in Id : message[x] = None /\ message'[x] # None =>
          message'[x].by = u /\ op = "send" /\ step = "post" /\ what.id = x
    BY <2>1, <2>2, <2>5, ActType
  <2>7. Begin(u, s, op, step, what) /\ step \in {"post", "fetch"} /\ (step = "fetch" => op # "open")
    BY <2>2
  <2> QED
    BY ONLY <1>0, u \in User, s \in Slot, <2>3, <2>4, <2>6, <2>7, BeginStarts
<1>2. CASE OpenFile(u, s) \/ SetTimer(u, s) \/ Poll(u, s)
  <2>1. PICK op, step, what :
          /\ op # "send" /\ step \in {"post", "fetch"} /\ (step = "fetch" => op # "open")
          /\ Begin(u, s, op, step, what)
    BY <1>2 DEF OpenFile, SetTimer, Poll
  <2>2. UNCHANGED <<history, queue, due, destroyed>> /\ message' = message
    BY <1>2 DEF OpenFile, SetTimer, Poll, disk
  <2>3. UNCHANGED <<history, queue, due, destroyed>>
    BY <2>2
  <2>4. \A x \in Id : message[x] # None => message'[x] = message[x] /\ (op = "send" => what.id # x)
    BY <2>1, <2>2
  <2>5. \A x \in Id : message[x] = None /\ message'[x] # None =>
          message'[x].by = u /\ op = "send" /\ step = "post" /\ what.id = x
    BY <2>2
  <2>6. Begin(u, s, op, step, what) /\ step \in {"post", "fetch"} /\ (step = "fetch" => op # "open")
    BY <2>1
  <2> QED
    BY ONLY <1>0, u \in User, s \in Slot, <2>3, <2>4, <2>5, <2>6, BeginStarts
<1> QED
  BY <1>1, <1>2 DEF Act

LEMMA NextKeep ==
  ASSUME Inv, RoleInv, PlaceInv, AloneInv, CleanInv, KeepInv, [Next]_vars
  PROVE  KeepInv'
<1>0. TypeInv
  BY DEF Inv
<1> SUFFICES ASSUME Good', NEW m \in Id, message'[m] # None, NEW w \in User, w = message'[m].by
             PROVE  Keeps(w, m)'
  BY DEF KeepInv
<1>1. /\ Good
      /\ \/ \E u \in User, s \in Slot : (Act(u, s) \/ Poll(u, s)) /\ AllIdle(u)
         \/ \E u \in User, s \in Slot : GoesOn(u, s) /\ Only(u, s)
         \/ Rests
  BY <1>0, GoodStep
<1>2. ASSUME NEW u \in User, NEW s \in Slot, Act(u, s) \/ Poll(u, s), AllIdle(u)
      PROVE  Keeps(w, m)'
  <2>1. Starts(u, s)
    BY <1>0, <1>2, ActStarts
  <2>2. CASE message[m] = None
    <3>1. w = u /\ m \in Sends(act'[u][s]) /\ act'[u][s].step = "post"
      BY <2>1, <2>2 DEF Starts
    <3> QED
      BY <3>1 DEF Keeps
  <2>3. CASE message[m] # None
    <3>1. Keeps(w, m)
      BY <1>1, <2>1, <2>3 DEF KeepInv, Starts
    <3>2. CASE w # u
      BY <2>1, <3>1, <3>2, KeepsElsewhere DEF Starts
    <3>3. CASE w = u
      <4>1. m \in Ids(history[u]) \cup due[u]
        BY <1>2, <3>1, <3>3, IdleLooks DEF Keeps, AllIdle
      <4>2. m \in Ids(history'[u]) \cup due'[u]
        BY <2>1, <4>1 DEF Starts
      <4> QED
        BY <3>3, <4>2 DEF Keeps
    <3> QED
      BY <3>2, <3>3
  <2> QED
    BY <2>2, <2>3
<1>3. ASSUME NEW u \in User, NEW s \in Slot, GoesOn(u, s), Only(u, s)
      PROVE  Keeps(w, m)'
  <2>1. message' = message /\ due' = due
    BY <1>3 DEF GoesOn, Posted, TimerSet, Appended, Opened, Save, Fetch, PollLoaded, Handle, Receipt, Sweep,
                past
  <2>2. Keeps(w, m)
    BY <1>1, <2>1 DEF KeepInv
  <2>3. CASE w = u
    BY <1>1, <1>3, <2>1, <2>2, <2>3, GoesOnKeeps
  <2>4. CASE w # u
    <3>1. Elsewhere(u, s) /\ history'[w] = history[w]
      <4>1. CASE Save(u, s)
        BY <1>0, <2>4, <4>1, SaveFields, SaveElsewhere
      <4>2. CASE ~Save(u, s)
        <5>1. history' = history
          BY <1>3, <4>2 DEF GoesOn, Posted, TimerSet, Appended, Opened, Fetch, PollLoaded, Handle, Receipt,
                            Sweep, disk
        <5> QED
          BY <1>0, <1>3, <4>2, <5>1, GoesOnStale, OthersElsewhere
      <4> QED
        BY <4>1, <4>2
    <3> QED
      BY <2>1, <2>2, <2>4, <3>1, KeepsElsewhere
  <2> QED
    BY <2>3, <2>4
<1>4. CASE Rests
  <2>1. message' = message /\ history' = history /\ due[w] \subseteq due'[w]
        /\ \A r \in Slot : act'[w][r] = act[w][r]
    BY <1>4 DEF Rests, disk
  <2>2. Keeps(w, m)
    BY <1>1, <2>1 DEF KeepInv
  <2>3. CASE m \in Ids(history[w]) \cup due[w]
    <3>1. m \in Ids(history'[w]) \cup due'[w]
      BY <2>1, <2>3
    <3> QED
      BY <3>1 DEF Keeps
  <2>4. CASE \E r \in Slot : /\ m \in Sends(act[w][r])
                             /\ act[w][r].step = "save" => m \in Ids(act[w][r].copy)
    <3>1. PICK r \in Slot : /\ m \in Sends(act'[w][r])
                            /\ act'[w][r].step = "save" => m \in Ids(act'[w][r].copy)
      BY <2>1, <2>4
    <3> QED
      BY <3>1 DEF Keeps
  <2> QED
    BY <2>2, <2>3, <2>4 DEF Keeps
<1> QED
  BY <1>1, <1>2, <1>3, <1>4

LEMMA GoesOnElsewhere ==
  ASSUME TypeInv, NEW u \in User, NEW s \in Slot, GoesOn(u, s)
  PROVE  Elsewhere(u, s) /\ \A w \in User \ {u} : history'[w] = history[w]
<1>1. CASE Save(u, s)
  BY <1>1, SaveFields, SaveElsewhere
<1>2. CASE ~Save(u, s)
  <2>1. history' = history
    BY <1>2 DEF GoesOn, Posted, TimerSet, Appended, Opened, Fetch, PollLoaded, Handle, Receipt, Sweep, disk
  <2> QED
    BY <1>2, <2>1, GoesOnStale, OthersElsewhere
<1> QED
  BY <1>1, <1>2

LEMMA StartsAck ==
  ASSUME Inv, PlaceInv, NEW u \in User, NEW s \in Slot, Starts(u, s), AllIdle(u),
         NEW m \in Id, NEW w \in User, NEW v \in User, message[m] # None, Told1(w, v, m)
  PROVE  Told1(w, v, m)'
<1>1. message'[m] = message[m] /\ m \notin Sends(act'[u][s])
  BY DEF Starts
<1>2. File(m)' = File(m)
  BY <1>1 DEF File
<1>3. \A type : \A x \in User : Mail(x, type) \subseteq Mail(x, type)'
  <2>1. Pending(act[u][s]) = <<>> /\ Elsewhere(u, s) /\ queue' = queue
    BY IdleLooks DEF Starts
  <2> QED
    BY <2>1, MailSame
<1>4. ASSUME NEW r \in Slot, NEW x \in User
      PROVE  /\ Doing(act[x][r]) \subseteq Doing(act'[x][r])
             /\ act[x][r].step = "post" => act'[x][r].step = "post" /\ Sends(act'[x][r]) = Sends(act[x][r])
             /\ Opens(act'[x][r]) \subseteq Opens(act[x][r])
  <2>1. CASE <<x, r>> # <<u, s>>
    <3>1. Looks(act'[x][r], act[x][r])
      BY <2>1 DEF Starts, Elsewhere
    <3> QED
      BY <3>1, OpensLooks DEF Looks
  <2>2. CASE <<x, r>> = <<u, s>>
    <3>1. act[x][r] = Idle /\ act'[x][r].step \in {"post", "fetch"}
      BY <2>2 DEF Starts
    <3>2. Opens(act'[x][r]) = {}
      BY <2>2 DEF Starts
    <3> QED
      BY <3>1, <3>2, IdleLooks
  <2> QED
    BY <2>1, <2>2
<1>5. ASSUME NEW st, Noted(w, m, st) PROVE Noted(w, m, st)'
  <2>1. CASE w # u
    BY <1>5, <2>1, NotedElsewhere DEF Starts
  <2>2. CASE w = u
    <3>1. Only(u, s) /\ ~WillSave(act[u][s])
      BY IdleNotes DEF Only, AllIdle
    <3>2. Fits(history'[u], m, st)
      BY <1>5, <2>2, <3>1, NotedOnly DEF Starts
    <3>3. ~HasCopy(act'[u][s])
      BY DEF Starts, HasCopy
    <3> QED
      BY <1>1, <2>2, <3>1, <3>2, <3>3, NotedNext DEF Starts
  <2> QED
    BY <2>1, <2>2
<1>6. Unread(w, v, m) => Unread(w, v, m)'
  <2>1. Unread(w, v, m)' = (\/ \E r \in Slot : act'[w][r].step = "post" /\ m \in Sends(act'[w][r])
                            \/ m \in Mail(v, "message")'
                            \/ \E r \in Slot : m \in Doing(act'[v][r])
                            \/ m \in Mail(w, "read")')
    BY DEF Unread, Sends, Doing
  <2> QED
    BY <1>3, <1>4, <2>1 DEF Unread
<1>7. m \in OpenedBy(v)' => m \in OpenedBy(v)
  <2>1. OpenedBy(v)' = destroyed'[v] \cup UNION {Opens(act'[v][r]) : r \in Slot}
    BY DEF OpenedBy, Opens
  <2>2. destroyed' = destroyed
    BY DEF Starts
  <2> QED
    BY <1>4, <2>1, <2>2 DEF OpenedBy
<1>8. ~File(m) => Unread(w, v, m)' \/ Noted(w, m, "read")'
  BY <1>5, <1>6 DEF Told1
<1>9. File(m) /\ m \in OpenedBy(v)' => m \in Mail(w, "file-opened")' \/ Noted(w, m, "opened")'
  BY <1>3, <1>5, <1>7 DEF Told1
<1>10. Told1(w, v, m)' = (/\ ~File(m)' => Unread(w, v, m)' \/ Noted(w, m, "read")'
                          /\ File(m)' /\ m \in OpenedBy(v)' =>
                               m \in Mail(w, "file-opened")' \/ Noted(w, m, "opened")')
  BY DEF Told1
<1> QED
  BY <1>2, <1>8, <1>9, <1>10

LEMMA RestsAck ==
  ASSUME Rests, NEW m \in Id, NEW w \in User, NEW v \in User, Told1(w, v, m)
  PROVE  Told1(w, v, m)'
<1>1. /\ history' = history /\ queue' = queue /\ message' = message /\ destroyed' = destroyed
      /\ \A x \in User, r \in Slot : act'[x][r] = act[x][r]
  BY DEF Rests, disk
<1>2. \A type : \A x \in User : Mail(x, type)' = Mail(x, type)
  BY <1>1 DEF Mail
<1>3. OpenedBy(v)' = OpenedBy(v)
  BY <1>1 DEF OpenedBy, Opens
<1>4. \A st : Noted(w, m, st)' = Noted(w, m, st)
  BY <1>1 DEF Noted, Fits, WillSave, HasCopy, Sends
<1>5. Unread(w, v, m)' = Unread(w, v, m)
  <2>1. Unread(w, v, m)' = (\/ \E r \in Slot : act'[w][r].step = "post" /\ m \in Sends(act'[w][r])
                            \/ m \in Mail(v, "message")'
                            \/ \E r \in Slot : m \in Doing(act'[v][r])
                            \/ m \in Mail(w, "read")')
    BY DEF Unread, Sends, Doing
  <2> QED
    BY <1>1, <1>2, <2>1 DEF Unread
<1>6. File(m)' = File(m)
  BY <1>1 DEF File
<1>7. Told1(w, v, m)' = (/\ ~File(m)' => Unread(w, v, m)' \/ Noted(w, m, "read")'
                         /\ File(m)' /\ m \in OpenedBy(v)' =>
                              m \in Mail(w, "file-opened")' \/ Noted(w, m, "opened")')
  BY DEF Told1
<1> QED
  BY <1>2, <1>3, <1>4, <1>5, <1>6, <1>7 DEF Told1

LEMMA GoesOnAck ==
  ASSUME Inv, RoleInv, PlaceInv, FlowInv, Good, NEW u \in User, NEW s \in Slot, GoesOn(u, s), Only(u, s),
         NEW m \in Id, NEW w \in User, NEW v \in User, Between(w, v, m), Told1(w, v, m)
  PROVE  Told1(w, v, m)'
<1>0. TypeInv /\ message[m].by = w
  BY DEF Inv, Between
<1>1. Elsewhere(u, s) /\ \A x \in User \ {u} : history'[x] = history[x]
  BY <1>0, GoesOnElsewhere
<1>2. message' = message
  BY DEF GoesOn, Posted, TimerSet, Appended, Opened, Save, Fetch, PollLoaded, Handle, Receipt, Sweep, past
<1>3. File(m)' = File(m)
  BY <1>2 DEF File
<1>4. ASSUME ~File(m) PROVE Unread(w, v, m)' \/ Noted(w, m, "read")'
  <2>1. CASE Unread(w, v, m)
    BY <1>1, <1>4, <2>1, UnreadGoesOn
  <2>2. CASE Noted(w, m, "read")
    <3>1. CASE w = u
      <4>1. Last(m, "read")
        BY <1>4 DEF Last
      <4> QED
        BY <1>0, <2>2, <3>1, <4>1, NotedGoesOn
    <3>2. CASE w # u
      BY <1>1, <2>2, <3>2, NotedElsewhere
    <3> QED
      BY <3>1, <3>2
  <2> QED
    BY <1>4, <2>1, <2>2 DEF Told1
<1>5. ASSUME File(m), m \in OpenedBy(v)'
      PROVE  m \in Mail(w, "file-opened")' \/ Noted(w, m, "opened")'
  BY <1>1, <1>5, OpenedGoesOn
<1>6. Told1(w, v, m)' = (/\ ~File(m)' => Unread(w, v, m)' \/ Noted(w, m, "read")'
                         /\ File(m)' /\ m \in OpenedBy(v)' =>
                              m \in Mail(w, "file-opened")' \/ Noted(w, m, "opened")')
  BY DEF Told1
<1> QED
  BY <1>3, <1>4, <1>5, <1>6

LEMMA NextAck ==
  ASSUME Inv, RoleInv, PlaceInv, FlowInv, AloneInv, AckInv, [Next]_vars
  PROVE  AckInv'
<1>0. TypeInv
  BY DEF Inv
<1>a. AckInv' = (Good' => \A m \in Id, w, v \in User : Between(w, v, m)' => Told1(w, v, m)')
  BY DEF AckInv
<1> SUFFICES ASSUME Good', NEW m \in Id, NEW w \in User, NEW v \in User, Between(w, v, m)'
             PROVE  Told1(w, v, m)'
  BY <1>a
<1>b. message'[m] # None /\ message'[m].by = w /\ Peer(w) = v /\ Peer(v) = w
  BY DEF Between, Peer
<1>1. /\ Good
      /\ \/ \E u \in User, s \in Slot : (Act(u, s) \/ Poll(u, s)) /\ AllIdle(u)
         \/ \E u \in User, s \in Slot : GoesOn(u, s) /\ Only(u, s)
         \/ Rests
  BY <1>0, GoodStep
<1>c. message[m] # None /\ message'[m] = message[m] => Between(w, v, m) /\ Told1(w, v, m)
  BY <1>1, <1>b DEF AckInv, Between
<1>2. ASSUME NEW u \in User, NEW s \in Slot, Act(u, s) \/ Poll(u, s), AllIdle(u)
      PROVE  Told1(w, v, m)'
  <2>1. Starts(u, s)
    BY <1>0, <1>2, ActStarts
  <2>2. CASE message[m] = None
    <3>1. w = u /\ m \in Sends(act'[u][s]) /\ act'[u][s].step = "post"
      BY <1>b, <2>1, <2>2 DEF Starts
    <3>2. Unread(w, v, m)'
      BY <3>1 DEF Unread, Sends
    <3>3. m \notin OpenedBy(v)'
      <4>1. m \notin Known(v)
        BY <2>2 DEF PlaceInv, SpotInv, Sent1
      <4>2. m \notin OpenedBy(v)
        BY <4>1 DEF OpenedBy, Opens, Known, Seen
      <4>3. \A r \in Slot : Opens(act'[v][r]) \subseteq Opens(act[v][r])
        <5> SUFFICES ASSUME NEW r \in Slot PROVE Opens(act'[v][r]) \subseteq Opens(act[v][r])
          OBVIOUS
        <5>1. CASE <<v, r>> = <<u, s>>
          BY <2>1, <5>1 DEF Starts
        <5>2. CASE <<v, r>> # <<u, s>>
          BY <2>1, <5>2, OpensLooks DEF Starts, Elsewhere
        <5> QED
          BY <5>1, <5>2
      <4>4. OpenedBy(v)' = destroyed'[v] \cup UNION {Opens(act'[v][r]) : r \in Slot}
        BY DEF OpenedBy, Opens
      <4>5. destroyed' = destroyed
        BY <2>1 DEF Starts
      <4> QED
        BY <4>2, <4>3, <4>4, <4>5 DEF OpenedBy
    <3> QED
      BY <3>2, <3>3 DEF Told1
  <2>3. CASE message[m] # None
    <3>1. Told1(w, v, m)
      BY <1>c, <2>1, <2>3 DEF Starts
    <3> QED
      BY <1>2, <2>1, <2>3, <3>1, StartsAck
  <2> QED
    BY <2>2, <2>3
<1>3. ASSUME NEW u \in User, NEW s \in Slot, GoesOn(u, s), Only(u, s)
      PROVE  Told1(w, v, m)'
  <2>1. message' = message
    BY <1>3 DEF GoesOn, Posted, TimerSet, Appended, Opened, Save, Fetch, PollLoaded, Handle, Receipt, Sweep,
                past
  <2>2. Between(w, v, m) /\ Told1(w, v, m)
    BY <1>b, <1>c, <2>1
  <2> QED
    BY <1>1, <1>3, <2>2, GoesOnAck
<1>4. CASE Rests
  <2>1. message' = message
    BY <1>4 DEF Rests
  <2> QED
    BY <1>4, <1>b, <1>c, <2>1, RestsAck
<1> QED
  BY <1>1, <1>2, <1>3, <1>4

LEMMA InitKept == Init => KeepInv /\ AckInv
<1> SUFFICES ASSUME Init PROVE KeepInv /\ AckInv
  OBVIOUS
<1>1. \A m \in Id : message[m] = None
  BY DEF Init
<1> QED
  BY <1>1 DEF KeepInv, AckInv, Between

-----------------------------------------------------------------------------
(* The timer of both users comes to the same, unless they set it at once *)

LastOn(q, on) ==
  \E i \in DOMAIN q : /\ q[i].type = "timer" /\ q[i].on = on
                      /\ \A j \in DOMAIN q : j > i => q[j].type # "timer"
Setting(u) == \E s \in Slot : act[u][s].step = "set"
Coming(u) == HasTimer(queue[u]) \/ \E s \in Slot : HasTimer(act[u][s].batch)
Ends(u, on) ==
  \/ \E s \in Slot : act[u][s].step = "set" /\ act[u][s].what.on = on
  \/ LastOn(queue[u], on)
  \/ ~HasTimer(queue[u]) /\ \E s \in Slot : LastOn(act[u][s].batch, on)
  \/ ~Coming(u) /\ ~Setting(u) /\ timer[u] = on
TimerInv == (Good /\ ~crossed) =>
  \A u, v \in User : v = Peer(u) =>
    /\ Coming(u) => ~Coming(v) /\ ~Setting(u)
    /\ Setting(u) => ~Setting(v)
    /\ \E on \in BOOLEAN : Ends(u, on) /\ Ends(v, on)

LEMMA LastEmpty ==
  /\ ~HasTimer(<<>>) /\ \A on : ~LastOn(<<>>, on)
  /\ \A q, on : LastOn(q, on) => HasTimer(q)
  BY DEF HasTimer, LastOn

LEMMA LastAppend ==
  ASSUME NEW q \in Seq(Envelope), NEW e \in Envelope
  PROVE  /\ e.type # "timer" =>
              /\ HasTimer(Append(q, e)) => HasTimer(q)
              /\ HasTimer(q) => HasTimer(Append(q, e))
              /\ \A on : LastOn(q, on) => LastOn(Append(q, e), on)
         /\ e.type = "timer" => LastOn(Append(q, e), e.on)
<1> PICK p : p = Append(q, e)
  OBVIOUS
<1>1. /\ DOMAIN p = 1 .. Len(q) + 1 /\ DOMAIN q = 1 .. Len(q) /\ Len(q) \in Nat
      /\ p[Len(q) + 1] = e /\ \A i \in DOMAIN q : p[i] = q[i]
  BY AppendIs
<1>2. ASSUME e.type # "timer", HasTimer(p) PROVE HasTimer(q)
  <2>1. PICK i \in DOMAIN p : p[i].type = "timer"
    BY <1>2 DEF HasTimer
  <2>2. i \in DOMAIN q
    BY <1>1, <1>2, <2>1
  <2> QED
    BY <1>1, <2>1, <2>2 DEF HasTimer
<1>3. HasTimer(q) => HasTimer(p)
  BY <1>1 DEF HasTimer
<1>4. ASSUME e.type # "timer", NEW on, LastOn(q, on) PROVE LastOn(p, on)
  <2>1. PICK i \in DOMAIN q : /\ q[i].type = "timer" /\ q[i].on = on
                              /\ \A j \in DOMAIN q : j > i => q[j].type # "timer"
    BY <1>4 DEF LastOn
  <2>2. i \in DOMAIN p /\ p[i].type = "timer" /\ p[i].on = on
    BY <1>1, <2>1
  <2>3. ASSUME NEW j \in DOMAIN p, j > i PROVE p[j].type # "timer"
    <3>1. CASE j \in DOMAIN q
      BY <1>1, <2>1, <2>3, <3>1
    <3>2. CASE j \notin DOMAIN q
      BY <1>1, <1>4, <3>2
    <3> QED
      BY <3>1, <3>2
  <2> QED
    BY <2>2, <2>3 DEF LastOn
<1>5. ASSUME e.type = "timer" PROVE LastOn(p, e.on)
  <2>1. PICK i : i = Len(q) + 1
    OBVIOUS
  <2>2. i \in DOMAIN p /\ p[i].type = "timer" /\ p[i].on = e.on
    BY <1>1, <1>5, <2>1
  <2>3. \A j \in DOMAIN p : ~(j > i)
    BY <1>1, <2>1
  <2> QED
    BY <2>2, <2>3 DEF LastOn
<1> QED
  BY <1>2, <1>3, <1>4, <1>5

LEMMA LastTail ==
  ASSUME NEW q \in Seq(Envelope), q # <<>>
  PROVE  /\ HasTimer(Tail(q)) => HasTimer(q)
         /\ Head(q).type # "timer" =>
              /\ HasTimer(q) => HasTimer(Tail(q))
              /\ \A on : LastOn(q, on) => LastOn(Tail(q), on)
         /\ Head(q).type = "timer" =>
              /\ HasTimer(q)
              /\ \A on : LastOn(q, on) => LastOn(Tail(q), on) \/ (Head(q).on = on /\ ~HasTimer(Tail(q)))
<1> PICK p : p = Tail(q)
  OBVIOUS
<1>1. /\ Head(q) = q[1] /\ DOMAIN q = 1 .. Len(q) /\ DOMAIN p = 1 .. Len(q) - 1 /\ Len(q) \in Nat /\ Len(q) > 0
      /\ \A i \in DOMAIN p : p[i] = q[i + 1]
  OBVIOUS
<1>2. HasTimer(p) => HasTimer(q)
  <2> SUFFICES ASSUME NEW i \in DOMAIN p, p[i].type = "timer" PROVE HasTimer(q)
    BY DEF HasTimer
  <2>1. i + 1 \in DOMAIN q /\ q[i + 1].type = "timer"
    BY <1>1
  <2> QED
    BY <2>1 DEF HasTimer
<1>3. ASSUME Head(q).type # "timer", HasTimer(q) PROVE HasTimer(p)
  <2>1. PICK i \in DOMAIN q : q[i].type = "timer"
    BY <1>3 DEF HasTimer
  <2>2. i - 1 \in DOMAIN p /\ p[i - 1] = q[i]
    BY <1>1, <1>3, <2>1
  <2> QED
    BY <2>1, <2>2 DEF HasTimer
<1>4. ASSUME NEW on, LastOn(q, on)
      PROVE  LastOn(p, on) \/ (Head(q).type = "timer" /\ Head(q).on = on /\ ~HasTimer(p))
  <2>1. PICK i \in DOMAIN q : /\ q[i].type = "timer" /\ q[i].on = on
                              /\ \A j \in DOMAIN q : j > i => q[j].type # "timer"
    BY <1>4 DEF LastOn
  <2>2. CASE i = 1
    <3>1. ASSUME NEW k \in DOMAIN p PROVE p[k].type # "timer"
      <4>1. k + 1 \in DOMAIN q /\ k + 1 > i /\ p[k] = q[k + 1]
        BY <1>1, <2>2
      <4> QED
        BY <2>1, <4>1
    <3> QED
      BY <1>1, <2>1, <2>2, <3>1 DEF HasTimer
  <2>3. CASE i # 1
    <3>1. i - 1 \in DOMAIN p /\ p[i - 1] = q[i]
      BY <1>1, <2>1, <2>3
    <3>2. ASSUME NEW k \in DOMAIN p, k > i - 1 PROVE p[k].type # "timer"
      <4>1. k + 1 \in DOMAIN q /\ k + 1 > i /\ p[k] = q[k + 1]
        BY <1>1, <3>2
      <4> QED
        BY <2>1, <4>1
    <3> QED
      BY <2>1, <3>1, <3>2 DEF LastOn
  <2> QED
    BY <2>2, <2>3
<1>5. Head(q).type = "timer" => HasTimer(q)
  <2>1. 1 \in DOMAIN q
    BY <1>1
  <2> QED
    BY <1>1, <2>1 DEF HasTimer
<1> QED
  BY <1>2, <1>3, <1>4, <1>5

-----------------------------------------------------------------------------
(* Steps that bring no new timer *)

Settles(u) ==
  /\ Coming(u)' => Coming(u)
  /\ Setting(u)' => Setting(u)
  /\ \A on \in BOOLEAN : Ends(u, on) => Ends(u, on)'

LEMMA TimersNext ==
  ASSUME TimerInv, Good' => Good, crossed => crossed', \A u \in User : Settles(u)
  PROVE  TimerInv'
<1>1. TimerInv' = ((Good' /\ ~crossed') =>
        \A u, v \in User : v = Peer(u)' =>
          /\ Coming(u)' => ~Coming(v)' /\ ~Setting(u)'
          /\ Setting(u)' => ~Setting(v)'
          /\ \E on \in BOOLEAN : Ends(u, on)' /\ Ends(v, on)')
  BY DEF TimerInv
<1> SUFFICES ASSUME Good, ~crossed, NEW u \in User, NEW v \in User, v = Peer(u)
             PROVE  /\ Coming(u)' => ~Coming(v)' /\ ~Setting(u)'
                    /\ Setting(u)' => ~Setting(v)'
                    /\ \E on \in BOOLEAN : Ends(u, on)' /\ Ends(v, on)'
  BY <1>1 DEF Peer
<1>2. /\ Coming(u) => ~Coming(v) /\ ~Setting(u)
      /\ Setting(u) => ~Setting(v)
  BY DEF TimerInv
<1>3. PICK on \in BOOLEAN : Ends(u, on) /\ Ends(v, on)
  BY DEF TimerInv
<1>4. Settles(u) /\ Settles(v)
  OBVIOUS
<1> QED
  BY <1>2, <1>3, <1>4 DEF Settles

(* The timers that a queue or a batch brings stay the same ones *)
SameTimers(p, q) ==
  /\ HasTimer(p) = HasTimer(q)
  /\ \A on \in BOOLEAN : LastOn(q, on) => LastOn(p, on)

LEMMA SettlesSame ==
  ASSUME NEW u \in User, timer'[u] = timer[u], SameTimers(queue'[u], queue[u]),
         \A s \in Slot : /\ SameTimers(act'[u][s].batch, act[u][s].batch)
                         /\ act'[u][s].step = "set" => act[u][s].step = "set"
                         /\ act[u][s].step = "set" =>
                              act'[u][s].step = "set" /\ act'[u][s].what = act[u][s].what
  PROVE  Settles(u)
<1>1. Coming(u)' = (HasTimer(queue'[u]) \/ \E s \in Slot : HasTimer(act'[u][s].batch))
  BY DEF Coming, HasTimer
<1>2. Setting(u)' = \E s \in Slot : act'[u][s].step = "set"
  BY DEF Setting
<1>3. Coming(u)' = Coming(u)
  BY <1>1 DEF Coming, SameTimers
<1>4. Setting(u)' = Setting(u)
  BY <1>2 DEF Setting
<1>5. ASSUME NEW on \in BOOLEAN, Ends(u, on) PROVE Ends(u, on)'
  <2>1. Ends(u, on)' = (\/ \E s \in Slot : act'[u][s].step = "set" /\ act'[u][s].what.on = on
                        \/ LastOn(queue'[u], on)
                        \/ ~HasTimer(queue'[u]) /\ \E s \in Slot : LastOn(act'[u][s].batch, on)
                        \/ ~Coming(u)' /\ ~Setting(u)' /\ timer'[u] = on)
    BY DEF Ends, LastOn, HasTimer
  <2>2. CASE \E s \in Slot : act[u][s].step = "set" /\ act[u][s].what.on = on
    BY <2>1, <2>2
  <2>3. CASE LastOn(queue[u], on)
    BY <2>1, <2>3 DEF SameTimers
  <2>4. CASE ~HasTimer(queue[u]) /\ \E s \in Slot : LastOn(act[u][s].batch, on)
    BY <2>1, <2>4 DEF SameTimers
  <2>5. CASE ~Coming(u) /\ ~Setting(u) /\ timer[u] = on
    BY <1>3, <1>4, <2>1, <2>5
  <2> QED
    BY <1>5, <2>2, <2>3, <2>4, <2>5 DEF Ends
<1> QED
  BY <1>3, <1>4, <1>5 DEF Settles

LEMMA SameIs ==
  /\ \A q : SameTimers(q, q)
  /\ \A q \in Seq(Envelope), e \in Envelope : e.type # "timer" => SameTimers(Append(q, e), q)
  /\ \A q \in Seq(Envelope) : q # <<>> /\ Head(q).type # "timer" => SameTimers(Tail(q), q)
<1>1. \A q : SameTimers(q, q)
  BY DEF SameTimers
<1>2. ASSUME NEW q \in Seq(Envelope), NEW e \in Envelope, e.type # "timer"
      PROVE  SameTimers(Append(q, e), q)
  <2>1. HasTimer(Append(q, e)) \in BOOLEAN /\ HasTimer(q) \in BOOLEAN
    BY DEF HasTimer
  <2> QED
    BY <1>2, <2>1, LastAppend DEF SameTimers
<1>3. ASSUME NEW q \in Seq(Envelope), q # <<>>, Head(q).type # "timer"
      PROVE  SameTimers(Tail(q), q)
  <2>1. HasTimer(Tail(q)) \in BOOLEAN /\ HasTimer(q) \in BOOLEAN
    BY DEF HasTimer
  <2> QED
    BY <1>3, <2>1, LastTail DEF SameTimers
<1> QED
  BY <1>1, <1>2, <1>3

LEMMA OthersSettle ==
  ASSUME NEW u \in User, NEW s \in Slot, Elsewhere(u, s), NEW x \in User, timer'[x] = timer[x],
         SameTimers(queue'[x], queue[x]),
         x = u => /\ SameTimers(act'[u][s].batch, act[u][s].batch)
                  /\ act[u][s].step # "set" /\ act'[u][s].step # "set"
  PROVE  Settles(x)
<1>1. ASSUME NEW r \in Slot
      PROVE  /\ SameTimers(act'[x][r].batch, act[x][r].batch)
             /\ act'[x][r].step = "set" => act[x][r].step = "set"
             /\ act[x][r].step = "set" => act'[x][r].step = "set" /\ act'[x][r].what = act[x][r].what
  <2>1. CASE <<x, r>> = <<u, s>>
    BY <2>1
  <2>2. CASE <<x, r>> # <<u, s>>
    <3>1. Looks(act'[x][r], act[x][r])
      BY <2>2 DEF Elsewhere
    <3>2. act'[x][r].batch = act[x][r].batch /\ act'[x][r].step = act[x][r].step
          /\ act'[x][r].what = act[x][r].what
      BY <3>1 DEF Looks
    <3> QED
      BY <3>2, SameIs
  <2> QED
    BY <2>1, <2>2
<1> QED
  BY <1>1, SettlesSame

LEMMA StepSettles ==
  ASSUME NEW u \in User, NEW s \in Slot, Elsewhere(u, s), timer' = timer,
         \A x \in User : SameTimers(queue'[x], queue[x]),
         SameTimers(act'[u][s].batch, act[u][s].batch),
         act[u][s].step # "set", act'[u][s].step # "set"
  PROVE  \A x \in User : Settles(x)
<1> SUFFICES ASSUME NEW x \in User PROVE Settles(x)
  OBVIOUS
<1>1. timer'[x] = timer[x]
  OBVIOUS
<1> QED
  BY <1>1, OthersSettle

LEMMA AppendSame ==
  ASSUME TypeInv, NEW w \in User, NEW e \in Envelope, e.type # "timer",
         queue'[w] = Append(queue[w], e), \A x \in User \ {w} : queue'[x] = queue[x]
  PROVE  \A x \in User : SameTimers(queue'[x], queue[x])
<1>1. queue[w] \in Seq(Envelope)
  BY ActType
<1>2. SameTimers(queue'[w], queue[w])
  BY <1>1, SameIs
<1> QED
  BY <1>2, SameIs

LEMMA PostedSettles ==
  ASSUME TypeInv, NEW u \in User, NEW s \in Slot, Posted(u, s), act[u][s].op # "timer"
  PROVE  \A x \in User : Settles(x)
<1> PICK e, w : e = act[u][s].what /\ w = Peer(u)
  OBVIOUS
<1>1. /\ Others(u, s) /\ act[u][s].step = "post" /\ act'[u][s].step \in {"load", "set"}
      /\ act'[u][s].step = "set" <=> act[u][s].op = "timer"
      /\ act'[u][s].batch = act[u][s].batch /\ e \in Envelope
      /\ queue'[w] = Append(queue[w], e) /\ \A x \in User \ {w} : queue'[x] = queue[x]
      /\ w \in User
  BY PostedFields
<1>2. e.type # "timer"
  <2>1. e \in Text \/ e \in Opening
    BY <1>1, ActivationType DEF ActOK
  <2> QED
    BY <2>1 DEF Text, Opening
<1>3. \A x \in User : SameTimers(queue'[x], queue[x])
  BY <1>1, <1>2, AppendSame
<1>4. timer' = timer
  BY DEF Posted, disk
<1> QED
  BY <1>1, <1>3, <1>4, SameIs, OthersElsewhere, StepSettles

LEMMA ReceiptSettles ==
  ASSUME TypeInv, NEW u \in User, NEW s \in Slot, Receipt(u, s)
  PROVE  \A x \in User : Settles(x)
<1> PICK m, w, step : m = Head(act[u][s].batch).id /\ w = Peer(u) /\ step = act[u][s].step
  OBVIOUS
<1> PICK e : e = [type |-> step, id |-> m]
  OBVIOUS
<1>1. /\ Others(u, s) /\ step \in {"delivered", "read"}
      /\ step = "delivered" => act'[u][s].step = "read" /\ act'[u][s].batch = act[u][s].batch
      /\ step = "read" => act'[u][s].step = "handle" /\ act'[u][s].batch = Tail(act[u][s].batch)
      /\ e \in Envelope /\ w \in User
      /\ queue'[w] = Append(queue[w], e) /\ \A v \in User \ {w} : queue'[v] = queue[v]
  BY ReceiptFields
<1>2. e.type # "timer"
  BY <1>1
<1>3. \A x \in User : SameTimers(queue'[x], queue[x])
  BY <1>1, <1>2, AppendSame
<1>4. timer' = timer
  BY DEF Receipt, disk
<1>5. act[u][s].batch # <<>> /\ Head(act[u][s].batch).type # "timer" /\ act[u][s].batch \in Seq(Envelope)
  BY <1>1, ActivationType DEF ActOK
<1>6. SameTimers(act'[u][s].batch, act[u][s].batch)
  BY <1>1, <1>5, SameIs
<1> QED
  BY <1>1, <1>3, <1>4, <1>6, OthersElsewhere, StepSettles

LEMMA HandleSettles ==
  ASSUME TypeInv, TimerInv, Good, ~crossed, NEW u \in User, NEW s \in Slot, Handle(u, s), Only(u, s)
  PROVE  \A x \in User : Settles(x)
<1> PICK q, e : q = act[u][s].batch /\ e = Head(q)
  OBVIOUS
<1>1. /\ Others(u, s) /\ act[u][s].step = "handle" /\ q # <<>> /\ e \in Envelope
      /\ \/ act'[u][s].step = "handle" /\ act'[u][s].batch = Tail(q)
         \/ act'[u][s].step = "delivered" /\ act'[u][s].batch = q /\ e.type = "message"
  BY HandleFields
<1>2. q \in Seq(Envelope) /\ Elsewhere(u, s)
  BY <1>1, ActivationType, OthersElsewhere
<1>3. queue' = queue
  BY DEF Handle
<1>4. \A x \in User : SameTimers(queue'[x], queue[x])
  BY <1>3, SameIs
<1>5. CASE e.type # "timer"
  <2>1. timer' = timer
    BY <1>5 DEF Handle
  <2>2. SameTimers(act'[u][s].batch, act[u][s].batch)
    BY <1>1, <1>2, <1>5, SameIs
  <2> QED
    BY <1>1, <1>2, <1>4, <2>1, <2>2, StepSettles
<1>6. CASE e.type = "timer"
  <2>1. timer' = [timer EXCEPT ![u] = e.on]
    BY <1>6 DEF Handle
  <2>2. timer \in [User -> BOOLEAN]
    BY DEF TypeInv, TypeOK
  <2>3. act'[u][s].step = "handle" /\ act'[u][s].batch = Tail(q)
    BY <1>1, <1>6
  <2>4. \A x \in User \ {u} : Settles(x)
    <3>1. \A x \in User \ {u} : timer'[x] = timer[x]
      BY <2>1, <2>2
    <3> QED
      BY <1>2, <1>4, <3>1, OthersSettle
  <2>5. /\ HasTimer(Tail(q)) => HasTimer(q)
        /\ HasTimer(q)
        /\ \A on : LastOn(q, on) => LastOn(Tail(q), on) \/ (e.on = on /\ ~HasTimer(Tail(q)))
    BY <1>1, <1>2, <1>6, LastTail
  <2>6. \A r \in Slot \ {s} : act'[u][r] = Idle /\ act[u][r] = Idle
    BY <1>1 DEF Only, Others
  <2>7. Coming(u)' = (HasTimer(queue[u]) \/ HasTimer(Tail(q)))
    <3>1. Coming(u)' = (HasTimer(queue'[u]) \/ \E r \in Slot : HasTimer(act'[u][r].batch))
      BY DEF Coming, HasTimer
    <3> QED
      BY <1>3, <2>3, <2>6, <3>1, LastEmpty, IdleFields
  <2>8. Coming(u)
    BY <2>5 DEF Coming
  <2>9. ~Setting(u) /\ ~Setting(u)'
    <3>1. Setting(u)' = \E r \in Slot : act'[u][r].step = "set"
      BY DEF Setting
    <3> QED
      BY <1>1, <2>3, <2>6, <3>1, IdleFields DEF Setting
  <2>10. ASSUME NEW on \in BOOLEAN, Ends(u, on) PROVE Ends(u, on)'
    <3>1. Ends(u, on)' = (\/ \E r \in Slot : act'[u][r].step = "set" /\ act'[u][r].what.on = on
                          \/ LastOn(queue'[u], on)
                          \/ ~HasTimer(queue'[u]) /\ \E r \in Slot : LastOn(act'[u][r].batch, on)
                          \/ ~Coming(u)' /\ ~Setting(u)' /\ timer'[u] = on)
      BY DEF Ends, LastOn, HasTimer
    <3>2. LastOn(queue[u], on) \/ (~HasTimer(queue[u]) /\ LastOn(q, on))
      BY <2>6, <2>8, <2>9, <2>10, LastEmpty, IdleFields DEF Ends, Setting
    <3>3. CASE LastOn(queue[u], on)
      BY <1>3, <3>1, <3>3
    <3>4. CASE ~HasTimer(queue[u]) /\ LastOn(Tail(q), on)
      BY <1>3, <2>3, <3>1, <3>4
    <3>5. CASE ~HasTimer(queue[u]) /\ e.on = on /\ ~HasTimer(Tail(q))
      BY <2>1, <2>2, <2>7, <2>9, <3>1, <3>5
    <3> QED
      BY <2>5, <3>2, <3>3, <3>4, <3>5
  <2>11. Settles(u)
    BY <2>8, <2>9, <2>10 DEF Settles
  <2> QED
    BY <2>4, <2>11
<1> QED
  BY <1>5, <1>6

LEMMA FetchSettles ==
  ASSUME TypeInv, RoleInv, NEW u \in User, NEW s \in Slot, Fetch(u, s), Only(u, s)
  PROVE  \A x \in User : Settles(x)
<1>1. /\ Others(u, s) /\ act[u][s].step = "fetch" /\ act'[u][s].step = "load"
      /\ act'[u][s].batch = queue[u] /\ queue'[u] = <<>>
      /\ \A v \in User \ {u} : queue'[v] = queue[v]
  BY FetchFields
<1>2. act[u][s].batch = <<>>
  <2>1. ~act[u][s].some
    BY <1>1 DEF RoleInv, Role
  <2> QED
    BY <2>1, ActivationType DEF ActOK
<1>3. timer' = timer
  BY DEF Fetch, disk
<1>4. \A x \in User \ {u} : Settles(x)
  <2>1. \A x \in User \ {u} : SameTimers(queue'[x], queue[x])
    BY <1>1, SameIs
  <2> QED
    BY <1>1, <1>3, <2>1, OthersElsewhere, OthersSettle
<1>5. \A r \in Slot \ {s} : act'[u][r] = Idle /\ act[u][r] = Idle
  BY <1>1 DEF Only, Others
<1>6. ~Setting(u) /\ ~Setting(u)'
  <2>1. Setting(u)' = \E r \in Slot : act'[u][r].step = "set"
    BY DEF Setting
  <2> QED
    BY <1>1, <1>5, <2>1, IdleFields DEF Setting
<1>7. Coming(u) = HasTimer(queue[u]) /\ Coming(u)' = HasTimer(queue[u])
  <2>1. Coming(u)' = (HasTimer(queue'[u]) \/ \E r \in Slot : HasTimer(act'[u][r].batch))
    BY DEF Coming, HasTimer
  <2>2. HasTimer(queue[u]) \in BOOLEAN
    BY DEF HasTimer
  <2>3. Coming(u) = HasTimer(queue[u])
    BY <1>2, <1>5, <2>2, LastEmpty, IdleFields DEF Coming
  <2>4. Coming(u)' = HasTimer(queue[u])
    BY <1>1, <1>5, <2>1, <2>2, LastEmpty, IdleFields
  <2> QED
    BY <2>3, <2>4
<1>8. ASSUME NEW on \in BOOLEAN, Ends(u, on) PROVE Ends(u, on)'
  <2>1. Ends(u, on)' = (\/ \E r \in Slot : act'[u][r].step = "set" /\ act'[u][r].what.on = on
                        \/ LastOn(queue'[u], on)
                        \/ ~HasTimer(queue'[u]) /\ \E r \in Slot : LastOn(act'[u][r].batch, on)
                        \/ ~Coming(u)' /\ ~Setting(u)' /\ timer'[u] = on)
    BY DEF Ends, LastOn, HasTimer
  <2>2. LastOn(queue[u], on) \/ (~Coming(u) /\ timer[u] = on)
    BY <1>2, <1>5, <1>6, <1>8, LastEmpty, IdleFields DEF Ends, Setting
  <2>3. CASE LastOn(queue[u], on)
    BY <1>1, <2>1, <2>3, LastEmpty
  <2>4. CASE ~Coming(u) /\ timer[u] = on
    BY <1>3, <1>6, <1>7, <2>1, <2>4
  <2> QED
    BY <2>2, <2>3, <2>4
<1>9. Settles(u)
  BY <1>6, <1>7, <1>8 DEF Settles
<1> QED
  BY <1>4, <1>9

(* The timer that a user has set away becomes the user's own *)
LEMMA TimerSetSettles ==
  ASSUME TypeInv, TimerInv, Good, ~crossed, NEW u \in User, NEW s \in Slot, TimerSet(u, s), Only(u, s)
  PROVE  \A x \in User : Settles(x)
<1> PICK to : to = act[u][s].what.on
  OBVIOUS
<1>1. /\ act[u][s].step = "set" /\ act' = [act EXCEPT ![u][s] = Idle]
      /\ queue' = queue /\ timer' = [timer EXCEPT ![u] = to]
  BY DEF TimerSet
<1>2. timer \in [User -> BOOLEAN]
  BY DEF TypeInv, TypeOK
<1>3. Others(u, s) /\ act'[u][s] = Idle /\ Elsewhere(u, s)
  BY <1>1, EndFields, OthersElsewhere
<1>4. \A x \in User : SameTimers(queue'[x], queue[x])
  BY <1>1, SameIs
<1>5. \A x \in User \ {u} : Settles(x)
  <2>1. \A x \in User \ {u} : timer'[x] = timer[x]
    BY <1>1, <1>2
  <2> QED
    BY <1>3, <1>4, <2>1, OthersSettle
<1>6. Setting(u) /\ ~Coming(u)
  <2>1. Setting(u)
    BY <1>1 DEF Setting
  <2>2. \A v \in User : v = Peer(u) => (Coming(u) => ~Setting(u))
    BY DEF TimerInv
  <2> QED
    BY <2>1, <2>2, PeerType
<1>7. \A r \in Slot \ {s} : act'[u][r] = Idle /\ act[u][r] = Idle
  BY <1>3 DEF Only, Others
<1>8. ~Coming(u)' /\ ~Setting(u)'
  <2>1. Coming(u)' = (HasTimer(queue'[u]) \/ \E r \in Slot : HasTimer(act'[u][r].batch))
    BY DEF Coming, HasTimer
  <2>2. Setting(u)' = \E r \in Slot : act'[u][r].step = "set"
    BY DEF Setting
  <2>3. ~HasTimer(queue'[u])
    BY <1>1, <1>6 DEF Coming
  <2> QED
    BY <1>3, <1>7, <2>1, <2>2, <2>3, LastEmpty, IdleFields
<1>9. ASSUME NEW on \in BOOLEAN, Ends(u, on) PROVE Ends(u, on)'
  <2>1. Ends(u, on)' = (\/ \E r \in Slot : act'[u][r].step = "set" /\ act'[u][r].what.on = on
                        \/ LastOn(queue'[u], on)
                        \/ ~HasTimer(queue'[u]) /\ \E r \in Slot : LastOn(act'[u][r].batch, on)
                        \/ ~Coming(u)' /\ ~Setting(u)' /\ timer'[u] = on)
    BY DEF Ends, LastOn, HasTimer
  <2>2. ~LastOn(queue[u], on) /\ \A r \in Slot : ~LastOn(act[u][r].batch, on)
    BY <1>6, LastEmpty DEF Coming
  <2>3. \E r \in Slot : act[u][r].step = "set" /\ act[u][r].what.on = on
    BY <1>6, <1>9, <2>2 DEF Ends
  <2>4. to = on
    BY <1>7, <2>3, IdleFields
  <2>5. timer'[u] = on
    BY <1>1, <1>2, <2>4
  <2> QED
    BY <1>8, <2>1, <2>5
<1>10. Settles(u)
  BY <1>6, <1>8, <1>9 DEF Settles
<1> QED
  BY <1>5, <1>10

LEMMA GoesOnSettles ==
  ASSUME TypeInv, RoleInv, TimerInv, Good, ~crossed, NEW u \in User, NEW s \in Slot,
         GoesOn(u, s), Only(u, s), ~(Posted(u, s) /\ act[u][s].op = "timer")
  PROVE  \A x \in User : Settles(x)
<1>0. Role(s, act[u][s]) /\ ActOK(act[u][s])
  BY ActivationType DEF RoleInv
<1>1. ASSUME NEW step \in {"save", "handle"}, NEW copy, Holds(u, s, step, copy), queue' = queue, timer' = timer,
             act[u][s].step # "set"
      PROVE  \A x \in User : Settles(x)
  <2>1. Others(u, s) /\ act'[u][s].step = step /\ act'[u][s].batch = act[u][s].batch
    BY <1>1, HoldsFields
  <2>2. SameTimers(act'[u][s].batch, act[u][s].batch) /\ \A x \in User : SameTimers(queue'[x], queue[x])
    BY <1>1, <2>1, SameIs
  <2> QED
    BY <1>1, <2>1, <2>2, OthersElsewhere, StepSettles
<1>2. ASSUME act'[u][s] = Idle, Elsewhere(u, s), queue' = queue, timer' = timer, act[u][s].batch = <<>>,
             act[u][s].step # "set"
      PROVE  \A x \in User : Settles(x)
  <2>1. SameTimers(act'[u][s].batch, act[u][s].batch) /\ \A x \in User : SameTimers(queue'[x], queue[x])
    BY <1>2, SameIs, IdleFields
  <2>2. act'[u][s].step # "set"
    BY <1>2, IdleFields
  <2> QED
    BY <1>2, <2>1, <2>2, StepSettles
<1>3. CASE Posted(u, s)
  BY <1>3, PostedSettles
<1>4. CASE TimerSet(u, s)
  BY <1>4, TimerSetSettles
<1>5. CASE Appended(u, s) \/ PollLoaded(u, s)
  <2>1. queue' = queue /\ timer' = timer /\ act[u][s].step # "set"
    BY <1>5 DEF Appended, PollLoaded, disk
  <2>2. \E copy : \E step \in {"save", "handle"} : Holds(u, s, step, copy)
    BY <1>5 DEF Appended, PollLoaded
  <2> QED
    BY <1>1, <2>1, <2>2
<1>6. CASE Opened(u, s) \/ Sweep(u, s)
  <2>1. queue' = queue /\ timer' = timer /\ act[u][s].step # "set"
    BY <1>6 DEF Opened, Sweep, disk
  <2>2. act[u][s].batch = <<>>
    BY <1>0, <1>6 DEF Opened, Sweep, Role, ActOK
  <2>3. act' = [act EXCEPT ![u][s] = Idle] \/ \E copy : Holds(u, s, "save", copy)
    BY <1>6 DEF Opened, Sweep, Return
  <2>4. CASE act' = [act EXCEPT ![u][s] = Idle]
    <3>1. act'[u][s] = Idle /\ Elsewhere(u, s)
      BY <2>4, EndFields, OthersElsewhere
    <3> QED
      BY <1>2, <2>1, <2>2, <3>1
  <2> QED
    BY <1>1, <2>1, <2>3, <2>4
<1>7. CASE Save(u, s)
  <2>1. queue' = queue /\ timer' = timer /\ act[u][s].step = "save"
    BY <1>7 DEF Save
  <2>2. act'[u][s] = Idle /\ Elsewhere(u, s)
    BY <1>7, SaveFields, SaveElsewhere
  <2>3. act[u][s].batch = <<>>
    BY <1>0, <2>1 DEF Role
  <2> QED
    BY <1>2, <2>1, <2>2, <2>3
<1>8. CASE Fetch(u, s)
  BY <1>8, FetchSettles
<1>9. CASE Handle(u, s)
  BY <1>9, HandleSettles
<1>10. CASE Receipt(u, s)
  BY <1>10, ReceiptSettles
<1> QED
  BY <1>3, <1>4, <1>5, <1>6, <1>7, <1>8, <1>9, <1>10 DEF GoesOn

LEMMA StartsSettles ==
  ASSUME TypeInv, NEW u \in User, NEW s \in Slot, Act(u, s) \/ Poll(u, s)
  PROVE  (\A x \in User : Settles(x)) /\ crossed' = crossed
<1>1. Starts(u, s)
  BY ActStarts
<1>2. timer' = timer /\ crossed' = crossed
  BY DEF Act, Send, OpenFile, SetTimer, Poll, disk
<1>3. /\ Elsewhere(u, s) /\ queue' = queue /\ act[u][s] = Idle
      /\ act'[u][s].step \in {"post", "fetch"} /\ act'[u][s].batch = <<>>
  BY <1>1 DEF Starts
<1>4. SameTimers(act'[u][s].batch, act[u][s].batch) /\ \A x \in User : SameTimers(queue'[x], queue[x])
  BY <1>3, SameIs, IdleFields
<1>5. act[u][s].step # "set"
  BY <1>3, IdleFields
<1> QED
  BY <1>2, <1>3, <1>4, <1>5, StepSettles

LEMMA RestsSettles ==
  ASSUME Rests
  PROVE  \A x \in User : Settles(x)
<1>1. timer' = timer /\ queue' = queue /\ \A x \in User, r \in Slot : act'[x][r] = act[x][r]
  BY DEF Rests, disk
<1> SUFFICES ASSUME NEW x \in User PROVE Settles(x)
  OBVIOUS
<1>2. SameTimers(queue'[x], queue[x]) /\ \A r \in Slot : SameTimers(act'[x][r].batch, act[x][r].batch)
  BY <1>1, SameIs
<1> QED
  BY <1>1, <1>2, SettlesSame

(* The users are each the peer of the other *)
TwoUsers == \E a, b : User = {a, b}
Paired == \A u \in User : Peer(Peer(u)) = u

LEMMA TwoPaired == TwoUsers => Paired
<1> SUFFICES ASSUME NEW a, NEW b, User = {a, b}, NEW u \in User PROVE Peer(Peer(u)) = u
  BY DEF TwoUsers, Paired
<1> PICK v, w : v = Peer(u) /\ w = Peer(v)
  OBVIOUS
<1>1. v \in User /\ v # u
  BY PeerIsNot
<1>2. w \in User /\ w # v
  BY <1>1, PeerIsNot
<1> QED
  BY <1>1, <1>2

(* Who sets a timer sends it first: as no other is under way, the peer comes *)
(* to the same                                                               *)
LEMMA PostedTimer ==
  ASSUME TypeInv, Paired, TimerInv, Good, NEW u \in User, NEW s \in Slot, Posted(u, s),
         act[u][s].op = "timer"
  PROVE  TimerInv'
<1>1. TimerInv' = ((Good' /\ ~crossed') =>
        \A x, y \in User : y = Peer(x)' =>
          /\ Coming(x)' => ~Coming(y)' /\ ~Setting(x)'
          /\ Setting(x)' => ~Setting(y)'
          /\ \E on \in BOOLEAN : Ends(x, on)' /\ Ends(y, on)')
  BY DEF TimerInv
<1> SUFFICES ASSUME ~crossed', NEW x \in User, NEW y \in User, y = Peer(x)
             PROVE  /\ Coming(x)' => ~Coming(y)' /\ ~Setting(x)'
                    /\ Setting(x)' => ~Setting(y)'
                    /\ \E on \in BOOLEAN : Ends(x, on)' /\ Ends(y, on)'
  BY <1>1 DEF Peer
<1> PICK v, e : v = Peer(u) /\ e = act[u][s].what
  OBVIOUS
<1>2. /\ Others(u, s) /\ Alike(act'[u][s], act[u][s]) /\ act[u][s].step = "post"
      /\ act'[u][s].step = "set" /\ act'[u][s].batch = act[u][s].batch
      /\ e \in Envelope /\ queue'[v] = Append(queue[v], e)
      /\ \A w \in User \ {v} : queue'[w] = queue[w]
      /\ v \in User
  BY PostedFields
<1>3. v # u /\ Peer(v) = u
  BY PeerIsNot DEF Paired
<1>4. e \in TimerChange
  BY ActivationType DEF ActOK
<1>5. e.type = "timer" /\ e.on \in BOOLEAN
  BY <1>4 DEF TimerChange
<1>6. ~crossed /\ ~TimerUnderWay(u) /\ timer' = timer
  BY DEF Posted, disk
<1>7. ~HasTimer(queue[u]) /\ \A r \in Slot : ~HasTimer(act[u][r].batch) /\ act[v][r].step # "set"
  BY <1>6 DEF TimerUnderWay
<1>8. ~Coming(u)'
  <2>1. Coming(u)' = (HasTimer(queue'[u]) \/ \E r \in Slot : HasTimer(act'[u][r].batch))
    BY DEF Coming, HasTimer
  <2>2. queue'[u] = queue[u]
    BY <1>2, <1>3
  <2>3. \A r \in Slot : act'[u][r].batch = act[u][r].batch
    BY <1>2 DEF Others
  <2> QED
    BY <1>7, <2>1, <2>2, <2>3
<1>9. ~Setting(v)'
  <2>1. Setting(v)' = \E r \in Slot : act'[v][r].step = "set"
    BY DEF Setting
  <2>2. \A r \in Slot : act'[v][r] = act[v][r]
    BY <1>2, <1>3 DEF Others
  <2> QED
    BY <1>7, <2>1, <2>2
<1>10. Ends(u, e.on)'
  <2>1. act'[u][s].step = "set" /\ act'[u][s].what.on = e.on
    BY <1>2 DEF Alike
  <2> QED
    BY <2>1 DEF Ends
<1>11. Ends(v, e.on)'
  <2>1. LastOn(queue'[v], e.on)
    <3>1. queue[v] \in Seq(Envelope)
      BY <1>2, ActType
    <3> QED
      BY <1>2, <1>5, <3>1, LastAppend
  <2> QED
    BY <2>1 DEF Ends, LastOn
<1>12. CASE x = u
  BY <1>3, <1>5, <1>8, <1>9, <1>10, <1>11, <1>12
<1>13. CASE x = v
  BY <1>3, <1>5, <1>8, <1>9, <1>10, <1>11, <1>13
<1>14. CASE x \notin {u, v}
  <2>1. y \notin {u, v}
    BY <1>3, <1>14 DEF Paired
  <2>2. ASSUME NEW w \in User, w \notin {u, v} PROVE Settles(w)
    <3>1. queue'[w] = queue[w] /\ timer'[w] = timer[w] /\ \A r \in Slot : act'[w][r] = act[w][r]
      BY <1>2, <1>6, <2>2 DEF Others
    <3>2. SameTimers(queue'[w], queue[w]) /\ \A r \in Slot : SameTimers(act'[w][r].batch, act[w][r].batch)
      BY <3>1, SameIs
    <3> QED
      BY <3>1, <3>2, SettlesSame
  <2>3. /\ Coming(x) => ~Coming(y) /\ ~Setting(x)
        /\ Setting(x) => ~Setting(y)
    BY <1>6 DEF TimerInv
  <2>4. PICK on \in BOOLEAN : Ends(x, on) /\ Ends(y, on)
    BY <1>6 DEF TimerInv
  <2>5. Settles(x) /\ Settles(y)
    BY <1>14, <2>1, <2>2
  <2> QED
    BY <2>3, <2>4, <2>5 DEF Settles
<1> QED
  BY <1>12, <1>13, <1>14

LEMMA NextTimer ==
  ASSUME TypeInv, RoleInv, AloneInv, Paired, TimerInv, [Next]_vars
  PROVE  TimerInv'
<1>1. CASE ~Good' \/ crossed'
  BY <1>1 DEF TimerInv
<1>2. CASE Good' /\ ~crossed'
  <2>1. /\ Good
        /\ \/ \E u \in User, s \in Slot : (Act(u, s) \/ Poll(u, s)) /\ AllIdle(u)
           \/ \E u \in User, s \in Slot : GoesOn(u, s) /\ Only(u, s)
           \/ Rests
    BY <1>2, GoodStep
  <2>2. ASSUME NEW u \in User, NEW s \in Slot, Act(u, s) \/ Poll(u, s) PROVE TimerInv'
    BY <2>1, <2>2, StartsSettles, TimersNext
  <2>3. ASSUME NEW u \in User, NEW s \in Slot, GoesOn(u, s), Only(u, s) PROVE TimerInv'
    <3>1. CASE Posted(u, s) /\ act[u][s].op = "timer"
      BY <2>1, <2>3, <3>1, PostedTimer
    <3>2. CASE ~(Posted(u, s) /\ act[u][s].op = "timer")
      <4>1. crossed' = crossed
        <5>1. CASE Posted(u, s)
          <6>1. crossed' = (crossed \/ (act[u][s].op = "timer" /\ TimerUnderWay(u)))
            BY <5>1 DEF Posted
          <6>2. crossed \in BOOLEAN /\ act[u][s].op # "timer"
            BY <3>2, <5>1 DEF TypeInv, TypeOK
          <6> QED
            BY <6>1, <6>2
        <5>2. CASE Save(u, s)
          BY <5>2 DEF Save
        <5>3. CASE ~Posted(u, s) /\ ~Save(u, s)
          BY <2>3, <5>3 DEF GoesOn, TimerSet, Appended, Opened, Fetch, PollLoaded, Handle, Receipt, Sweep, past
        <5> QED
          BY <5>1, <5>2, <5>3
      <4>2. \A x \in User : Settles(x)
        BY <1>2, <2>1, <2>3, <3>2, <4>1, GoesOnSettles
      <4> QED
        BY <2>1, <4>1, <4>2, TimersNext
    <3> QED
      BY <3>1, <3>2
  <2>4. CASE Rests
    <3>1. crossed' = crossed /\ \A x \in User : Settles(x)
      BY <2>4, RestsSettles DEF Rests
    <3> QED
      BY <2>1, <3>1, TimersNext
  <2> QED
    BY <2>1, <2>2, <2>3, <2>4
<1> QED
  BY <1>1, <1>2

LEMMA InitTimer == Init => TimerInv
<1> SUFFICES ASSUME Init PROVE TimerInv
  OBVIOUS
<1>1. ASSUME NEW u \in User PROVE ~Coming(u) /\ ~Setting(u) /\ timer[u] = FALSE
  <2>1. queue[u] = <<>> /\ timer[u] = FALSE /\ \A s \in Slot : act[u][s] = Idle
    BY DEF Init
  <2> QED
    BY <2>1, LastEmpty, IdleFields DEF Coming, Setting
<1>2. \A u \in User : Ends(u, FALSE)
  BY <1>1 DEF Ends
<1> QED
  BY <1>1, <1>2 DEF TimerInv

-----------------------------------------------------------------------------
(* What both users have once nothing is under way *)

AgreeInv == ReceiptsInv /\ CleanInv /\ KeepInv /\ AckInv /\ TimerInv

LEMMA InitAgree == Init => AgreeInv
  BY InitReceipts, InitClean, InitKept, InitTimer DEF AgreeInv

LEMMA NextAgree ==
  ASSUME TwoUsers
  PROVE  AgreeInv /\ [Next]_vars => AgreeInv'
<1> SUFFICES ASSUME AgreeInv, [Next]_vars PROVE AgreeInv'
  OBVIOUS
<1>1. ReceiptsInv' /\ Inv /\ TypeInv /\ RoleInv /\ PlaceInv /\ AloneInv /\ FlowInv
  BY NextReceipts DEF AgreeInv, ReceiptsInv, PlacesInv, Inv
<1>2. CleanInv'
  BY <1>1, NextClean DEF AgreeInv
<1>3. KeepInv'
  BY <1>1, NextKeep DEF AgreeInv
<1>4. AckInv'
  BY <1>1, NextAck DEF AgreeInv
<1>5. TimerInv'
  BY <1>1, TwoPaired, NextTimer DEF AgreeInv
<1> QED
  BY <1>1, <1>2, <1>3, <1>4, <1>5 DEF AgreeInv

LEMMA QuietIs ==
  ASSUME Quiet
  PROVE  /\ \A u \in User : queue[u] = <<>> /\ \A s \in Slot : act[u][s] = Idle
         /\ \A u \in User : \A type : Mail(u, type) = {}
         /\ OnWay("message") = {}
<1>1. \A u \in User : queue[u] = <<>> /\ \A s \in Slot : act[u][s] = Idle
  BY DEF Quiet, Busy
<1>2. \A u \in User : \A type : Mail(u, type) = {}
  BY <1>1, IdleLooks, MarksEmpty DEF Mail
<1>3. ASSUME NEW m \in OnWay("message") PROVE FALSE
  <2>1. CASE \E u \in User : m \in Marks(queue[u], "message")
    BY <1>1, <2>1, MarksEmpty
  <2>2. CASE \E u \in User, s \in Slot : m \in Carried(act[u][s])
    BY <1>1, <2>2, IdleLooks DEF Carried
  <2> QED
    BY <2>1, <2>2, OnWayIs
<1> QED
  BY <1>1, <1>2, <1>3

LEMMA QuietAgrees ==
  ASSUME AgreeInv, Paired, Quiet, Good, NEW u \in User
  PROVE  Agree(u)
<1> SUFFICES ASSUME NEW m \in Id, message[m] # None, message[m].by = u, NEW v \in User, v = Peer(u)
             PROVE  /\ m \in Ids(history[u]) \/ Gone(u, m)
                    /\ m \in Ids(history[v]) \/ Gone(v, m)
                    /\ m \in Ids(history[u]) =>
                         /\ message[m].kind = "text" => history[u][m].status = "read"
                         /\ m \in destroyed[v] => history[u][m].status = "opened"
  BY PeerType DEF Agree
<1>1. /\ \A x \in User : queue[x] = <<>> /\ \A s \in Slot : act[x][s] = Idle
      /\ \A x \in User : \A type : Mail(x, type) = {}
      /\ OnWay("message") = {}
  BY QuietIs
<1>2. m \in Ids(history[u]) \/ Gone(u, m)
  <2>1. Keeps(u, m)
    BY DEF AgreeInv, KeepInv
  <2>2. \A s \in Slot : m \notin Sends(act[u][s])
    BY <1>1, IdleLooks
  <2> QED
    BY <2>1, <2>2 DEF Keeps, Gone
<1>3. m \in Ids(history[v]) \/ Gone(v, m)
  <2>1. Got(v, m)
    BY <1>1 DEF AgreeInv, ReceiptsInv, ArriveInv, Sent1
  <2>2. ~clobbered[v] /\ ~(failed > 0)
    BY DEF AgreeInv, CleanInv, Good
  <2>3. \A s \in Poller : ~act[v][s].some
    BY <1>1, IdleFields, SlotSplit
  <2> QED
    BY <2>1, <2>2, <2>3 DEF Got, Gone
<1>4. Told1(u, v, m)
  <2>1. Between(u, v, m)
    BY DEF Between, Paired
  <2> QED
    BY <2>1 DEF AgreeInv, AckInv
<1>5. ASSUME NEW st, Noted(u, m, st), m \in Ids(history[u]) PROVE history[u][m].status = st
  <2>1. ~\E s \in Slot : WillSave(act[u][s])
    BY <1>1, IdleNotes
  <2> QED
    BY <1>5, <2>1 DEF Noted, Fits, Ids
<1>6. ASSUME m \in Ids(history[u]), message[m].kind = "text" PROVE history[u][m].status = "read"
  <2>1. ~Unread(u, v, m)
    BY <1>1, IdleLooks DEF Unread
  <2>2. Noted(u, m, "read")
    BY <1>4, <1>6, <2>1 DEF Told1, File
  <2> QED
    BY <1>5, <1>6, <2>2
<1>7. ASSUME m \in Ids(history[u]), m \in destroyed[v] PROVE history[u][m].status = "opened"
  <2>1. File(m)
    BY <1>7 DEF AgreeInv, ReceiptsInv, PlacesInv, PlaceInv, SpotInv
  <2>2. m \in OpenedBy(v)
    BY <1>7 DEF OpenedBy
  <2>3. Noted(u, m, "opened")
    BY <1>1, <1>4, <2>1, <2>2 DEF Told1
  <2> QED
    BY <1>5, <1>7, <2>3
<1> QED
  BY <1>2, <1>3, <1>6, <1>7

LEMMA QuietTimers ==
  ASSUME AgreeInv, Quiet, Good, ~crossed, NEW u \in User
  PROVE  timer[u] = timer[Peer(u)]
<1> PICK v \in User : v = Peer(u)
  BY PeerType
<1>1. PICK on \in BOOLEAN : Ends(u, on) /\ Ends(v, on)
  BY DEF AgreeInv, TimerInv
<1>2. ASSUME NEW x \in User, Ends(x, on) PROVE timer[x] = on
  <2>1. queue[x] = <<>> /\ \A s \in Slot : act[x][s] = Idle
    BY QuietIs
  <2>2. ~LastOn(queue[x], on) /\ \A s \in Slot : act[x][s].step # "set" /\ ~LastOn(act[x][s].batch, on)
    BY <2>1, LastEmpty, IdleFields
  <2> QED
    BY <1>2, <2>2 DEF Ends
<1> QED
  BY <1>1, <1>2

(* The two users agree once nothing is under way: what one sent the other has, *)
(* the sender's copy shows what the other did with it, and the timers are the  *)
(* same.  So it is enough that nothing fails, that what a page does does not   *)
(* overlap and that the users do not set the timer at once; in which order     *)
(* handlers, polls, receipts and timers come does not matter.                  *)
THEOREM BothAgree ==
  ASSUME TwoUsers
  PROVE  Spec => []Settled
<1>1. AgreeInv => Settled
  <2> SUFFICES ASSUME AgreeInv, Quiet, failed = 0, \A u \in User : ~overlapped[u]
               PROVE  /\ \A u \in User : Agree(u)
                      /\ crossed \/ \A u \in User : timer[u] = timer[Peer(u)]
    BY DEF Settled
  <2>1. Good /\ Paired
    BY TwoPaired DEF Good
  <2> QED
    BY <2>1, QuietAgrees, QuietTimers
<1> QED
  BY <1>1, InitAgree, NextAgree, PTL DEF Spec

=============================================================================
