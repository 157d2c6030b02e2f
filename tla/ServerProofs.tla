---------------------------- MODULE ServerProofs ----------------------------
(* Theorems about Server, for every value of its constants. *)
EXTENDS Server, SequenceTheorems, FiniteSetTheorems, FunctionTheorems, TLAPS

(***************************************************************************)
(* The typing of a request depends on its route and on its step: which of  *)
(* its fields are set.                                                     *)
(***************************************************************************)
StepsOf(o) ==
  CASE o = "none" -> {"idle"}
    [] o = "register" -> {"create"}
    [] o = "init" -> {"auth", "check", "issue"}
    [] o = "link" -> {"consume", "join"}
    [] o = "unlink" -> {"auth", "target", "check", "remove"}
    [] o = "send" -> {"auth", "sender", "insert", "commit"}
    [] o = "fetch" -> {"auth", "delete", "reply"}
    [] o = "bundle" -> {"auth", "identity", "signed", "kyber", "pick", "take"}

Shape(r) ==
  /\ r.step \in StepsOf(r.op)
  /\ r.op \in {"init", "unlink", "send", "fetch", "bundle"} => r.caller \in Device
  /\ r.op \in {"register", "link", "unlink", "send", "bundle"} => r.target \in Device
  /\ r.op \in {"register", "init", "link"} \/ r.step \in {"check", "remove", "insert", "commit"}
       => r.account \in Account
  /\ r.op \in {"init", "link"} => r.code \in Code
  /\ r.step = "take" => r.key \in KeyId

(* What a worker's record must be for the tables to stay well typed *)
Sound(r) == r \in Request /\ Shape(r) /\ r.at <= clock

TypeInv ==
  /\ TypeOK
  /\ \A w \in Worker : Shape(req[w]) /\ req[w].at <= clock
  /\ \A m \in messages : m.at <= clock

LEMMA IdleType == Idle \in Request /\ Shape(Idle)
BY EmptySeq, ServerAssumption DEF Idle, Request, Shape, StepsOf, Op, Step

(* A request that arrives replaces an idle one *)
LEMMA ArriveType ==
  ASSUME TypeInv, NEW w \in Worker, NEW r, r \in Request, Shape(r), r.at = 0, Arrive(w, r)
  PROVE  TypeInv'
<1>1. req' \in [Worker -> Request]
  BY DEF TypeInv, TypeOK, Arrive
<1>2. \A v \in Worker : req'[v] = req[v] \/ req'[v] = r
  BY DEF TypeInv, TypeOK, Arrive
<1>3. TypeOK'
  BY <1>1 DEF TypeInv, TypeOK, Arrive, tables, environment, history
<1>4. \A v \in Worker : Shape(req'[v]) /\ req'[v].at <= clock'
  BY <1>2 DEF TypeInv, TypeOK, Arrive, environment
<1> QED
  BY <1>3, <1>4 DEF TypeInv, Arrive, tables, environment

LEMMA FinishType ==
  ASSUME req \in [Worker -> Request], clock \in Nat, NEW w \in Worker, Finish(w),
         \A v \in Worker : Shape(req[v]) /\ req[v].at <= clock
  PROVE  /\ req' \in [Worker -> Request]
         /\ req'[w] = Idle
         /\ \A v \in Worker \ {w} : req'[v] = req[v]
         /\ \A v \in Worker : Shape(req'[v]) /\ req'[v].at <= clock
<1>1. req' \in [Worker -> Request] /\ req'[w] = Idle /\ \A v \in Worker \ {w} : req'[v] = req[v]
  BY IdleType DEF Finish
<1>2. Idle.at = 0
  BY DEF Idle
<1> QED
  BY <1>1, <1>2, IdleType

LEMMA GotoType ==
  ASSUME req \in [Worker -> Request], NEW w \in Worker, NEW s \in Step, Goto(w, s),
         \A v \in Worker : Shape(req[v]) /\ req[v].at <= clock,
         s \in StepsOf(req[w].op), s # "take",
         s \in {"check", "remove", "insert", "commit"} => req[w].account \in Account
  PROVE  /\ req' \in [Worker -> Request]
         /\ req'[w] = [req[w] EXCEPT !.step = s]
         /\ \A v \in Worker \ {w} : req'[v] = req[v]
         /\ \A v \in Worker : Shape(req'[v]) /\ req'[v].at <= clock
<1> DEFINE r == [req[w] EXCEPT !.step = s]
<1>0. req[w] \in Request
  OBVIOUS
<1>1. r \in Request /\ r.step = s /\ r.op = req[w].op /\ r.caller = req[w].caller
      /\ r.target = req[w].target /\ r.account = req[w].account /\ r.code = req[w].code
      /\ r.key = req[w].key /\ r.at = req[w].at
  BY <1>0 DEF Request
<1>2. req' \in [Worker -> Request] /\ req'[w] = r /\ \A v \in Worker \ {w} : req'[v] = req[v]
  BY <1>1 DEF Goto
<1>3. Shape(r)
  BY <1>1 DEF Shape
<1> QED
  BY <1>1, <1>2, <1>3

(* A signed request and the plain ones are well formed *)
LEMMA SignedType ==
  ASSUME NEW o \in {"init", "unlink", "send", "fetch", "bundle"}, NEW d \in Device
  PROVE  /\ Signed(o, d) \in Request
         /\ Signed(o, d).op = o /\ Signed(o, d).step = "auth"
         /\ Signed(o, d).caller = d /\ Signed(o, d).at = 0 /\ Signed(o, d).batch = <<>>
         /\ Signed(o, d).after = {}
         /\ Signed(o, d).stale => owner[d] = None
<1>1. \A b \in BOOLEAN :
        LET r == [Idle EXCEPT !.op = o, !.step = "auth", !.caller = d, !.stale = b]
        IN  r \in Request /\ r.op = o /\ r.step = "auth" /\ r.caller = d /\ r.at = 0
                              /\ r.batch = <<>> /\ r.stale = b /\ r.after = {}
  BY IdleType DEF Idle, Request, Op, Step
<1>2. (owner[d] = None) \in BOOLEAN
  OBVIOUS
<1> QED
  BY <1>1, <1>2 DEF Signed

LEMMA ArrivalType ==
  ASSUME TypeInv, NEW w \in Worker, Arrival(w)
  PROVE  TypeInv'
<1> USE ArriveType
<1>0. accounts \subseteq Account /\ born \subseteq Device /\ accepted \subseteq Nat
  BY DEF TypeInv, TypeOK
<1>1. CASE RegisterArrives(w)
  <2>1. PICK a \in FreshAccount, d \in FreshDevice, ks \in SUBSET KeyId :
          Arrive(w, [Idle EXCEPT !.op = "register", !.step = "create",
                                 !.account = a, !.target = d, !.keys = ks])
    BY <1>1 DEF RegisterArrives
  <2> DEFINE r == [Idle EXCEPT !.op = "register", !.step = "create",
                               !.account = a, !.target = d, !.keys = ks]
  <2>2. a \in Account /\ d \in Device
    BY DEF FreshAccount, FreshDevice
  <2>3. r \in Request /\ r.at = 0 /\ Shape(r)
    BY <2>2, IdleType DEF Idle, Request, Shape, StepsOf, Op, Step
  <2> QED
    BY <2>1, <2>3
<1>2. CASE LinkInitArrives(w)
  <2>1. PICK d \in born, a \in accounts, c \in FreshCode :
          Arrive(w, [Signed("init", d) EXCEPT !.account = a, !.code = c])
    BY <1>2 DEF LinkInitArrives
  <2> DEFINE r == [Signed("init", d) EXCEPT !.account = a, !.code = c]
  <2>2. d \in Device /\ a \in Account /\ c \in Code
    BY <1>0 DEF FreshCode
  <2>3. PICK q \in Request : q = Signed("init", d)
    BY <2>2, SignedType
  <2>4. q.op = "init" /\ q.step = "auth" /\ q.caller = d /\ q.at = 0
    BY <2>2, <2>3, SignedType
  <2>5. r \in Request /\ r.op = "init" /\ r.step = "auth" /\ r.caller = d /\ r.at = 0
        /\ r.account = a /\ r.code = c
    BY <2>2, <2>3, <2>4 DEF Request
  <2>6. r \in Request /\ r.at = 0 /\ Shape(r)
    BY <2>2, <2>5 DEF Shape, StepsOf
  <2> QED
    BY <2>1, <2>6
<1>3. CASE CompleteLinkArrives(w)
  <2>1. PICK c \in Code, a \in accounts, d \in FreshDevice, ks \in SUBSET KeyId :
          Arrive(w, [Idle EXCEPT !.op = "link", !.step = "consume", !.code = c, !.account = a,
                                 !.target = d, !.keys = ks, !.late = (c \in expired)])
    BY <1>3 DEF CompleteLinkArrives
  <2> DEFINE r(b) == [Idle EXCEPT !.op = "link", !.step = "consume", !.code = c, !.account = a,
                                  !.target = d, !.keys = ks, !.late = b]
  <2>2. a \in Account /\ d \in Device
    BY <1>0 DEF FreshDevice
  <2>3. r(TRUE) \in Request /\ r(TRUE).at = 0 /\ Shape(r(TRUE))
    BY <2>2, IdleType DEF Idle, Request, Shape, StepsOf, Op, Step
  <2>4. r(FALSE) \in Request /\ r(FALSE).at = 0 /\ Shape(r(FALSE))
    BY <2>2, IdleType DEF Idle, Request, Shape, StepsOf, Op, Step
  <2>5. Arrive(w, r(c \in expired))
    BY <2>1
  <2> HIDE DEF r
  <2>6. CASE c \in expired
    <3>1. (c \in expired) = TRUE
      BY <2>6
    <3>2. Arrive(w, r(TRUE))
      BY <2>5, <3>1
    <3> QED
      BY <2>3, <3>2
  <2>7. CASE c \notin expired
    <3>1. (c \in expired) = FALSE
      BY <2>7
    <3>2. Arrive(w, r(FALSE))
      BY <2>5, <3>1
    <3> QED
      BY <2>4, <3>2
  <2> QED
    BY <2>6, <2>7
<1>4. CASE UnlinkArrives(w) \/ BundleArrives(w)
  <2>1. PICK o \in {"unlink", "bundle"}, d \in born, t \in born :
          Arrive(w, [Signed(o, d) EXCEPT !.target = t])
    BY <1>4 DEF UnlinkArrives, BundleArrives
  <2> DEFINE r == [Signed(o, d) EXCEPT !.target = t]
  <2>2. r \in Request /\ r.at = 0 /\ Shape(r)
    BY <1>0, <2>1, SignedType DEF Request, Shape, StepsOf
  <2> QED
    BY <2>1, <2>2
<1>5. CASE SendArrives(w)
  <2>1. PICK d \in born, t \in born :
          Arrive(w, [Signed("send", d) EXCEPT !.target = t, !.after = accepted])
    BY <1>5 DEF SendArrives
  <2> DEFINE r == [Signed("send", d) EXCEPT !.target = t, !.after = accepted]
  <2>2. PICK q \in Request : q = Signed("send", d)
    BY <1>0, SignedType
  <2>3. q.op = "send" /\ q.step = "auth" /\ q.caller = d /\ q.at = 0
    BY <1>0, <2>2, SignedType
  <2>4. r \in Request /\ r.op = "send" /\ r.step = "auth" /\ r.caller = d /\ r.at = 0
        /\ r.target = t
    BY <1>0, <2>2, <2>3 DEF Request
  <2>5. r \in Request /\ r.at = 0 /\ Shape(r)
    BY <1>0, <2>4 DEF Shape, StepsOf
  <2> QED
    BY <2>1, <2>5
<1>6. CASE FetchArrives(w)
  <2>1. PICK d \in born : Arrive(w, Signed("fetch", d))
    BY <1>6 DEF FetchArrives
  <2>2. Signed("fetch", d) \in Request /\ Signed("fetch", d).at = 0 /\ Shape(Signed("fetch", d))
    BY <1>0, SignedType DEF Shape, StepsOf
  <2> QED
    BY <2>1, <2>2
<1> QED
  BY <1>1, <1>2, <1>3, <1>4, <1>5, <1>6 DEF Arrival

(* A step that changes nothing but the requests *)
LEMMA ControlType ==
  ASSUME TypeInv, UNCHANGED <<tables, environment, history>>,
         req' \in [Worker -> Request],
         \A v \in Worker : Shape(req'[v]) /\ req'[v].at <= clock
  PROVE  TypeInv'
BY DEF TypeInv, TypeOK, tables, environment, history

(* The steps that decide and go on, or end the request *)
LEMMA DecideType ==
  ASSUME TypeInv, NEW w \in Worker,
         \/ Auth(w) \/ SameAccount(w) \/ CompleteLinkConsume(w) \/ UnlinkTarget(w)
         \/ SendAccount(w) \/ BundleRead(w) \/ BundlePick(w) \/ Abort(w)
  PROVE  TypeInv'
<1>0. /\ req \in [Worker -> Request] /\ clock \in Nat
      /\ \A v \in Worker : Shape(req[v]) /\ req[v].at <= clock
      /\ owner \in [Device -> Account \cup {None}]
  BY DEF TypeInv, TypeOK
<1>1. req[w] \in Request /\ Shape(req[w])
  BY <1>0
<1>2. UNCHANGED <<tables, environment, history>>
  BY DEF Auth, SameAccount, CompleteLinkConsume, UnlinkTarget, SendAccount, BundleRead,
         BundlePick, Abort
<1>3. CASE Finish(w)
  BY <1>0, <1>2, <1>3, FinishType, ControlType
<1>4. ASSUME NEW s \in Step, Goto(w, s), s \in StepsOf(req[w].op), s # "take",
             s \in {"check", "remove", "insert", "commit"} => req[w].account \in Account
      PROVE  TypeInv'
  BY <1>0, <1>2, <1>4, GotoType, ControlType
<1>5. ASSUME NEW s \in Step, NEW a \in Account, s \in StepsOf(req[w].op), s # "take",
             req' = [req EXCEPT ![w].step = s, ![w].account = a]
      PROVE  TypeInv'
  <2> DEFINE r == [req[w] EXCEPT !.step = s, !.account = a]
  <2>1. r \in Request /\ r.step = s /\ r.account = a /\ r.op = req[w].op
        /\ r.caller = req[w].caller /\ r.target = req[w].target /\ r.code = req[w].code
        /\ r.at = req[w].at
    BY <1>1 DEF Request
  <2>2. Shape(r)
    BY <1>1, <1>5, <2>1 DEF Shape
  <2>3. req' = [req EXCEPT ![w] = r]
    BY <1>5, <1>0
  <2>4. req' \in [Worker -> Request] /\ \A v \in Worker : req'[v] = req[v] \/ req'[v] = r
    BY <2>1, <2>3, <1>0
  <2>5. \A v \in Worker : Shape(req'[v]) /\ req'[v].at <= clock
    BY <1>0, <2>1, <2>2, <2>4
  <2> QED
    BY <1>2, <2>4, <2>5, ControlType
<1>6. CASE Auth(w)
  <2>1. Entry(req[w].op) \in Step /\ Entry(req[w].op) \in StepsOf(req[w].op)
        /\ Entry(req[w].op) # "take"
        /\ (Entry(req[w].op) \in {"check", "remove", "insert", "commit"}
              => req[w].account \in Account)
    BY <1>1, <1>6 DEF Auth, Entry, Shape, StepsOf, Step, Request, Op
  <2> QED
    BY <1>3, <1>4, <1>6, <2>1 DEF Auth
<1>7. CASE SameAccount(w)
  <2>1. req[w].op \in {"init", "unlink"} /\ req[w].account \in Account
    BY <1>1, <1>7 DEF SameAccount, Shape, StepsOf, Request, Op
  <2> QED
    BY <1>3, <1>4, <1>7, <2>1 DEF SameAccount, StepsOf, Step
<1>8. CASE CompleteLinkConsume(w)
  <2>1. req[w].op = "link"
    BY <1>1, <1>8 DEF CompleteLinkConsume, Shape, StepsOf, Request, Op
  <2> QED
    BY <1>3, <1>4, <1>8, <2>1 DEF CompleteLinkConsume, StepsOf, Step
<1>9. CASE UnlinkTarget(w)
  <2>1. req[w].op = "unlink" /\ req[w].target \in Device
    BY <1>1, <1>9 DEF UnlinkTarget, Shape, StepsOf, Request, Op
  <2> QED
    BY <1>0, <1>3, <1>5, <1>9, <2>1 DEF UnlinkTarget, StepsOf, Step
<1>10. CASE SendAccount(w)
  <2>1. req[w].op = "send" /\ req[w].caller \in Device
    BY <1>1, <1>10 DEF SendAccount, Shape, StepsOf, Request, Op
  <2> QED
    BY <1>0, <1>3, <1>5, <1>10, <2>1 DEF SendAccount, StepsOf, Step
<1>11. CASE BundleRead(w)
  <2>1. req[w].op = "bundle"
    BY <1>1, <1>11 DEF BundleRead, Shape, StepsOf, Request, Op, Row
  <2> QED
    BY <1>3, <1>4, <1>11, <2>1 DEF BundleRead, StepsOf, Step, Row
<1>12. CASE BundlePick(w)
  <2>1. req[w].op = "bundle"
    BY <1>1, <1>12 DEF BundlePick, Shape, StepsOf, Request, Op
  <2>2. ASSUME NEW k \in KeyId, req' = [req EXCEPT ![w].step = "take", ![w].key = k]
        PROVE  TypeInv'
    <3> DEFINE r == [req[w] EXCEPT !.step = "take", !.key = k]
    <3>1. r \in Request /\ r.step = "take" /\ r.key = k /\ r.op = "bundle"
          /\ r.caller = req[w].caller /\ r.target = req[w].target /\ r.at = req[w].at
      BY <1>1, <2>1 DEF Request, Step
    <3>2. Shape(r)
      BY <1>1, <2>1, <3>1 DEF Shape, StepsOf
    <3>3. req' = [req EXCEPT ![w] = r]
      BY <2>2, <1>0
    <3>4. req' \in [Worker -> Request] /\ \A v \in Worker : req'[v] = req[v] \/ req'[v] = r
      BY <3>1, <3>3, <1>0
    <3>5. \A v \in Worker : Shape(req'[v]) /\ req'[v].at <= clock
      BY <1>0, <3>1, <3>2, <3>4
    <3> QED
      BY <1>2, <3>4, <3>5, ControlType
  <2> QED
    BY <1>3, <1>12, <2>2 DEF BundlePick, Available
<1>13. CASE Abort(w)
  BY <1>3, <1>13 DEF Abort
<1> QED
  BY <1>6, <1>7, <1>8, <1>9, <1>10, <1>11, <1>12, <1>13

(* What the transactions of register and complete_link commit *)
LEMMA InsertDeviceType ==
  ASSUME TypeOK, NEW r \in Request, r.target \in Device, r.account \in Account, InsertDevice(r)
  PROVE  /\ owner' \in [Device -> Account \cup {None}]
         /\ rows' \in [Device -> SUBSET Row]
         /\ prekeys' \in [Device -> [KeyId -> PrekeyState]]
         /\ born' \subseteq Device
<1>1. [k \in KeyId |-> IF k \in r.keys THEN "fresh" ELSE "absent"] \in [KeyId -> PrekeyState]
  BY DEF PrekeyState
<1> QED
  BY <1>1 DEF TypeOK, InsertDevice

(* The steps that change the tables of accounts, devices and link codes *)
LEMMA DirectoryType ==
  ASSUME TypeInv, NEW w \in Worker,
         RegisterCommit(w) \/ LinkInitIssue(w) \/ CompleteLinkCommit(w) \/ UnlinkRemove(w)
  PROVE  TypeInv'
<1>0. /\ req \in [Worker -> Request] /\ clock \in Nat /\ TypeOK
      /\ \A v \in Worker : Shape(req[v]) /\ req[v].at <= clock
  BY DEF TypeInv, TypeOK
<1>1. req[w] \in Request /\ Shape(req[w])
  BY <1>0
<1>2. Finish(w) /\ UNCHANGED environment
  BY DEF RegisterCommit, LinkInitIssue, CompleteLinkCommit, UnlinkRemove
<1>3. req' \in [Worker -> Request] /\ \A v \in Worker : Shape(req'[v]) /\ req'[v].at <= clock'
  BY <1>0, <1>2, FinishType DEF environment
<1>4. CASE RegisterCommit(w)
  <2>1. req[w].op = "register"
    BY <1>1, <1>4 DEF RegisterCommit, Shape, StepsOf, Request, Op
  <2>2. req[w].account \in Account /\ req[w].target \in Device
    BY <1>1, <2>1 DEF Shape
  <2>3. InsertDevice(req[w])
    BY <1>4 DEF RegisterCommit
  <2>4. TypeOK'
    BY <1>0, <1>1, <1>3, <1>4, <2>2, <2>3, InsertDeviceType DEF RegisterCommit, TypeOK, environment
  <2> QED
    BY <1>3, <1>4, <2>4 DEF TypeInv, RegisterCommit, environment
<1>5. CASE LinkInitIssue(w)
  <2>1. req[w].op = "init"
    BY <1>1, <1>5 DEF LinkInitIssue, Shape, StepsOf, Request, Op
  <2>2. req[w].account \in Account /\ req[w].code \in Code
    BY <1>1, <2>1 DEF Shape
  <2>3. TypeOK'
    BY <1>0, <1>3, <1>5, <2>2 DEF LinkInitIssue, TypeOK, environment, history
  <2> QED
    BY <1>3, <1>5, <2>3 DEF TypeInv, LinkInitIssue, environment
<1>6. CASE CompleteLinkCommit(w)
  <2>1. req[w].op = "link"
    BY <1>1, <1>6 DEF CompleteLinkCommit, Shape, StepsOf, Request, Op
  <2>2. req[w].account \in Account /\ req[w].target \in Device /\ req[w].code \in Code
    BY <1>1, <2>1 DEF Shape
  <2>3. InsertDevice(req[w])
    BY <1>6 DEF CompleteLinkCommit
  <2>4. TypeOK'
    BY <1>0, <1>1, <1>3, <1>6, <2>2, <2>3, InsertDeviceType
       DEF CompleteLinkCommit, TypeOK, environment
  <2> QED
    BY <1>3, <1>6, <2>4 DEF TypeInv, CompleteLinkCommit, environment
<1>7. CASE UnlinkRemove(w)
  <2>1. TypeOK'
    BY <1>0, <1>3, <1>7 DEF UnlinkRemove, TypeOK, environment, history, MessagesWithout, PrekeyState
  <2>2. \A m \in messages' : m.at <= clock'
    BY <1>7 DEF UnlinkRemove, TypeInv, environment, MessagesWithout
  <2> QED
    BY <1>3, <2>1, <2>2 DEF TypeInv
<1> QED
  BY <1>4, <1>5, <1>6, <1>7

(* The response to a fetch is a sequence of stamps *)
LEMMA BatchType ==
  ASSUME TypeInv, NEW d \in Device, NEW s \in Ascending(Stamps(Queue(d)))
  PROVE  s \in Seq(Nat) /\ Elements(s) \subseteq Stamps(Queue(d))
<1> DEFINE S == Stamps(Queue(d))
<1>1. S \subseteq Nat /\ clock \in Nat /\ \A x \in S : x <= clock
  BY DEF Stamps, Queue, TypeInv, TypeOK, Message
<1>2. IsFiniteSet(S)
  BY <1>1, FS_BoundedSetOfNaturals
<1>3. Cardinality(S) \in Nat
  BY <1>2, FS_CardinalityType
<1>4. s \in [1 .. Cardinality(S) -> S]
  BY DEF Ascending
<1>5. s \in [1 .. Cardinality(S) -> Nat]
  BY <1>1, <1>4
<1> QED
  BY <1>3, <1>4, <1>5, SeqDef DEF Elements

(* The steps that send and fetch messages and take prekeys *)
LEMMA DeliveryType ==
  ASSUME TypeInv, NEW w \in Worker,
         SendStamp(w) \/ SendCommit(w) \/ FetchDelete(w) \/ FetchReply(w) \/ BundleTake(w)
  PROVE  TypeInv'
<1>0. /\ req \in [Worker -> Request] /\ clock \in Nat /\ TypeOK
      /\ \A v \in Worker : Shape(req[v]) /\ req[v].at <= clock
  BY DEF TypeInv, TypeOK
<1>1. req[w] \in Request /\ Shape(req[w])
  BY <1>0
<1>2. Finish(w) => req' \in [Worker -> Request] /\ \A v \in Worker : Shape(req'[v]) /\ req'[v].at <= clock
  BY <1>0, FinishType
<1>3. CASE SendStamp(w)
  <2> DEFINE r == [req[w] EXCEPT !.step = "commit", !.at = clock + 1]
  <2>1. req[w].op = "send" /\ clock + 1 \in Nat
    BY <1>0, <1>1, <1>3 DEF SendStamp, Shape, StepsOf, Request, Op
  <2>2. r \in Request /\ r.step = "commit" /\ r.at = clock + 1 /\ r.op = "send"
        /\ r.caller = req[w].caller /\ r.target = req[w].target /\ r.account = req[w].account
    BY <1>1, <2>1 DEF Request, Step
  <2>3. Shape(r)
    BY <1>1, <1>3, <2>1, <2>2 DEF Shape, StepsOf, SendStamp
  <2>4. req' = [req EXCEPT ![w] = r] /\ clock' = clock + 1
    BY <1>0, <1>3 DEF SendStamp
  <2>5. req' \in [Worker -> Request] /\ \A v \in Worker : req'[v] = req[v] \/ req'[v] = r
    BY <1>0, <2>2, <2>4
  <2>6. \A v \in Worker : req[v].at \in Nat
    BY <1>0 DEF Request
  <2>7. \A v \in Worker : Shape(req'[v]) /\ req'[v].at <= clock'
    BY <1>0, <2>2, <2>3, <2>4, <2>5, <2>6
  <2>8. TypeOK'
    BY <1>0, <1>3, <2>1, <2>5 DEF SendStamp, TypeOK, tables, history
  <2>9. \A m \in messages' : m.at <= clock'
    BY <1>0, <1>3 DEF SendStamp, tables, TypeInv, TypeOK, Message
  <2> QED
    BY <2>7, <2>8, <2>9 DEF TypeInv
<1>4. CASE SendCommit(w)
  <2>1. req[w].op = "send"
    BY <1>1, <1>4 DEF SendCommit, Shape, StepsOf, Request, Op
  <2>2. req[w].caller \in Device /\ req[w].target \in Device /\ req[w].account \in Account
        /\ req[w].at \in Nat /\ req[w].after \in SUBSET Nat
    BY <1>1, <1>4, <2>1 DEF Shape, SendCommit, Request
  <2>3. Finish(w) /\ UNCHANGED environment
    BY <1>4 DEF SendCommit
  <2>4. messages' \subseteq Message /\ \A m \in messages' : m.at <= clock
    BY <1>0, <1>4, <2>2 DEF SendCommit, TypeInv, TypeOK, Message
  <2>5. accepted' \subseteq Nat /\ follows' \subseteq Nat \X Nat
    BY <1>0, <1>4, <2>2 DEF SendCommit, TypeOK
  <2>6. TypeOK'
    BY <1>0, <1>2, <1>4, <2>3, <2>4, <2>5 DEF SendCommit, TypeOK, environment
  <2> QED
    BY <1>2, <2>3, <2>4, <2>6 DEF TypeInv, environment
<1>5. CASE FetchDelete(w)
  <2> DEFINE d == req[w].caller
  <2>1. req[w].op = "fetch" /\ d \in Device
    BY <1>1, <1>5 DEF FetchDelete, Shape, StepsOf, Request, Op
  <2>2. PICK s \in Ascending(Stamps(Queue(d))) :
          /\ req' = [req EXCEPT ![w].step = "reply", ![w].batch = s]
          /\ handed' = [handed EXCEPT ![d] = @ \o s]
    BY <1>5 DEF FetchDelete
  <2>3. s \in Seq(Nat)
    BY <2>1, BatchType
  <2> DEFINE r == [req[w] EXCEPT !.step = "reply", !.batch = s]
  <2>4. r \in Request /\ r.step = "reply" /\ r.op = "fetch" /\ r.caller = d /\ r.at = req[w].at
    BY <1>1, <2>1, <2>3 DEF Request, Step
  <2>5. Shape(r)
    BY <2>1, <2>4 DEF Shape, StepsOf
  <2>6. req' = [req EXCEPT ![w] = r]
    BY <1>0, <2>2
  <2>7. req' \in [Worker -> Request] /\ \A v \in Worker : req'[v] = req[v] \/ req'[v] = r
    BY <1>0, <2>4, <2>6
  <2>8. \A v \in Worker : Shape(req'[v]) /\ req'[v].at <= clock'
    BY <1>0, <1>5, <2>4, <2>5, <2>7 DEF FetchDelete, environment
  <2>9. handed' \in [Device -> Seq(Nat)]
    BY <1>0, <2>1, <2>2, <2>3, ConcatProperties DEF TypeOK
  <2>10. messages' \subseteq messages
    BY <1>5 DEF FetchDelete, Left
  <2>11. TypeOK'
    BY <1>0, <1>5, <2>7, <2>9, <2>10 DEF FetchDelete, TypeOK, environment
  <2> QED
    BY <1>5, <2>8, <2>10, <2>11 DEF TypeInv, FetchDelete, environment
<1>6. CASE FetchReply(w)
  <2>1. req[w].op = "fetch" /\ req[w].caller \in Device /\ req[w].batch \in Seq(Nat)
    BY <1>1, <1>6 DEF FetchReply, Shape, StepsOf, Request, Op
  <2>2. inbox' \in [Device -> Seq(Nat)]
    BY <1>0, <1>6, <2>1, ConcatProperties DEF FetchReply, TypeOK
  <2>3. Finish(w)
    BY <1>6 DEF FetchReply
  <2>4. TypeOK'
    BY <1>0, <1>2, <1>6, <2>2, <2>3 DEF FetchReply, TypeOK, tables, history
  <2> QED
    BY <1>2, <1>6, <2>3, <2>4 DEF TypeInv, FetchReply, tables
<1>7. CASE BundleTake(w)
  <2>1. req[w].op = "bundle"
    BY <1>1, <1>7 DEF BundleTake, Shape, StepsOf, Request, Op
  <2>2. req[w].target \in Device /\ req[w].key \in KeyId
    BY <1>1, <1>7, <2>1 DEF BundleTake, Shape
  <2>3. prekeys' \in [Device -> [KeyId -> PrekeyState]] /\ granted' \in [Device -> [KeyId -> Nat]]
    BY <1>0, <1>7, <2>2 DEF BundleTake, TypeOK, PrekeyState
  <2>4. TypeOK'
    BY <1>0, <1>2, <1>7, <2>3 DEF BundleTake, TypeOK, environment
  <2> QED
    BY <1>2, <1>7, <2>4 DEF TypeInv, BundleTake, environment
<1> QED
  BY <1>3, <1>4, <1>5, <1>6, <1>7

LEMMA NextType == TypeInv /\ [Next]_vars => TypeInv'
<1> SUFFICES ASSUME TypeInv, [Next]_vars PROVE TypeInv'
  OBVIOUS
<1>1. CASE UNCHANGED vars
  BY <1>1 DEF TypeInv, TypeOK, vars, tables, environment, history
<1>2. CASE ExpireCode
  BY <1>2 DEF TypeInv, TypeOK, ExpireCode, tables, history
<1>3. ASSUME NEW w \in Worker, Arrival(w) \/ Handle(w) \/ Locking(w) \/ Abort(w)
      PROVE  TypeInv'
  BY <1>3, ArrivalType, DecideType, DirectoryType, DeliveryType DEF Handle, Locking
<1> QED
  BY <1>1, <1>2, <1>3 DEF Next

LEMMA InitType == Init => TypeInv
<1> SUFFICES ASSUME Init PROVE TypeInv
  OBVIOUS
<1>1. Idle.at = 0
  BY DEF Idle
<1>2. TypeOK
  BY IdleType, EmptySeq, ServerAssumption DEF Init, TypeOK, PrekeyState
<1> QED
  BY <1>1, <1>2, IdleType DEF Init, TypeInv

(* TypeCorrect: every reachable state is well typed (TypeOK), and the fields   *)
(* that a handler reads at each of its statements are set.                     *)
THEOREM TypeCorrect == Spec => [](TypeOK /\ TypeInv)
<1>1. TypeInv => TypeOK
  BY DEF TypeInv
<1> QED
  BY <1>1, InitType, NextType, PTL DEF Spec

(***************************************************************************)
(* The inductive invariants behind the properties of Server.               *)
(***************************************************************************)

(* What is known of a device that never had a row *)
Blank(d) ==
  /\ owner[d] = None /\ rows[d] = {} /\ joined[d] = None
  /\ \A k \in KeyId : prekeys[d][k] = "absent" /\ granted[d][k] = 0

(* The uuids and codes that in-flight requests will insert are unused, and no   *)
(* two requests insert the same; what signed requests name did exist.           *)
FreshInv ==
  /\ \A w \in Worker :
       /\ req[w].op \in {"register", "link"} => req[w].target \notin born
       /\ req[w].op = "register" => req[w].account \notin accounts
       /\ req[w].op = "link" => req[w].account \in accounts
       /\ req[w].op = "init" => minted[req[w].code] = None
       /\ req[w].op \in {"init", "unlink", "send", "fetch", "bundle"} => req[w].caller \in born
       /\ req[w].op \in {"unlink", "send", "bundle"} => req[w].target \in born
  /\ \A v, w \in Worker : v # w =>
       /\ req[v].op \in {"register", "link"} /\ req[w].op \in {"register", "link"}
            => req[v].target # req[w].target
       /\ req[v].op = "register" /\ req[w].op = "register" => req[v].account # req[w].account
       /\ req[v].op = "init" /\ req[w].op = "init" => req[v].code # req[w].code
  /\ \A d \in Device \ born : Blank(d)

(* The row a get_prekey_bundle has locked is fresh, no two requests lock the    *)
(* same row, and a prekey that was handed out is never fresh again.             *)
PrekeyInv ==
  /\ \A w \in Worker : req[w].step = "take" => prekeys[req[w].target][req[w].key] = "fresh"
  /\ \A v, w \in Worker :
       v # w /\ req[v].step = "take" /\ req[w].step = "take"
         => <<req[v].target, req[v].key>> # <<req[w].target, req[w].key>>
  /\ \A d \in Device, k \in KeyId :
       granted[d][k] = 0 \/ (granted[d][k] = 1 /\ prekeys[d][k] # "fresh")

(* A complete_link that has deleted the code's row holds it alone; a code that  *)
(* was used is gone, and was used by one device.                                *)
CodeInv ==
  /\ \A c \in links : minted[c] # None
  /\ \A w \in Worker : req[w].step = "join" =>
       req[w].code \in links /\ minted[req[w].code] = req[w].account
  /\ \A v, w \in Worker :
       v # w /\ req[v].step = "join" /\ req[w].step = "join" => req[v].code # req[w].code
  /\ \A d \in Device : joined[d] # None =>
       joined[d] \notin links /\ minted[joined[d]] # None
         /\ owner[d] \in {None, minted[joined[d]]}
  /\ \A d, e \in Device : joined[d] # None /\ joined[d] = joined[e] => d = e

(* The account read by send_message is still its sender's, if it has one.       *)
SenderInv ==
  \A w \in Worker :
    req[w].step \in {"insert", "commit"} => owner[req[w].caller] \in {None, req[w].account}

(* A handler keeps the parameters of its request until it ends *)
Similar(q, r) ==
  /\ q.op = r.op /\ q.caller = r.caller /\ q.target = r.target /\ q.code = r.code
  /\ q.op \notin {"unlink", "send"} => q.account = r.account

LEMMA IdleFields == Idle.op = "none" /\ Idle.step = "idle" /\ Idle.at = 0 /\ Idle.batch = <<>>
                    /\ Idle.stale = FALSE /\ Idle.after = {} /\ Idle.caller = None
BY DEF Idle

LEMMA HandlerKeeps ==
  ASSUME TypeInv, NEW w \in Worker, Handle(w) \/ Locking(w) \/ Abort(w)
  PROVE  /\ \A v \in Worker \ {w} : req'[v] = req[v]
         /\ req'[w] = Idle \/ Similar(req'[w], req[w])
<1>0. req \in [Worker -> Request] /\ req[w] \in Request /\ Shape(req[w])
  BY DEF TypeInv, TypeOK
<1>1. CASE Finish(w)
  BY <1>0, <1>1 DEF Finish
<1>2. ASSUME NEW s, Goto(w, s)
      PROVE  /\ \A v \in Worker \ {w} : req'[v] = req[v]
             /\ Similar(req'[w], req[w])
  BY <1>0, <1>2 DEF Goto, Similar, Request
<1>3. CASE Auth(w) \/ SameAccount(w) \/ CompleteLinkConsume(w) \/ BundleRead(w)
  BY <1>1, <1>2, <1>3 DEF Auth, SameAccount, CompleteLinkConsume, BundleRead
<1>4. CASE UnlinkTarget(w) \/ SendAccount(w)
  <2>1. req[w].op \in {"unlink", "send"}
    BY <1>0, <1>4 DEF UnlinkTarget, SendAccount, Shape, StepsOf, Request, Op
  <2> QED
    BY <1>0, <1>1, <1>4, <2>1 DEF UnlinkTarget, SendAccount, Similar, Request
<1>5. CASE SendStamp(w) \/ FetchDelete(w) \/ BundlePick(w)
  BY <1>0, <1>1, <1>5 DEF SendStamp, FetchDelete, BundlePick, Similar, Request
<1> QED
  BY <1>1, <1>3, <1>4, <1>5 DEF Handle, Locking, Abort, RegisterCommit, LinkInitIssue,
     CompleteLinkCommit, SendCommit, FetchReply, BundleTake, UnlinkRemove

(* The only steps that touch what FreshInv speaks of, requests apart *)
LEMMA FreshFrame ==
  ASSUME NEW w \in Worker, Handle(w) \/ Locking(w) \/ Abort(w),
         ~RegisterCommit(w), ~CompleteLinkCommit(w), ~LinkInitIssue(w),
         ~UnlinkRemove(w), ~BundleTake(w)
  PROVE  UNCHANGED <<accounts, owner, rows, prekeys, links, minted, born, joined, granted>>
BY DEF Handle, Locking, Abort, Auth, SameAccount, CompleteLinkConsume, UnlinkTarget, SendAccount,
       SendStamp, SendCommit, FetchDelete, FetchReply, BundleRead, BundlePick,
       tables, history, environment

LEMMA FreshStep ==
  ASSUME TypeInv, FreshInv, NEW w \in Worker, Handle(w) \/ Locking(w) \/ Abort(w)
  PROVE  FreshInv'
<1>0. /\ TypeOK /\ req \in [Worker -> Request] /\ req' \in [Worker -> Request]
      /\ \A v \in Worker : Shape(req[v])
  BY NextType DEF TypeInv, TypeOK, Next
<1>1. \A v \in Worker : req'[v].op # "none" => Similar(req'[v], req[v])
  BY HandlerKeeps, IdleFields DEF Similar
<1>2. CASE UNCHANGED <<accounts, owner, rows, prekeys, minted, born, joined, granted>>
  BY <1>1, <1>2 DEF FreshInv, Similar, Blank
<1>3. CASE RegisterCommit(w)
  <2>1. req[w].op = "register" /\ req'[w] = Idle
    BY <1>0, <1>3 DEF RegisterCommit, Finish, Shape, StepsOf, Request, Op
  <2>2. /\ born' = born \cup {req[w].target} /\ accounts' = accounts \cup {req[w].account}
        /\ UNCHANGED <<minted, joined, granted>>
        /\ \A d \in Device \ {req[w].target} :
             owner'[d] = owner[d] /\ rows'[d] = rows[d] /\ prekeys'[d] = prekeys[d]
    BY <1>0, <1>3 DEF RegisterCommit, InsertDevice, TypeOK
  <2>3. \A v \in Worker : req'[v].op # "none" => v # w /\ Similar(req'[v], req[v])
    BY <1>1, <2>1, IdleFields
  <2>4. \A d \in Device \ born' : Blank(d)'
    BY <2>2 DEF FreshInv, Blank
  <2> QED
    BY <2>1, <2>2, <2>3, <2>4 DEF FreshInv, Similar
<1>4. CASE CompleteLinkCommit(w)
  <2>1. req[w].op = "link" /\ req'[w] = Idle
    BY <1>0, <1>4 DEF CompleteLinkCommit, Finish, Shape, StepsOf, Request, Op
  <2>2. /\ born' = born \cup {req[w].target} /\ UNCHANGED <<accounts, minted, granted>>
        /\ \A d \in Device \ {req[w].target} :
             /\ owner'[d] = owner[d] /\ rows'[d] = rows[d]
             /\ prekeys'[d] = prekeys[d] /\ joined'[d] = joined[d]
    BY <1>0, <1>4 DEF CompleteLinkCommit, InsertDevice, TypeOK
  <2>3. \A v \in Worker : req'[v].op # "none" => v # w /\ Similar(req'[v], req[v])
    BY <1>1, <2>1, IdleFields
  <2>4. \A d \in Device \ born' : Blank(d)'
    BY <2>2 DEF FreshInv, Blank
  <2> QED
    BY <2>1, <2>2, <2>3, <2>4 DEF FreshInv, Similar
<1>5. CASE LinkInitIssue(w)
  <2>1. req[w].op = "init" /\ req'[w] = Idle
    BY <1>0, <1>5 DEF LinkInitIssue, Finish, Shape, StepsOf, Request, Op
  <2>2. /\ UNCHANGED <<accounts, owner, rows, prekeys, born, joined, granted>>
        /\ \A c \in Code \ {req[w].code} : minted'[c] = minted[c]
    BY <1>0, <1>5 DEF LinkInitIssue, history, TypeOK
  <2>3. \A v \in Worker : req'[v].op # "none" => v # w /\ Similar(req'[v], req[v])
    BY <1>1, <2>1, IdleFields
  <2>4. \A d \in Device \ born' : Blank(d)'
    BY <2>2 DEF FreshInv, Blank
  <2>5. \A v \in Worker : req'[v].op = "init" =>
          req[v].code \in Code /\ req[v].code # req[w].code /\ req'[v].code = req[v].code
    BY <1>0, <2>1, <2>3 DEF FreshInv, Similar, Shape
  <2> QED
    BY <2>1, <2>2, <2>3, <2>4, <2>5 DEF FreshInv, Similar
<1>6. CASE UnlinkRemove(w)
  <2>1. /\ UNCHANGED <<accounts, minted, born, joined, granted>>
        /\ \A d \in Device : owner'[d] \in {None, owner[d]} /\ rows'[d] \in {{}, rows[d]}
        /\ \A d \in Device, k \in KeyId : prekeys'[d][k] \in {"absent", prekeys[d][k]}
    BY <1>0, <1>6 DEF UnlinkRemove, history, TypeOK
  <2>2. \A d \in Device \ born' : Blank(d)'
    BY <2>1 DEF FreshInv, Blank
  <2> QED
    BY <1>1, <2>1, <2>2 DEF FreshInv, Similar
<1>7. CASE BundleTake(w)
  <2>1. req[w].op = "bundle" /\ req[w].target \in born
    BY <1>0, <1>7 DEF BundleTake, Shape, StepsOf, Request, Op, FreshInv
  <2>2. /\ UNCHANGED <<accounts, owner, rows, minted, born, joined>>
        /\ \A d \in Device \ {req[w].target} : prekeys'[d] = prekeys[d] /\ granted'[d] = granted[d]
    BY <1>0, <1>7 DEF BundleTake, TypeOK
  <2>3. \A d \in Device \ born' : Blank(d)'
    BY <2>1, <2>2 DEF FreshInv, Blank
  <2> QED
    BY <1>1, <2>2, <2>3 DEF FreshInv, Similar
<1> QED
  BY <1>2, <1>3, <1>4, <1>5, <1>6, <1>7, FreshFrame

(* What an arrival leaves alone, and what is new in the request it brings *)
Newcomer(r) ==
  /\ r.op # "none" /\ r.step \in {"auth", "create", "consume"}
  /\ r.at = 0 /\ r.batch = <<>> /\ r.after \subseteq accepted
  /\ r.op = "send" => clock + Cardinality(Unstamped) < MaxMessages
  /\ r.op \in {"register", "link"} => r.target \in FreshDevice
  /\ r.op = "register" => r.account \in FreshAccount
  /\ r.op = "link" => r.account \in accounts
  /\ r.op = "init" => r.code \in FreshCode
  /\ r.op \in {"init", "unlink", "send", "fetch", "bundle"} => r.caller \in born
  /\ r.op \in {"unlink", "send", "bundle"} => r.target \in born

LEMMA ArrivalFrame ==
  ASSUME TypeInv, NEW w \in Worker, Arrival(w)
  PROVE  /\ UNCHANGED <<tables, environment, history>>
         /\ req[w] = Idle
         /\ \A v \in Worker \ {w} : req'[v] = req[v]
         /\ Newcomer(req'[w])
         /\ req'[w].stale => req'[w].step = "auth" /\ owner[req'[w].caller] = None
<1>0. req \in [Worker -> Request] /\ born \subseteq Device
  BY DEF TypeInv, TypeOK
<1>1. ASSUME NEW r, Arrive(w, r)
      PROVE  /\ UNCHANGED <<tables, environment, history>> /\ req[w] = Idle
             /\ \A v \in Worker \ {w} : req'[v] = req[v]
             /\ req'[w] = r
  BY <1>0, <1>1 DEF Arrive
<1> DEFINE Good(r) == /\ Newcomer(r)
                      /\ r.stale => r.step = "auth" /\ owner[r.caller] = None
<1>2. \E r : Arrive(w, r) /\ Good(r)
  <2>1. CASE RegisterArrives(w)
    <3>1. PICK a \in FreshAccount, d \in FreshDevice, ks \in SUBSET KeyId :
            Arrive(w, [Idle EXCEPT !.op = "register", !.step = "create",
                                   !.account = a, !.target = d, !.keys = ks])
      BY <2>1 DEF RegisterArrives
    <3>2. Good([Idle EXCEPT !.op = "register", !.step = "create",
                            !.account = a, !.target = d, !.keys = ks])
      BY DEF Newcomer, Idle
    <3> QED
      BY <3>1, <3>2
  <2>2. CASE LinkInitArrives(w)
    <3>1. PICK d \in born, a \in accounts, c \in FreshCode : Arrive(w, [Signed("init", d) EXCEPT !.account = a, !.code = c])
      BY <2>2 DEF LinkInitArrives
    <3>2. PICK q \in Request : q = Signed("init", d)
      BY <1>0, SignedType
    <3>3. q.op = "init" /\ q.step = "auth" /\ q.caller = d /\ q.batch = <<>>
          /\ q.at = 0 /\ q.after = {} /\ (q.stale => owner[d] = None)
      BY <1>0, <3>2, SignedType
    <3>4. Good([q EXCEPT !.account = a, !.code = c])
      BY <1>0, <3>3 DEF Newcomer, Request
    <3> QED
      BY <3>1, <3>2, <3>4
  <2>3. CASE CompleteLinkArrives(w)
    <3>1. PICK c \in Code, a \in accounts, d \in FreshDevice, ks \in SUBSET KeyId :
            Arrive(w, [Idle EXCEPT !.op = "link", !.step = "consume", !.code = c, !.account = a,
                                   !.target = d, !.keys = ks, !.late = (c \in expired)])
      BY <2>3 DEF CompleteLinkArrives
    <3> DEFINE r(b) == [Idle EXCEPT !.op = "link", !.step = "consume", !.code = c, !.account = a,
                                    !.target = d, !.keys = ks, !.late = b]
    <3>2. Good(r(c \in expired))
      BY DEF Newcomer, Idle
    <3> QED
      BY <3>1, <3>2
  <2>4. CASE UnlinkArrives(w)
    <3>1. PICK d \in born, t \in born : Arrive(w, [Signed("unlink", d) EXCEPT !.target = t])
      BY <2>4 DEF UnlinkArrives
    <3>2. PICK q \in Request : q = Signed("unlink", d)
      BY <1>0, SignedType
    <3>3. q.op = "unlink" /\ q.step = "auth" /\ q.caller = d /\ q.batch = <<>>
          /\ q.at = 0 /\ q.after = {} /\ (q.stale => owner[d] = None)
      BY <1>0, <3>2, SignedType
    <3>4. Good([q EXCEPT !.target = t])
      BY <1>0, <3>3 DEF Newcomer, Request
    <3> QED
      BY <3>1, <3>2, <3>4
  <2>5. CASE SendArrives(w)
    <3>0. accepted \subseteq Nat /\ clock + Cardinality(Unstamped) < MaxMessages
      BY <2>5 DEF SendArrives, TypeInv, TypeOK
    <3>1. PICK d \in born, t \in born : Arrive(w, [Signed("send", d) EXCEPT !.target = t, !.after = accepted])
      BY <2>5 DEF SendArrives
    <3>2. PICK q \in Request : q = Signed("send", d)
      BY <1>0, SignedType
    <3>3. q.op = "send" /\ q.step = "auth" /\ q.caller = d /\ q.batch = <<>>
          /\ q.at = 0 /\ q.after = {} /\ (q.stale => owner[d] = None)
      BY <1>0, <3>2, SignedType
    <3>4. Good([q EXCEPT !.target = t, !.after = accepted])
      BY <1>0, <3>0, <3>3 DEF Newcomer, Request
    <3> QED
      BY <3>1, <3>2, <3>4
  <2>6. CASE FetchArrives(w)
    <3>1. PICK d \in born : Arrive(w, Signed("fetch", d))
      BY <2>6 DEF FetchArrives
    <3>2. PICK q \in Request : q = Signed("fetch", d)
      BY <1>0, SignedType
    <3>3. q.op = "fetch" /\ q.step = "auth" /\ q.caller = d /\ q.batch = <<>>
          /\ q.at = 0 /\ q.after = {} /\ (q.stale => owner[d] = None)
      BY <1>0, <3>2, SignedType
    <3>4. Good(q)
      BY <1>0, <3>3 DEF Newcomer, Request
    <3> QED
      BY <3>1, <3>2, <3>4
  <2>7. CASE BundleArrives(w)
    <3>1. PICK d \in born, t \in born : Arrive(w, [Signed("bundle", d) EXCEPT !.target = t])
      BY <2>7 DEF BundleArrives
    <3>2. PICK q \in Request : q = Signed("bundle", d)
      BY <1>0, SignedType
    <3>3. q.op = "bundle" /\ q.step = "auth" /\ q.caller = d /\ q.batch = <<>>
          /\ q.at = 0 /\ q.after = {} /\ (q.stale => owner[d] = None)
      BY <1>0, <3>2, SignedType
    <3>4. Good([q EXCEPT !.target = t])
      BY <1>0, <3>3 DEF Newcomer, Request
    <3> QED
      BY <3>1, <3>2, <3>4
  <2> QED
    BY <2>1, <2>2, <2>3, <2>4, <2>5, <2>6, <2>7 DEF Arrival
<1>3. PICK r : Arrive(w, r) /\ Good(r)
  BY <1>2
<1> HIDE DEF Good
<1>4. Good(req'[w])
  BY <1>1, <1>3
<1>5. UNCHANGED <<tables, environment, history>> /\ req[w] = Idle
      /\ \A v \in Worker \ {w} : req'[v] = req[v]
  BY <1>1, <1>3
<1>6. Newcomer(req'[w])
  BY <1>4 DEF Good
<1>7. req'[w].stale => req'[w].step = "auth" /\ owner[req'[w].caller] = None
  BY <1>4, Zenon DEF Good
<1> QED
  BY ONLY <1>5, <1>6, <1>7

LEMMA FreshArrival ==
  ASSUME TypeInv, FreshInv, NEW w \in Worker, Arrival(w)
  PROVE  FreshInv'
<1>1. UNCHANGED <<accounts, owner, rows, prekeys, minted, born, joined, granted>>
  BY ArrivalFrame DEF tables, environment, history
<1>2. (\A d \in Device \ born : Blank(d))'
  BY <1>1 DEF FreshInv, Blank
<1>3. \A v \in Worker \ {w} : req'[v] = req[v]
  BY ArrivalFrame
<1>4. Newcomer(req'[w])
  BY ArrivalFrame
<1>5. \A v \in Worker \ {w} :
        /\ req'[w].op \in {"register", "link"} /\ req[v].op \in {"register", "link"}
             => req'[w].target # req[v].target
        /\ req'[w].op = "register" /\ req[v].op = "register"
             => req'[w].account # req[v].account
        /\ req'[w].op = "init" /\ req[v].op = "init" => req'[w].code # req[v].code
  BY <1>4 DEF Newcomer, FreshDevice, FreshAccount, FreshCode, Creating
<1> QED
  BY <1>1, <1>2, <1>3, <1>4, <1>5 DEF FreshInv, Newcomer, FreshDevice, FreshAccount, FreshCode

LEMMA FreshNext == TypeInv /\ FreshInv /\ [Next]_vars => FreshInv'
<1> SUFFICES ASSUME TypeInv, FreshInv, [Next]_vars PROVE FreshInv'
  OBVIOUS
<1>1. CASE UNCHANGED vars \/ ExpireCode
  BY <1>1 DEF FreshInv, Blank, vars, ExpireCode, tables, history, environment
<1> QED
  BY <1>1, FreshArrival, FreshStep DEF Next

LEMMA InitInv == Init => FreshInv /\ PrekeyInv /\ CodeInv /\ SenderInv
BY IdleFields DEF Init, FreshInv, Blank, PrekeyInv, CodeInv, SenderInv

-----------------------------------------------------------------------------
(* One-time prekeys *)

(* Steps that leave the prekeys, and the requests that hold one, alone *)
LEMMA PrekeyQuiet ==
  ASSUME PrekeyInv, UNCHANGED <<prekeys, granted>>,
         \A v \in Worker : req'[v].step = "take" =>
           req[v].step = "take" /\ req'[v].target = req[v].target /\ req'[v].key = req[v].key
  PROVE  PrekeyInv'
BY DEF PrekeyInv

LEMMA PrekeyStep ==
  ASSUME TypeInv, FreshInv, PrekeyInv, NEW w \in Worker, Handle(w) \/ Locking(w) \/ Abort(w)
  PROVE  PrekeyInv'
<1>0. /\ TypeOK /\ req \in [Worker -> Request]
      /\ \A v \in Worker : req[v] \in Request /\ Shape(req[v])
      /\ \A v \in Worker \ {w} : req'[v] = req[v]
  BY HandlerKeeps DEF TypeInv, TypeOK
<1>1. ASSUME req'[w].step # "take", UNCHANGED <<prekeys, granted>>
      PROVE  PrekeyInv'
  BY <1>0, <1>1, PrekeyQuiet
<1>2. CASE Finish(w) /\ UNCHANGED <<prekeys, granted>>
  BY <1>0, <1>1, <1>2, IdleFields DEF Finish
<1>3. ASSUME NEW s, Goto(w, s), s # "take", UNCHANGED <<prekeys, granted>>
      PROVE  PrekeyInv'
  BY <1>0, <1>1, <1>3 DEF Goto, Request
<1>4. CASE Auth(w) \/ SameAccount(w) \/ CompleteLinkConsume(w) \/ BundleRead(w)
  BY <1>2, <1>3, <1>4
     DEF Auth, Entry, SameAccount, CompleteLinkConsume, BundleRead, tables, history
<1>5. CASE UnlinkTarget(w) \/ SendAccount(w) \/ SendStamp(w) \/ FetchDelete(w)
  <2>1. UNCHANGED <<prekeys, granted>>
    BY <1>5 DEF UnlinkTarget, SendAccount, SendStamp, FetchDelete, tables, history
  <2>2. Finish(w) \/ req'[w].step # "take"
    BY <1>0, <1>5 DEF UnlinkTarget, SendAccount, SendStamp, FetchDelete, Request
  <2> QED
    BY <1>1, <1>2, <2>1, <2>2
<1>6. CASE LinkInitIssue(w) \/ SendCommit(w) \/ FetchReply(w) \/ Abort(w)
  BY <1>2, <1>6 DEF LinkInitIssue, SendCommit, FetchReply, Abort, tables, history
<1>7. CASE RegisterCommit(w) \/ CompleteLinkCommit(w)
  <2> DEFINE t == req[w].target
  <2>1. t \in Device \ born /\ req'[w].step # "take"
    BY <1>0, <1>7, IdleFields DEF RegisterCommit, CompleteLinkCommit, Finish, Shape, StepsOf,
       Request, Op, FreshInv
  <2>2. /\ granted' = granted
        /\ \A d \in Device \ {t} : prekeys'[d] = prekeys[d]
    BY <1>0, <1>7 DEF RegisterCommit, CompleteLinkCommit, InsertDevice, TypeOK
  <2>3. \A v \in Worker : req[v].step = "take" => req[v].target \in Device /\ req[v].target # t
    BY <1>0, <2>1 DEF Shape, StepsOf, FreshInv, Request, Op
  <2>4. \A k \in KeyId : granted[t][k] = 0
    BY <2>1 DEF FreshInv, Blank
  <2> QED
    BY <1>0, <2>1, <2>2, <2>3, <2>4 DEF PrekeyInv
<1>8. CASE UnlinkRemove(w)
  <2>1. req'[w].step # "take" /\ granted' = granted
    BY <1>0, <1>8, IdleFields DEF UnlinkRemove, Finish, history
  <2>2. \A d \in Device, k \in KeyId : prekeys'[d][k] \in {"absent", prekeys[d][k]}
    BY <1>0, <1>8 DEF UnlinkRemove, TypeOK
  <2>3. \A d \in Device \ {req[w].target} : prekeys'[d] = prekeys[d]
    BY <1>0, <1>8 DEF UnlinkRemove, TypeOK
  <2>4. \A v \in Worker : req[v].step = "take" =>
          req[v].target \in Device /\ req[v].key \in KeyId /\ req[v].target # req[w].target
    BY <1>0, <1>8 DEF UnlinkRemove, PrekeyLocked, Shape, StepsOf, Request, Op
  <2> QED
    BY <1>0, <2>1, <2>2, <2>3, <2>4 DEF PrekeyInv
<1>9. CASE BundlePick(w)
  <2>1. UNCHANGED <<prekeys, granted>>
    BY <1>9 DEF BundlePick, tables, history
  <2>2. ASSUME NEW k \in Available(req[w].target),
               req' = [req EXCEPT ![w].step = "take", ![w].key = k]
        PROVE  PrekeyInv'
    <3>1. req'[w].target = req[w].target /\ req'[w].key = k
      BY <1>0, <2>2 DEF Request
    <3>2. prekeys[req[w].target][k] = "fresh"
      BY DEF Available
    <3>3. \A v \in Worker : ~(req[v].step = "take" /\ req[v].target = req[w].target /\ req[v].key = k)
      BY DEF Available, PrekeyLocked
    <3> QED
      BY <1>0, <2>1, <3>1, <3>2, <3>3 DEF PrekeyInv
  <2> QED
    BY <1>2, <1>9, <2>1, <2>2 DEF BundlePick
<1>10. CASE BundleTake(w)
  <2> DEFINE t == req[w].target
             k == req[w].key
  <2>1. t \in Device /\ k \in KeyId
    BY <1>0, <1>10 DEF BundleTake, Shape, StepsOf, Request, Op
  <2>2. req'[w].step # "take"
    BY <1>0, <1>10, IdleFields DEF BundleTake, Finish
  <2>3. /\ prekeys'[t][k] = "used" /\ granted'[t][k] = granted[t][k] + 1
        /\ \A d \in Device, j \in KeyId : <<d, j>> # <<t, k>> =>
             prekeys'[d][j] = prekeys[d][j] /\ granted'[d][j] = granted[d][j]
    BY <1>0, <1>10, <2>1 DEF BundleTake, TypeOK
  <2>4. granted[t][k] = 0
    BY <1>10, <2>1 DEF BundleTake, PrekeyInv
  <2>5. \A v \in Worker \ {w} : req[v].step = "take" =>
          /\ req[v].target \in Device /\ req[v].key \in KeyId
          /\ <<req[v].target, req[v].key>> # <<t, k>>
    BY <1>0, <1>10 DEF BundleTake, PrekeyInv, Shape, StepsOf, Request, Op
  <2>6. \A d \in Device, j \in KeyId :
          granted'[d][j] = 0 \/ (granted'[d][j] = 1 /\ prekeys'[d][j] # "fresh")
    BY <2>3, <2>4 DEF PrekeyInv
  <2> QED
    BY <1>0, <2>2, <2>3, <2>5, <2>6 DEF PrekeyInv
<1> QED
  BY <1>4, <1>5, <1>6, <1>7, <1>8, <1>9, <1>10 DEF Handle, Locking

LEMMA PrekeyNext == TypeInv /\ FreshInv /\ PrekeyInv /\ [Next]_vars => PrekeyInv'
<1> SUFFICES ASSUME TypeInv, FreshInv, PrekeyInv, [Next]_vars PROVE PrekeyInv'
  OBVIOUS
<1>1. CASE UNCHANGED vars \/ ExpireCode
  BY <1>1 DEF PrekeyInv, vars, ExpireCode, tables, history, environment
<1>2. ASSUME NEW w \in Worker, Arrival(w) PROVE PrekeyInv'
  <2>1. UNCHANGED <<prekeys, granted>> /\ \A v \in Worker \ {w} : req'[v] = req[v]
    BY <1>2, ArrivalFrame DEF tables, history
  <2>2. req'[w].step # "take"
    BY <1>2, ArrivalFrame DEF Newcomer
  <2> QED
    BY <2>1, <2>2, PrekeyQuiet
<1> QED
  BY <1>1, <1>2, PrekeyStep DEF Next

(* PrekeysOnce: whatever the requests and their interleaving, no one-time       *)
(* prekey is handed out twice (PrekeyOnce).                                     *)
THEOREM PrekeysOnce == Spec => []PrekeyOnce
<1>1. PrekeyInv => PrekeyOnce
  BY DEF PrekeyInv, PrekeyOnce
<1> QED
  BY <1>1, InitType, InitInv, NextType, FreshNext, PrekeyNext, PTL DEF Spec

-----------------------------------------------------------------------------
(* Link codes *)

LEMMA CodeQuiet ==
  ASSUME CodeInv, UNCHANGED <<links, minted, joined, owner>>,
         \A v \in Worker : req'[v].step = "join" =>
           req[v].step = "join" /\ req'[v].code = req[v].code /\ req'[v].account = req[v].account
  PROVE  CodeInv'
BY DEF CodeInv

LEMMA CodeStep ==
  ASSUME TypeInv, FreshInv, CodeInv, NEW w \in Worker, Handle(w) \/ Locking(w) \/ Abort(w)
  PROVE  CodeInv'
<1>0. /\ TypeOK /\ req \in [Worker -> Request]
      /\ \A v \in Worker : req[v] \in Request /\ Shape(req[v])
      /\ \A v \in Worker \ {w} : req'[v] = req[v]
  BY HandlerKeeps DEF TypeInv, TypeOK
<1>1. ASSUME req'[w].step # "join", UNCHANGED <<links, minted, joined, owner>>
      PROVE  CodeInv'
  BY <1>0, <1>1, CodeQuiet
<1>2. CASE Finish(w) /\ UNCHANGED <<links, minted, joined, owner>>
  BY <1>0, <1>1, <1>2, IdleFields DEF Finish
<1>3. ASSUME NEW s, Goto(w, s), s # "join", UNCHANGED <<links, minted, joined, owner>>
      PROVE  CodeInv'
  BY <1>0, <1>1, <1>3 DEF Goto, Request
<1>4. CASE Auth(w) \/ SameAccount(w) \/ BundleRead(w)
  BY <1>2, <1>3, <1>4 DEF Auth, Entry, SameAccount, BundleRead, tables, history
<1>5. CASE UnlinkTarget(w) \/ SendAccount(w) \/ SendStamp(w) \/ FetchDelete(w) \/ BundlePick(w)
  <2>1. UNCHANGED <<links, minted, joined, owner>>
    BY <1>5 DEF UnlinkTarget, SendAccount, SendStamp, FetchDelete, BundlePick, tables, history
  <2>2. Finish(w) \/ req'[w].step # "join"
    BY <1>0, <1>5 DEF UnlinkTarget, SendAccount, SendStamp, FetchDelete, BundlePick, Request
  <2> QED
    BY <1>1, <1>2, <2>1, <2>2
<1>6. CASE SendCommit(w) \/ FetchReply(w) \/ BundleTake(w) \/ Abort(w)
  BY <1>2, <1>6 DEF SendCommit, FetchReply, BundleTake, Abort, tables, history
<1>7. CASE RegisterCommit(w)
  <2>1. req[w].op = "register" /\ req'[w].step # "join"
    BY <1>0, <1>7, IdleFields DEF RegisterCommit, Finish, Shape, StepsOf, Request, Op
  <2>2. joined[req[w].target] = None
    BY <1>0, <2>1 DEF FreshInv, Blank, Shape
  <2>3. /\ UNCHANGED <<links, minted, joined>>
        /\ \A d \in Device \ {req[w].target} : owner'[d] = owner[d]
    BY <1>0, <1>7 DEF RegisterCommit, InsertDevice, TypeOK
  <2> QED
    BY <1>0, <2>1, <2>2, <2>3 DEF CodeInv
<1>8. CASE LinkInitIssue(w)
  <2> DEFINE c == req[w].code
  <2>1. req[w].op = "init" /\ req'[w].step # "join"
    BY <1>0, <1>8, IdleFields DEF LinkInitIssue, Finish, Shape, StepsOf, Request, Op
  <2>2. c \in Code /\ minted[c] = None /\ req[w].account \in Account
    BY <1>0, <2>1 DEF FreshInv, Shape
  <2>3. /\ UNCHANGED <<joined, owner>> /\ links' = links \cup {c}
        /\ minted'[c] = req[w].account /\ \A e \in Code \ {c} : minted'[e] = minted[e]
    BY <1>0, <1>8, <2>2 DEF LinkInitIssue, history, TypeOK
  <2>4. minted'[c] # None
    BY <2>2, <2>3, ServerAssumption
  <2>5. \A d \in Device : joined[d] # None => joined[d] \in Code /\ joined[d] # c
    BY <1>0, <2>2 DEF CodeInv, TypeOK
  <2>6. \A e \in links : e \in Code /\ e # c
    BY <1>0, <2>2 DEF CodeInv, TypeOK
  <2> QED
    BY <1>0, <2>1, <2>3, <2>4, <2>5, <2>6 DEF CodeInv
<1>9. CASE CompleteLinkConsume(w)
  <2>1. UNCHANGED <<links, minted, joined, owner>>
    BY <1>9 DEF CompleteLinkConsume, tables, history
  <2>2. CASE Finish(w)
    BY <1>2, <2>1, <2>2
  <2>3. CASE Goto(w, "join") /\ req[w].code \in links /\ minted[req[w].code] = req[w].account
    <3>1. req'[w].code = req[w].code /\ req'[w].account = req[w].account
      BY <1>0, <2>3 DEF Goto, Request
    <3>2. \A v \in Worker : req[v].step = "join" => req[v].code # req[w].code
      BY <1>9 DEF CompleteLinkConsume, CodeLocked
    <3> QED
      BY <1>0, <2>1, <2>3, <3>1, <3>2 DEF CodeInv
  <2> QED
    BY <1>9, <2>2, <2>3 DEF CompleteLinkConsume
<1>10. CASE CompleteLinkCommit(w)
  <2> DEFINE c == req[w].code
             t == req[w].target
  <2>1. req[w].op = "link" /\ req'[w].step # "join"
    BY <1>0, <1>10, IdleFields DEF CompleteLinkCommit, Finish, Shape, StepsOf, Request, Op
  <2>2. t \in Device /\ c \in Code /\ c \in links /\ minted[c] = req[w].account
    BY <1>0, <1>10, <2>1 DEF CompleteLinkCommit, CodeInv, Shape
  <2>3. /\ links' = links \ {c} /\ minted' = minted
        /\ joined'[t] = c /\ owner'[t] = minted[c]
        /\ \A d \in Device \ {t} : joined'[d] = joined[d] /\ owner'[d] = owner[d]
    BY <1>0, <1>10, <2>2 DEF CompleteLinkCommit, InsertDevice, TypeOK
  <2>4. \A d \in Device : joined[d] # None => joined[d] # c
    BY <2>2 DEF CodeInv
  <2>5. \A v \in Worker \ {w} : req[v].step = "join" => req[v].code # c
    BY <1>10 DEF CompleteLinkCommit, CodeInv
  <2>6. c # None
    BY <2>2, ServerAssumption
  <2>7. minted[c] # None
    BY <2>2 DEF CodeInv
  <2>8. \A d \in Device : joined'[d] # None =>
          joined'[d] \notin links' /\ minted[joined'[d]] # None
            /\ owner'[d] \in {None, minted[joined'[d]]}
    BY <2>3, <2>7 DEF CodeInv
  <2>9. \A d, e \in Device : joined'[d] # None /\ joined'[d] = joined'[e] => d = e
    BY <2>3, <2>4, <2>6 DEF CodeInv
  <2>10. \A v \in Worker : req'[v].step = "join" =>
           req'[v].code \in links' /\ minted[req'[v].code] = req'[v].account
    BY <1>0, <2>1, <2>3, <2>5 DEF CodeInv
  <2> QED
    BY <1>0, <2>1, <2>3, <2>8, <2>9, <2>10 DEF CodeInv
<1>11. CASE UnlinkRemove(w)
  <2>1. req'[w].step # "join" /\ UNCHANGED <<links, minted, joined>>
    BY <1>0, <1>11, IdleFields DEF UnlinkRemove, Finish, history
  <2>2. \A d \in Device : owner'[d] \in {None, owner[d]}
    BY <1>0, <1>11 DEF UnlinkRemove, TypeOK
  <2> QED
    BY <1>0, <2>1, <2>2 DEF CodeInv
<1> QED
  BY <1>4, <1>5, <1>6, <1>7, <1>8, <1>9, <1>10, <1>11 DEF Handle, Locking

LEMMA CodeNext == TypeInv /\ FreshInv /\ CodeInv /\ [Next]_vars => CodeInv'
<1> SUFFICES ASSUME TypeInv, FreshInv, CodeInv, [Next]_vars PROVE CodeInv'
  OBVIOUS
<1>1. CASE UNCHANGED vars \/ ExpireCode
  BY <1>1 DEF CodeInv, vars, ExpireCode, tables, history, environment
<1>2. ASSUME NEW w \in Worker, Arrival(w) PROVE CodeInv'
  <2>1. UNCHANGED <<links, minted, joined, owner>> /\ \A v \in Worker \ {w} : req'[v] = req[v]
    BY <1>2, ArrivalFrame DEF tables, history
  <2>2. req'[w].step # "join"
    BY <1>2, ArrivalFrame DEF Newcomer
  <2> QED
    BY <2>1, <2>2, CodeQuiet
<1> QED
  BY <1>1, <1>2, CodeStep DEF Next

(* CodesOnce: whatever complete_link requests race for a code, it adds at most  *)
(* one device, and only to the account it was minted for (CodeOnce).            *)
THEOREM CodesOnce == Spec => []CodeOnce
<1>1. CodeInv => CodeOnce
  BY DEF CodeInv, CodeOnce
<1> QED
  BY <1>1, InitType, InitInv, NextType, FreshNext, CodeNext, PTL DEF Spec

(* The steps that change which codes are pending or who owns a device *)
LEMMA LinkQuiet ==
  ASSUME UNCHANGED <<links, owner>> PROVE LinkStep
BY DEF LinkStep

LEMMA LinkNext == TypeInv /\ FreshInv /\ CodeInv /\ [Next]_vars => [LinkStep]_vars
<1> SUFFICES ASSUME TypeInv, FreshInv, CodeInv, Next PROVE LinkStep
  OBVIOUS
<1>0. /\ TypeOK /\ req \in [Worker -> Request]
      /\ \A v \in Worker : req[v] \in Request /\ Shape(req[v])
  BY DEF TypeInv, TypeOK
<1>1. CASE ExpireCode
  BY <1>1, LinkQuiet DEF ExpireCode, tables
<1>2. ASSUME NEW w \in Worker, Arrival(w) PROVE LinkStep
  BY <1>2, ArrivalFrame, LinkQuiet DEF tables
<1>3. ASSUME NEW w \in Worker, Handle(w) \/ Locking(w) \/ Abort(w) PROVE LinkStep
  <2>1. CASE RegisterCommit(w)
    <3>1. req[w].op = "register"
      BY <1>0, <2>1 DEF RegisterCommit, Shape, StepsOf, Request, Op
    <3>2. req[w].account \notin accounts
      BY <3>1 DEF FreshInv
    <3>3. links' = links /\ \A d \in Device : owner'[d] \in {owner[d], req[w].account}
      BY <1>0, <2>1 DEF RegisterCommit, InsertDevice, TypeOK
    <3> QED
      BY <3>2, <3>3 DEF LinkStep
  <2>2. CASE CompleteLinkCommit(w)
    <3> DEFINE c == req[w].code
               t == req[w].target
    <3>1. req[w].op = "link"
      BY <1>0, <2>2 DEF CompleteLinkCommit, Shape, StepsOf, Request, Op
    <3>2. t \in Device /\ t \notin born
      BY <1>0, <3>1 DEF Shape, FreshInv
    <3>3. joined[t] = None
      BY <3>2 DEF FreshInv, Blank
    <3>4. c \in links /\ minted[c] = req[w].account
      BY <2>2 DEF CodeInv, CompleteLinkCommit
    <3>5. /\ links' = links \ {c} /\ joined'[t] = c /\ owner'[t] = req[w].account
          /\ \A d \in Device \ {t} : owner'[d] = owner[d]
      BY <1>0, <2>2, <3>2 DEF CompleteLinkCommit, InsertDevice, TypeOK
    <3> QED
      BY <3>2, <3>3, <3>4, <3>5 DEF LinkStep
  <2>3. CASE UnlinkRemove(w)
    <3>1. links' = links /\ \A d \in Device : owner'[d] \in {owner[d], None}
      BY <1>0, <2>3 DEF UnlinkRemove, TypeOK
    <3>2. None \notin accounts
      BY <1>0, ServerAssumption DEF TypeOK
    <3> QED
      BY <3>1, <3>2 DEF LinkStep
  <2>4. CASE LinkInitIssue(w)
    BY <2>4 DEF LinkInitIssue, LinkStep
  <2>5. CASE BundleTake(w)
    BY <2>5, LinkQuiet DEF BundleTake
  <2> QED
    BY <1>3, <2>1, <2>2, <2>3, <2>4, <2>5, FreshFrame, LinkQuiet
<1> QED
  BY <1>1, <1>2, <1>3 DEF Next

(* LinksAtomic: in every step a link code disappears only together with the     *)
(* arrival of its device, and an existing account gains a device in no other    *)
(* way (LinkAtomic).                                                            *)
THEOREM LinksAtomic == Spec => LinkAtomic
BY InitType, InitInv, NextType, FreshNext, CodeNext, LinkNext, PTL DEF Spec, LinkAtomic

-----------------------------------------------------------------------------
(* Referential integrity *)

(* A step that changes neither devices nor messages, nor reads an account *)
LEMMA ConsistentQuiet ==
  ASSUME Consistent, SenderInv, UNCHANGED <<accounts, owner, rows, prekeys, messages>>,
         \A v \in Worker : req'[v].step \in {"insert", "commit"} =>
           /\ req[v].step \in {"insert", "commit"}
           /\ req'[v].caller = req[v].caller /\ req'[v].account = req[v].account
  PROVE  Consistent' /\ SenderInv'
BY DEF Consistent, SenderInv

(* ... because the step ends the request or leads elsewhere *)
LEMMA ConsistentControl ==
  ASSUME TypeInv, Consistent, SenderInv, NEW w \in Worker,
         Auth(w) \/ SameAccount(w) \/ CompleteLinkConsume(w) \/ BundleRead(w) \/ UnlinkTarget(w)
           \/ BundlePick(w) \/ LinkInitIssue(w) \/ FetchReply(w) \/ Abort(w)
  PROVE  Consistent' /\ SenderInv'
<1>0. /\ req \in [Worker -> Request]
      /\ \A v \in Worker \ {w} : req'[v] = req[v]
  BY HandlerKeeps DEF TypeInv, TypeOK, Handle, Locking
<1>1. UNCHANGED <<accounts, owner, rows, prekeys, messages>>
  BY DEF Auth, SameAccount, CompleteLinkConsume, BundleRead, UnlinkTarget, BundlePick,
         LinkInitIssue, FetchReply, Abort, tables
<1>2. req'[w].step \notin {"insert", "commit"}
  <2>1. ASSUME NEW s, Goto(w, s) PROVE req'[w].step = s
    BY <1>0, <2>1 DEF Goto, Request
  <2>2. CASE Finish(w)
    BY <1>0, <2>2, IdleFields DEF Finish
  <2>3. CASE Auth(w) \/ SameAccount(w) \/ CompleteLinkConsume(w) \/ BundleRead(w)
    BY <2>1, <2>2, <2>3 DEF Auth, Entry, SameAccount, CompleteLinkConsume, BundleRead
  <2>4. CASE UnlinkTarget(w) \/ BundlePick(w)
    BY <1>0, <2>2, <2>4 DEF UnlinkTarget, BundlePick, Request
  <2> QED
    BY <2>2, <2>3, <2>4 DEF LinkInitIssue, FetchReply, Abort
<1> QED
  BY <1>0, <1>1, <1>2, ConsistentQuiet

LEMMA ConsistentStep ==
  ASSUME TypeInv, FreshInv, PrekeyInv, Consistent, SenderInv, NEW w \in Worker,
         Handle(w) \/ Locking(w) \/ Abort(w)
  PROVE  Consistent' /\ SenderInv'
<1>0. /\ TypeOK /\ req \in [Worker -> Request]
      /\ \A v \in Worker : req[v] \in Request /\ Shape(req[v])
      /\ \A v \in Worker \ {w} : req'[v] = req[v]
  BY HandlerKeeps DEF TypeInv, TypeOK
<1>1. \A v \in Worker : req[v].step \in {"insert", "commit"} => req[v].op = "send"
  BY <1>0 DEF Shape, StepsOf, Request, Op
<1>2. \A v \in Worker : req[v].op = "send" => req[v].caller \in born /\ req[v].caller \in Device
  BY <1>0 DEF FreshInv, Shape
<1>3. \A m \in messages : m.from \in Device /\ m.to \in Device /\ owner[m.from] # None
  <2>1. \A m \in messages : m.account # None
    BY <1>0, ServerAssumption DEF TypeOK, Message
  <2> QED
    BY <1>0, <2>1 DEF TypeOK, Message, Consistent
<1>4. CASE RegisterCommit(w) \/ CompleteLinkCommit(w)
  <2> DEFINE t == req[w].target
             a == req[w].account
  <2>1. t \in Device \ born /\ a \in Account /\ a \in accounts' /\ accounts \subseteq accounts'
        /\ req'[w].step \notin {"insert", "commit"}
    BY <1>0, <1>4, IdleFields DEF RegisterCommit, CompleteLinkCommit, Finish, Shape, StepsOf,
       Request, Op, FreshInv
  <2>2. owner[t] = None
    BY <2>1 DEF FreshInv, Blank
  <2>3. messages' = messages /\ owner'[t] = a /\ rows'[t] = Row
        /\ \A d \in Device \ {t} :
             owner'[d] = owner[d] /\ rows'[d] = rows[d] /\ prekeys'[d] = prekeys[d]
    BY <1>0, <1>4, <2>1 DEF RegisterCommit, CompleteLinkCommit, InsertDevice, TypeOK
  <2>4. a # None
    BY <2>1, ServerAssumption
  <2>5. \A d \in Device :
          /\ owner'[d] = None => rows'[d] = {} /\ \A k \in KeyId : prekeys'[d][k] = "absent"
          /\ owner'[d] # None => rows'[d] = Row /\ owner'[d] \in accounts'
    BY <2>1, <2>3, <2>4 DEF Consistent
  <2>6. \A m \in messages' : owner'[m.from] = m.account /\ owner'[m.to] # None
    BY <1>3, <2>2, <2>3 DEF Consistent
  <2>7. SenderInv'
    BY <1>0, <1>1, <1>2, <2>1, <2>3 DEF SenderInv
  <2> QED
    BY <2>5, <2>6, <2>7 DEF Consistent
<1>5. CASE UnlinkRemove(w)
  <2> DEFINE t == req[w].target
  <2>1. req'[w].step \notin {"insert", "commit"} /\ t \in Device
    BY <1>0, <1>5, IdleFields DEF UnlinkRemove, Finish, Shape, StepsOf, Request, Op
  <2>2. /\ accounts' = accounts /\ messages' = {m \in messages : m.from # t /\ m.to # t}
        /\ owner'[t] = None /\ rows'[t] = {} /\ (\A k \in KeyId : prekeys'[t][k] = "absent")
        /\ \A d \in Device \ {t} :
             owner'[d] = owner[d] /\ rows'[d] = rows[d] /\ prekeys'[d] = prekeys[d]
    BY <1>0, <1>5, <2>1 DEF UnlinkRemove, TypeOK, MessagesWithout
  <2>3. \A d \in Device :
          /\ owner'[d] = None => rows'[d] = {} /\ \A k \in KeyId : prekeys'[d][k] = "absent"
          /\ owner'[d] # None => rows'[d] = Row /\ owner'[d] \in accounts'
    BY <2>2 DEF Consistent
  <2>4. \A m \in messages' : owner'[m.from] = m.account /\ owner'[m.to] # None
    BY <1>3, <2>2 DEF Consistent
  <2>5. SenderInv'
    BY <1>0, <1>1, <1>2, <2>1, <2>2 DEF SenderInv
  <2> QED
    BY <2>3, <2>4, <2>5 DEF Consistent
<1>6. CASE SendAccount(w)
  <2>1. UNCHANGED <<accounts, owner, rows, prekeys, messages>>
    BY <1>6 DEF SendAccount, tables
  <2>2. req'[w].step \in {"insert", "commit"} => owner[req'[w].caller] = req'[w].account
    <3>1. CASE Finish(w)
      BY <1>0, <3>1, IdleFields DEF Finish
    <3>2. CASE req' = [req EXCEPT ![w].step = "insert", ![w].account = owner[req[w].caller]]
      <4>1. req'[w] = [req[w] EXCEPT !.step = "insert", !.account = owner[req[w].caller]]
        BY <1>0, <3>2
      <4>2. req[w] \in Request
        BY <1>0
      <4>3. req'[w].account = owner[req[w].caller] /\ req'[w].caller = req[w].caller
        BY <4>1, <4>2 DEF Request
      <4> QED
        BY <4>3
    <3> QED
      BY <1>6, <3>1, <3>2 DEF SendAccount
  <2> QED
    BY <1>0, <2>1, <2>2 DEF Consistent, SenderInv
<1>7. CASE SendStamp(w)
  <2>1. UNCHANGED <<accounts, owner, rows, prekeys, messages>>
    BY <1>7 DEF SendStamp, tables
  <2>2. req'[w].caller = req[w].caller /\ req'[w].account = req[w].account
        /\ req[w].step = "insert"
    BY <1>0, <1>7 DEF SendStamp, Request
  <2> QED
    BY <1>0, <2>1, <2>2, ConsistentQuiet
<1>8. CASE SendCommit(w)
  <2>1. /\ UNCHANGED <<accounts, owner, rows, prekeys>>
        /\ req'[w].step \notin {"insert", "commit"}
    BY <1>0, <1>8, IdleFields DEF SendCommit, Finish
  <2>2. owner[req[w].caller] \in {None, req[w].account}
    BY <1>8 DEF SendCommit, SenderInv
  <2>3. \A m \in messages' : owner[m.from] = m.account /\ owner[m.to] # None
    BY <1>8, <2>2 DEF SendCommit, Consistent
  <2> QED
    BY <1>0, <2>1, <2>3 DEF Consistent, SenderInv
<1>9. CASE FetchDelete(w)
  <2>1. /\ UNCHANGED <<accounts, owner, rows, prekeys>> /\ messages' \subseteq messages
        /\ req'[w].step \notin {"insert", "commit"}
    BY <1>0, <1>9 DEF FetchDelete, Left, Request
  <2> QED
    BY <1>0, <2>1 DEF Consistent, SenderInv
<1>10. CASE BundleTake(w)
  <2> DEFINE t == req[w].target
             k == req[w].key
  <2>1. t \in Device /\ k \in KeyId /\ prekeys[t][k] = "fresh"
        /\ req'[w].step \notin {"insert", "commit"}
    BY <1>0, <1>10, IdleFields DEF BundleTake, Finish, Shape, StepsOf, Request, Op, PrekeyInv
  <2>2. owner[t] # None
    BY <2>1 DEF Consistent
  <2>3. UNCHANGED <<accounts, owner, rows, messages>>
        /\ \A d \in Device \ {t} : prekeys'[d] = prekeys[d]
    BY <1>0, <1>10 DEF BundleTake, TypeOK
  <2> QED
    BY <1>0, <2>1, <2>2, <2>3 DEF Consistent, SenderInv
<1> QED
  BY <1>4, <1>5, <1>6, <1>7, <1>8, <1>9, <1>10, ConsistentControl DEF Handle, Locking

LEMMA ConsistentNext ==
  TypeInv /\ FreshInv /\ PrekeyInv /\ Consistent /\ SenderInv /\ [Next]_vars
    => Consistent' /\ SenderInv'
<1> SUFFICES ASSUME TypeInv, FreshInv, PrekeyInv, Consistent, SenderInv, [Next]_vars
             PROVE  Consistent' /\ SenderInv'
  OBVIOUS
<1>1. CASE UNCHANGED vars \/ ExpireCode
  BY <1>1 DEF Consistent, SenderInv, vars, ExpireCode, tables
<1>2. ASSUME NEW w \in Worker, Arrival(w) PROVE Consistent' /\ SenderInv'
  <2>1. UNCHANGED <<accounts, owner, rows, prekeys, messages>>
        /\ \A v \in Worker \ {w} : req'[v] = req[v]
    BY <1>2, ArrivalFrame DEF tables
  <2>2. req'[w].step \notin {"insert", "commit"}
    BY <1>2, ArrivalFrame DEF Newcomer
  <2> QED
    BY <2>1, <2>2, ConsistentQuiet
<1> QED
  BY <1>1, <1>2, ConsistentStep DEF Next

(* TablesConsistent: no row survives the device it belongs to, and no queued    *)
(* message refers to a device that is gone, whatever unlink races with          *)
(* (Consistent).                                                                *)
THEOREM TablesConsistent == Spec => []Consistent
<1>1. Init => Consistent
  BY DEF Init, Consistent
<1> QED
  BY <1>1, InitType, InitInv, NextType, FreshNext, PrekeyNext, ConsistentNext, PTL DEF Spec

-----------------------------------------------------------------------------
(* Revocation *)

(* A request that was stale on arrival is waiting to be refused: its device is  *)
(* gone for good, for no uuid is used twice.                                    *)
StaleInv ==
  \A w \in Worker : req[w].stale =>
    /\ req[w].step = "auth"
    /\ req[w].caller \in born
    /\ owner[req[w].caller] = None

LEMMA StaleStep ==
  ASSUME TypeInv, FreshInv, Consistent, StaleInv, NEW w \in Worker,
         Handle(w) \/ Locking(w) \/ Abort(w)
  PROVE  StaleInv'
<1>0. /\ TypeOK /\ req \in [Worker -> Request]
      /\ \A v \in Worker : req[v] \in Request /\ Shape(req[v])
      /\ \A v \in Worker \ {w} : req'[v] = req[v]
  BY HandlerKeeps DEF TypeInv, TypeOK
<1>1. \A d \in born : owner[d] = None => owner'[d] = None
  <2>1. CASE RegisterCommit(w) \/ CompleteLinkCommit(w)
    <3>1. req[w].target \notin born
      BY <1>0, <2>1 DEF RegisterCommit, CompleteLinkCommit, Shape, StepsOf, Request, Op, FreshInv
    <3> QED
      BY <1>0, <2>1, <3>1 DEF RegisterCommit, CompleteLinkCommit, InsertDevice, TypeOK
  <2>2. CASE UnlinkRemove(w)
    BY <1>0, <2>2 DEF UnlinkRemove, TypeOK
  <2>3. CASE LinkInitIssue(w) \/ BundleTake(w)
    BY <2>3 DEF LinkInitIssue, BundleTake
  <2> QED
    BY <2>1, <2>2, <2>3, FreshFrame
<1>2. born \subseteq born'
  <2>1. CASE RegisterCommit(w) \/ CompleteLinkCommit(w)
    BY <2>1 DEF RegisterCommit, CompleteLinkCommit, InsertDevice
  <2>2. CASE UnlinkRemove(w) \/ LinkInitIssue(w) \/ BundleTake(w)
    BY <2>2 DEF UnlinkRemove, LinkInitIssue, BundleTake, history
  <2> QED
    BY <2>1, <2>2, FreshFrame
<1>3. ~req'[w].stale
  <2>1. CASE Finish(w)
    BY <1>0, <2>1, IdleFields DEF Finish
  <2>2. CASE req[w].stale
    <3>1. req[w].caller \in Device /\ ~KnownKey(req[w].caller) /\ req[w].step = "auth"
      BY <1>0, <2>2 DEF StaleInv, Consistent, KnownKey, TypeOK
    <3> QED
      BY <2>1, <3>1 DEF Handle, Locking, Abort, Auth, RegisterCommit, SameAccount, LinkInitIssue,
         CompleteLinkConsume, CompleteLinkCommit, UnlinkTarget, UnlinkRemove, SendAccount,
         SendStamp, SendCommit, FetchDelete, FetchReply, BundleRead, BundlePick, BundleTake, Row
  <2>3. CASE ~req[w].stale
    <3>1. ASSUME NEW s, Goto(w, s) PROVE ~req'[w].stale
      BY <1>0, <2>3, <3>1 DEF Goto, Request
    <3>2. CASE Auth(w) \/ SameAccount(w) \/ CompleteLinkConsume(w) \/ BundleRead(w)
      BY <2>1, <3>1, <3>2 DEF Auth, SameAccount, CompleteLinkConsume, BundleRead
    <3>3. CASE UnlinkTarget(w) \/ SendAccount(w) \/ SendStamp(w) \/ FetchDelete(w) \/ BundlePick(w)
      BY <1>0, <2>1, <2>3, <3>3
         DEF UnlinkTarget, SendAccount, SendStamp, FetchDelete, BundlePick, Request
    <3> QED
      BY <2>1, <3>2, <3>3 DEF Handle, Locking, Abort, RegisterCommit, LinkInitIssue,
         CompleteLinkCommit, UnlinkRemove, SendCommit, FetchReply, BundleTake
  <2> QED
    BY <2>2, <2>3
<1> QED
  BY <1>0, <1>1, <1>2, <1>3 DEF StaleInv

LEMMA StaleNext ==
  TypeInv /\ FreshInv /\ Consistent /\ StaleInv /\ [Next]_vars => StaleInv'
<1> SUFFICES ASSUME TypeInv, FreshInv, Consistent, StaleInv, [Next]_vars PROVE StaleInv'
  OBVIOUS
<1>1. CASE UNCHANGED vars \/ ExpireCode
  BY <1>1 DEF StaleInv, vars, ExpireCode, tables, history
<1>2. ASSUME NEW w \in Worker, Arrival(w) PROVE StaleInv'
  <2>1. UNCHANGED <<owner, born>> /\ \A v \in Worker \ {w} : req'[v] = req[v]
    BY <1>2, ArrivalFrame DEF tables, history
  <2>2. req'[w].stale =>
          req'[w].step = "auth" /\ owner[req'[w].caller] = None /\ req'[w].op \in Op
    BY <1>2, ArrivalFrame, NextType DEF TypeInv, TypeOK, Request, Next
  <2>3. req'[w].stale => req'[w].caller \in born
    <3>1. req' \in [Worker -> Request] /\ Shape(req'[w])
      BY <1>2, NextType DEF TypeInv, TypeOK, Next
    <3>2. Newcomer(req'[w])
      BY <1>2, ArrivalFrame
    <3> QED
      BY <2>2, <3>1, <3>2 DEF Newcomer, Shape, StepsOf, Op
  <2> QED
    BY <2>1, <2>2, <2>3 DEF StaleInv
<1> QED
  BY <1>1, <1>2, StaleStep DEF Next

(* Revoked: no request that arrives after its device was unlinked gets past     *)
(* authentication, whatever was in flight when it was unlinked                  *)
(* (RevokedIsRefused).                                                          *)
THEOREM Revoked == Spec => []RevokedIsRefused
<1>1. Init => Consistent /\ StaleInv
  BY IdleFields DEF Init, Consistent, StaleInv
<1>2. StaleInv => RevokedIsRefused
  BY DEF StaleInv, RevokedIsRefused
<1> QED
  BY <1>1, <1>2, InitType, InitInv, NextType, FreshNext, PrekeyNext, ConsistentNext, StaleNext, PTL
     DEF Spec

(***************************************************************************)
(* Messages: that the handlers implement Mailbox, and the order in which   *)
(* messages leave the table.                                               *)
(***************************************************************************)

(* What worker w's request has taken out of the table and not yet delivered *)
Held(w) == Elements(req[w].batch) \X {req[w].caller}

(* A stamp is given once, by the INSERT that is about to commit it, and only to *)
(* a message that is sent after the ones its request found committed.           *)
StampInv ==
  /\ accepted \subseteq 1 .. clock
  /\ \A w \in Worker :
       /\ req[w].after \subseteq accepted
       /\ req[w].step # "commit" => req[w].at = 0
       /\ req[w].step = "commit" => req[w].at \in (1 .. clock) \ accepted
       /\ req[w].step = "commit" => \A x \in req[w].after : x < req[w].at
  /\ \A v, w \in Worker :
       v # w /\ req[v].step = "commit" /\ req[w].step = "commit" => req[v].at # req[w].at

(* No more stamps are given than the bound allows *)
BoundInv == clock + Cardinality(Unstamped) <= MaxMessages

(* A message is in one place: queued, held by one fetch, or received *)
PlaceInv ==
  /\ \A w \in Worker : req[w].step # "reply" => req[w].batch = <<>>
  /\ Queued \cup Received \subseteq accepted \X Device
  /\ Queued \cap Received = {}
  /\ \A w \in Worker :
       /\ Held(w) \subseteq accepted \X Device
       /\ Held(w) \cap (Queued \cup Received) = {}
  /\ \A v, w \in Worker : v # w => Held(v) \cap Held(w) = {}

(* What is still queued for a device was not committed before the sending of    *)
(* what the device was handed.                                                  *)
OrderInv ==
  /\ \A p \in follows : p[1] < p[2] /\ p[1] \in accepted /\ p[2] \in accepted
  /\ \A d \in Device : Elements(handed[d]) \subseteq accepted
  /\ \A d \in Device : \A x \in Stamps(Queue(d)), y \in Elements(handed[d]) :
       <<x, y>> \notin follows
  /\ HandedInOrder


-----------------------------------------------------------------------------
(* What a step of a handler does to its request *)

Unmoved(q, r) == q.at = r.at /\ q.after = r.after /\ q.caller = r.caller /\ q.op = r.op

LEMMA RequestStep ==
  ASSUME TypeInv, NEW w \in Worker, Handle(w) \/ Locking(w) \/ Abort(w)
  PROVE  \/ req'[w] = Idle
         \/ SendStamp(w)
         \/ /\ Unmoved(req'[w], req[w])
            /\ req[w].step \notin {"commit", "reply"} /\ req'[w].step # "commit"
            /\ FetchDelete(w) \/ (req'[w].batch = req[w].batch /\ req'[w].step # "reply")
<1>0. req \in [Worker -> Request] /\ req[w] \in Request
  BY DEF TypeInv, TypeOK
<1>1. CASE Finish(w)
  BY <1>0, <1>1 DEF Finish
<1>2. ASSUME NEW s, Goto(w, s), s \notin {"commit", "reply"}
      PROVE  Unmoved(req'[w], req[w]) /\ req'[w].batch = req[w].batch /\ req'[w].step = s
  BY <1>0, <1>2 DEF Goto, Unmoved, Request
<1>3. CASE Auth(w) \/ SameAccount(w) \/ CompleteLinkConsume(w) \/ BundleRead(w)
  BY <1>1, <1>2, <1>3 DEF Auth, Entry, SameAccount, CompleteLinkConsume, BundleRead, Row
<1>4. CASE UnlinkTarget(w) \/ SendAccount(w) \/ BundlePick(w)
  BY <1>0, <1>1, <1>4 DEF UnlinkTarget, SendAccount, BundlePick, Unmoved, Request
<1>5. CASE FetchDelete(w)
  <2>1. PICK s : req' = [req EXCEPT ![w].step = "reply", ![w].batch = s]
    BY <1>5 DEF FetchDelete
  <2>2. Unmoved(req'[w], req[w]) /\ req'[w].step = "reply"
    BY <1>0, <2>1 DEF Unmoved, Request
  <2>3. req[w].step = "delete"
    BY <1>5 DEF FetchDelete
  <2> QED
    BY <1>5, <2>2, <2>3
<1>6. CASE \/ RegisterCommit(w) \/ LinkInitIssue(w) \/ CompleteLinkCommit(w) \/ SendCommit(w)
           \/ FetchReply(w) \/ BundleTake(w) \/ UnlinkRemove(w) \/ Abort(w)
  <2>1. Finish(w)
    BY <1>6 DEF RegisterCommit, LinkInitIssue, CompleteLinkCommit, SendCommit, FetchReply,
       BundleTake, UnlinkRemove, Abort
  <2> QED
    BY <1>1, <2>1
<1>7. CASE SendStamp(w)
  BY <1>7
<1> QED
  BY <1>3, <1>4, <1>5, <1>6, <1>7 DEF Handle, Locking

(* The only steps that touch messages and their stamps *)
LEMMA MessageFrame ==
  ASSUME NEW w \in Worker, Handle(w) \/ Locking(w) \/ Abort(w),
         ~SendStamp(w), ~SendCommit(w), ~FetchDelete(w), ~FetchReply(w), ~UnlinkRemove(w)
  PROVE  UNCHANGED <<messages, clock, inbox, accepted, follows, handed>>
BY DEF Handle, Locking, Abort, Auth, SameAccount, CompleteLinkConsume, UnlinkTarget, SendAccount,
       RegisterCommit, LinkInitIssue, CompleteLinkCommit, BundleRead, BundlePick, BundleTake,
       tables, history, environment

-----------------------------------------------------------------------------
(* Stamps *)

LEMMA StampNext ==
  ASSUME TypeInv, StampInv, [Next]_vars
  PROVE  StampInv'
<1>0. /\ clock \in Nat /\ accepted \subseteq Nat /\ req \in [Worker -> Request]
      /\ \A v \in Worker : req[v] \in Request
  BY DEF TypeInv, TypeOK
<1>1. CASE UNCHANGED vars \/ ExpireCode
  BY <1>1 DEF StampInv, vars, ExpireCode, tables, history, environment
<1>2. ASSUME NEW w \in Worker, Arrival(w) PROVE StampInv'
  <2>1. UNCHANGED <<clock, accepted>> /\ \A v \in Worker \ {w} : req'[v] = req[v]
    BY <1>2, ArrivalFrame DEF environment, history
  <2>2. req'[w].at = 0 /\ req'[w].after \subseteq accepted /\ req'[w].step # "commit"
    BY <1>2, ArrivalFrame DEF Newcomer
  <2> QED
    BY <2>1, <2>2 DEF StampInv
<1>3. ASSUME NEW w \in Worker, Handle(w) \/ Locking(w) \/ Abort(w) PROVE StampInv'
  <2>1. \A v \in Worker \ {w} : req'[v] = req[v]
    BY <1>3, HandlerKeeps
  <2>2. CASE SendStamp(w)
    <3>1. clock' = clock + 1 /\ accepted' = accepted
      BY <2>2 DEF SendStamp, history
    <3>2. req'[w].step = "commit" /\ req'[w].at = clock + 1 /\ req'[w].after = req[w].after
      BY <1>0, <2>2 DEF SendStamp, Request
    <3>3. \A x \in accepted : x < clock + 1
      <4>1. accepted \subseteq 1 .. clock
        BY DEF StampInv
      <4> QED
        BY <1>0, <4>1
    <3>4. accepted' \subseteq 1 .. clock'
      BY <1>0, <3>1 DEF StampInv
    <3>5. \A v \in Worker \ {w} : req'[v].step = "commit" => req'[v].at \in (1 .. clock) \ accepted
      BY <2>1 DEF StampInv
    <3>6. \A v \in Worker :
            /\ req'[v].after \subseteq accepted
            /\ req'[v].step # "commit" => req'[v].at = 0
            /\ req'[v].step = "commit" => \A x \in req'[v].after : x < req'[v].at
      BY <2>1, <3>2, <3>3 DEF StampInv
    <3>7. clock + 1 \in (1 .. clock') \ accepted /\ clock + 1 \notin 1 .. clock
          /\ 1 .. clock \subseteq 1 .. clock'
      BY <1>0, <3>1, <3>3
    <3>8. \A v \in Worker : req'[v].step = "commit" => req'[v].at \in (1 .. clock') \ accepted
      BY <3>2, <3>5, <3>7
    <3>9. \A u, v \in Worker :
            u # v /\ req'[u].step = "commit" /\ req'[v].step = "commit" => req'[u].at # req'[v].at
      BY <2>1, <3>2, <3>5, <3>7 DEF StampInv
    <3> QED
      BY <3>1, <3>4, <3>6, <3>8, <3>9 DEF StampInv
  <2>3. CASE SendCommit(w)
    <3>1. clock' = clock /\ accepted \subseteq accepted' /\ accepted' \subseteq accepted \cup {req[w].at}
          /\ req[w].step = "commit"
      BY <2>3 DEF SendCommit, environment
    <3>2. req'[w] = Idle
      BY <1>0, <2>3 DEF SendCommit, Finish
    <3>3. req'[w].step # "commit" /\ req'[w].at = 0 /\ req'[w].after = {}
      BY <3>2, IdleFields
    <3>4. accepted' \subseteq 1 .. clock
      BY <3>1 DEF StampInv
    <3>5. \A v \in Worker \ {w} :
            /\ req[v].after \subseteq accepted'
            /\ req[v].step = "commit" => req[v].at \in (1 .. clock) \ accepted'
      BY <3>1 DEF StampInv
    <3> QED
      BY <2>1, <3>1, <3>3, <3>4, <3>5 DEF StampInv
  <2>4. CASE ~SendStamp(w) /\ ~SendCommit(w)
    <3>1. clock' = clock /\ accepted' = accepted
      BY <1>3, <2>4, MessageFrame DEF FetchDelete, FetchReply, UnlinkRemove, environment, history
    <3>2. CASE req'[w] = Idle
      BY <2>1, <3>1, <3>2, IdleFields DEF StampInv
    <3>3. CASE req'[w] # Idle
      <4>1. Unmoved(req'[w], req[w]) /\ req[w].step # "commit" /\ req'[w].step # "commit"
        BY <1>3, <2>4, <3>3, RequestStep
      <4> QED
        BY <2>1, <3>1, <4>1 DEF StampInv, Unmoved
    <3> QED
      BY <3>2, <3>3
  <2> QED
    BY <2>2, <2>3, <2>4
<1> QED
  BY <1>1, <1>2, <1>3 DEF Next

LEMMA UnstampedFinite ==
  ASSUME NEW S \in SUBSET Worker
  PROVE  IsFiniteSet(S) /\ Cardinality(S) \in Nat
BY ServerAssumption, FS_Subset, FS_CardinalityType

LEMMA BoundKept ==
  ASSUME TypeInv, BoundInv, clock' = clock, Unstamped' \subseteq Unstamped
  PROVE  BoundInv'
<1>1. IsFiniteSet(Unstamped) /\ Cardinality(Unstamped) \in Nat /\ Unstamped \subseteq Worker
  BY UnstampedFinite DEF Unstamped
<1>2. Cardinality(Unstamped') <= Cardinality(Unstamped) /\ Cardinality(Unstamped') \in Nat
  BY <1>1, FS_Subset, FS_CardinalityType
<1>3. clock \in Nat /\ MaxMessages \in Nat
  BY ServerAssumption DEF TypeInv, TypeOK
<1> QED
  BY <1>1, <1>2, <1>3 DEF BoundInv

LEMMA BoundNext ==
  ASSUME TypeInv, StampInv, BoundInv, [Next]_vars
  PROVE  BoundInv'
<1>0. /\ clock \in Nat /\ req \in [Worker -> Request] /\ \A v \in Worker : req[v] \in Request
      /\ MaxMessages \in Nat
  BY ServerAssumption DEF TypeInv, TypeOK
<1>1. CASE UNCHANGED vars \/ ExpireCode
  BY <1>1 DEF BoundInv, Unstamped, vars, ExpireCode, environment
<1>2. IsFiniteSet(Unstamped) /\ Cardinality(Unstamped) \in Nat
  BY UnstampedFinite DEF Unstamped
<1>3. ASSUME NEW w \in Worker, Arrival(w) PROVE BoundInv'
  <2>1. clock' = clock /\ \A v \in Worker \ {w} : req'[v] = req[v]
    BY <1>3, ArrivalFrame DEF environment
  <2>2. CASE req'[w].op = "send"
    <3>1. clock + Cardinality(Unstamped) < MaxMessages
      BY <1>3, <2>2, ArrivalFrame DEF Newcomer
    <3>2. Unstamped' \subseteq Unstamped \cup {w}
      BY <2>1 DEF Unstamped
    <3>3. /\ IsFiniteSet(Unstamped \cup {w})
          /\ Cardinality(Unstamped \cup {w}) <= Cardinality(Unstamped) + 1
      BY <1>2, FS_AddElement
    <3>4. /\ Cardinality(Unstamped') <= Cardinality(Unstamped \cup {w})
          /\ Cardinality(Unstamped') \in Nat /\ Cardinality(Unstamped \cup {w}) \in Nat
      BY <3>2, <3>3, FS_Subset, FS_CardinalityType
    <3> QED
      BY <1>0, <1>2, <2>1, <3>1, <3>3, <3>4 DEF BoundInv
  <2>3. CASE req'[w].op # "send"
    <3>1. Unstamped' \subseteq Unstamped
      BY <2>1, <2>3 DEF Unstamped
    <3> QED
      BY <2>1, <3>1, BoundKept
  <2> QED
    BY <2>2, <2>3
<1>4. ASSUME NEW w \in Worker, Handle(w) \/ Locking(w) \/ Abort(w) PROVE BoundInv'
  <2>1. \A v \in Worker \ {w} : req'[v] = req[v]
    BY <1>4, HandlerKeeps
  <2>2. CASE SendStamp(w)
    <3>1. req[w].op = "send" /\ req[w].at = 0 /\ clock' = clock + 1
      BY <1>0, <2>2 DEF SendStamp, TypeInv, Shape, StepsOf, Request, Op, StampInv
    <3>2. req'[w].at = clock + 1
      BY <1>0, <2>2 DEF SendStamp, Request
    <3>3. w \in Unstamped /\ Unstamped' = Unstamped \ {w}
      BY <1>0, <2>1, <3>1, <3>2 DEF Unstamped
    <3>4. Cardinality(Unstamped') = Cardinality(Unstamped) - 1
      BY <1>2, <3>3, FS_RemoveElement
    <3> QED
      BY <1>0, <1>2, <3>1, <3>4 DEF BoundInv
  <2>3. CASE ~SendStamp(w)
    <3>1. clock' = clock
      BY <1>4, <2>3, MessageFrame DEF SendCommit, FetchDelete, FetchReply, UnlinkRemove, environment
    <3>2. req'[w].op = "send" /\ req'[w].at = 0 => req[w].op = "send" /\ req[w].at = 0
      BY <1>4, <2>3, RequestStep, IdleFields DEF Unmoved
    <3>3. Unstamped' \subseteq Unstamped
      BY <2>1, <3>2 DEF Unstamped
    <3> QED
      BY <3>1, <3>3, BoundKept
  <2> QED
    BY <2>2, <2>3
<1> QED
  BY <1>1, <1>3, <1>4 DEF Next

-----------------------------------------------------------------------------
(* Places *)

(* The response to a fetch has every message that was queued, in their order *)
LEMMA AscendingAll ==
  ASSUME TypeInv, NEW d \in Device, NEW s \in Ascending(Stamps(Queue(d)))
  PROVE  /\ s \in Seq(Nat) /\ Elements(s) = Stamps(Queue(d))
         /\ \A i, j \in DOMAIN s : i < j => s[i] < s[j]
<1> DEFINE S == Stamps(Queue(d))
           N == 1 .. Cardinality(S)
<1>1. S \subseteq Nat /\ clock \in Nat /\ \A x \in S : x <= clock
  BY DEF Stamps, Queue, TypeInv, TypeOK, Message
<1>2. IsFiniteSet(S)
  BY <1>1, FS_BoundedSetOfNaturals
<1>3. Cardinality(S) \in Nat
  BY <1>2, FS_CardinalityType
<1>4. s \in [N -> S] /\ \A i, j \in DOMAIN s : i < j => s[i] < s[j]
  BY DEF Ascending
<1> HIDE DEF S
<1>5. ASSUME NEW i \in N, NEW j \in N, s[i] = s[j] PROVE i = j
  <2>0. i \in Nat /\ j \in Nat
    BY <1>3
  <2>1. s[i] \in Nat /\ s[j] \in Nat
    BY <1>1, <1>4
  <2>2. (i < j => s[i] < s[j]) /\ (j < i => s[j] < s[i])
    BY <1>4
  <2> QED
    BY <1>5, <2>0, <2>1, <2>2
<1>6. s \in Injection(N, S)
  BY <1>4, <1>5, Fun_IsInj
<1>7. IsFiniteSet(N) /\ Cardinality(N) = Cardinality(S)
  BY <1>3, FS_Interval
<1> HIDE DEF N
<1>8. s \in Surjection(N, S)
  BY <1>2, <1>6, <1>7, FS_Injection
<1>9. \A x \in S : \E i \in N : s[i] = x
  BY <1>8, Fun_SurjectionProperties
<1>10. Elements(s) = S
  BY <1>4, <1>9 DEF Elements
<1>11. s \in Seq(Nat)
  BY BatchType
<1> QED
  BY <1>4, <1>10, <1>11 DEF S

LEMMA EmptyHeld == \A w \in Worker : req[w].batch = <<>> => Held(w) = {}
  BY DEF Held, Elements

LEMMA CarriedIsHeld == \A p : p \in Carried <=> \E w \in Worker : p \in Held(w)
  BY DEF Carried, Held

LEMMA QueuedAre == \A p : p \in Queued <=> \E m \in messages : p = <<m.at, m.to>>
  BY DEF Queued

LEMMA ConcatElements ==
  ASSUME NEW s \in Seq(Nat), NEW t \in Seq(Nat)
  PROVE  Elements(s \o t) = Elements(s) \cup Elements(t)
<1>1. s \o t \in Seq(Nat) /\ Len(s \o t) = Len(s) + Len(t)
      /\ \A i \in 1 .. Len(s) + Len(t) :
           (s \o t)[i] = IF i <= Len(s) THEN s[i] ELSE t[i - Len(s)]
  BY ConcatProperties
<1>2. Len(s) \in Nat /\ Len(t) \in Nat /\ DOMAIN s = 1 .. Len(s) /\ DOMAIN t = 1 .. Len(t)
      /\ DOMAIN (s \o t) = 1 .. Len(s) + Len(t)
  BY <1>1, LenProperties
<1>3. ASSUME NEW i \in DOMAIN (s \o t) PROVE (s \o t)[i] \in Elements(s) \cup Elements(t)
  BY <1>1, <1>2 DEF Elements
<1>4. ASSUME NEW i \in DOMAIN s PROVE s[i] \in Elements(s \o t)
  BY <1>1, <1>2 DEF Elements
<1>5. ASSUME NEW i \in DOMAIN t PROVE t[i] \in Elements(s \o t)
  <2>1. i + Len(s) \in 1 .. Len(s) + Len(t) /\ (i + Len(s)) - Len(s) = i /\ ~(i + Len(s) <= Len(s))
    BY <1>2
  <2>2. (s \o t)[i + Len(s)] = t[i]
    BY <1>1, <2>1
  <2> QED
    BY <1>2, <2>1, <2>2 DEF Elements
<1> QED
  BY <1>3, <1>4, <1>5 DEF Elements

(* What a request holds is lost with it, or replaced by what the request does;  *)
(* the others keep what they hold.                                              *)
LEMMA HeldStep ==
  ASSUME TypeInv, PlaceInv, NEW w \in Worker, \A v \in Worker \ {w} : req'[v] = req[v]
  PROVE  /\ \A v \in Worker \ {w} : Held(v)' = Held(v)
         /\ Carried' = (Carried \ Held(w)) \cup Held(w)'
<1>1. \A v \in Worker \ {w} : Held(v)' = Held(v)
  BY DEF Held
<1>2. \A p : p \in Carried' <=> \E v \in Worker : p \in Held(v)'
  BY DEF Carried, Held
<1>3. \A v \in Worker \ {w} : Held(v) \cap Held(w) = {}
  BY DEF PlaceInv
<1> QED
  BY <1>1, <1>2, <1>3, CarriedIsHeld

(* A request that goes on without fetching holds nothing *)
LEMMA HeldQuiet ==
  ASSUME TypeInv, PlaceInv, NEW w \in Worker, Handle(w) \/ Locking(w) \/ Abort(w),
         ~FetchDelete(w)
  PROVE  /\ Held(w)' = {}
         /\ req'[w].step # "reply" /\ req'[w].batch = <<>>
         /\ req[w].step # "reply" => Held(w) = {}
<1>0. req \in [Worker -> Request] /\ req[w] \in Request
  BY DEF TypeInv, TypeOK
<1>1. req[w].step # "reply" => req[w].batch = <<>>
  BY DEF PlaceInv
<1>2. req'[w].step # "reply" /\ req'[w].batch = <<>>
  <2>1. CASE SendStamp(w)
    BY <1>0, <1>1, <2>1 DEF SendStamp, Request
  <2>2. CASE ~SendStamp(w)
    BY <1>1, <2>2, RequestStep, IdleFields
  <2> QED
    BY <2>1, <2>2
<1>3. Held(w)' = {}
  BY <1>2 DEF Held, Elements
<1> QED
  BY <1>1, <1>2, <1>3, EmptyHeld

(* The cases of a step, in the terms of Mailbox *)
Posts(w) ==
  /\ req[w].step = "commit" /\ req[w].at \notin accepted /\ req[w].target \in Device
  /\ accepted' = accepted \cup {req[w].at}
  /\ Queued' = Queued \cup {<<req[w].at, req[w].target>>}
  /\ Received' = Received
  /\ Held(w)' = {} /\ Held(w) = {}
Takes(w) ==
  /\ req[w].caller \in Device
  /\ accepted' = accepted /\ Received' = Received
  /\ Queued' = Queued \ Box!Of(req[w].caller, Queued)
  /\ Held(w)' = Box!Of(req[w].caller, Queued) /\ Held(w) = {}
Delivers(w) ==
  /\ req[w].caller \in Device
  /\ accepted' = accepted /\ Queued' = Queued
  /\ Received' = Received \cup Held(w) /\ Held(w)' = {}
Loses(w) ==
  /\ req[w].step = "reply"
  /\ accepted' = accepted /\ Queued' = Queued /\ Received' = Received /\ Held(w)' = {}
Drops(w) ==
  /\ accepted' = accepted /\ Received' = Received /\ Queued' \subseteq Queued
  /\ Held(w)' = {} /\ Held(w) = {}

LEMMA MailboxStep ==
  ASSUME TypeInv, StampInv, PlaceInv, NEW w \in Worker, Handle(w) \/ Locking(w) \/ Abort(w)
  PROVE  Posts(w) \/ Takes(w) \/ Delivers(w) \/ Loses(w) \/ Drops(w)
<1>0. /\ req \in [Worker -> Request] /\ req[w] \in Request /\ Shape(req[w]) /\ TypeOK
  BY DEF TypeInv, TypeOK
<1>1. UNCHANGED messages => Queued' = Queued
  BY DEF Queued
<1>2. UNCHANGED inbox => Received' = Received
  BY DEF Received
<1>3. CASE SendCommit(w)
  <2>1. req[w].step = "commit" /\ req[w].op = "send" /\ req[w].target \in Device
    BY <1>0, <1>3 DEF SendCommit, Shape, StepsOf, Request, Op
  <2>2. Held(w)' = {} /\ Held(w) = {} /\ Received' = Received
    BY <1>2, <1>3, <2>1, HeldQuiet DEF SendCommit, FetchDelete, environment
  <2>3. req[w].at \notin accepted
    BY <2>1 DEF StampInv
  <2>4. CASE UNCHANGED <<messages, accepted>>
    BY <1>1, <2>2, <2>4 DEF Drops
  <2>5. CASE /\ messages' = messages \cup {[at |-> req[w].at, from |-> req[w].caller,
                                            account |-> req[w].account, to |-> req[w].target]}
             /\ accepted' = accepted \cup {req[w].at}
    <3> DEFINE n == [at |-> req[w].at, from |-> req[w].caller,
                     account |-> req[w].account, to |-> req[w].target]
    <3>0. messages' = messages \cup {n} /\ n.at = req[w].at /\ n.to = req[w].target
      BY <2>5
    <3> HIDE DEF n
    <3>1. Queued' = Queued \cup {<<req[w].at, req[w].target>>}
      <4>1. Queued' = {<<m.at, m.to>> : m \in messages \cup {n}}
        BY <3>0 DEF Queued
      <4>2. {<<m.at, m.to>> : m \in messages \cup {n}} = Queued \cup {<<n.at, n.to>>}
        BY DEF Queued
      <4> QED
        BY <3>0, <4>1, <4>2
    <3> QED
      BY <2>1, <2>2, <2>3, <2>5, <3>1 DEF Posts
  <2> QED
    BY <1>3, <2>4, <2>5 DEF SendCommit
<1>4. CASE FetchDelete(w)
  <2> DEFINE d == req[w].caller
  <2>1. req[w].op = "fetch" /\ d \in Device /\ req[w].step = "delete"
    BY <1>0, <1>4 DEF FetchDelete, Shape, StepsOf, Request, Op
  <2>2. PICK s \in Ascending(Stamps(Queue(d))) :
          req' = [req EXCEPT ![w].step = "reply", ![w].batch = s]
    BY <1>4 DEF FetchDelete
  <2>3. req'[w].batch = s /\ req'[w].caller = d
    BY <1>0, <2>2 DEF Request
  <2>4. Held(w)' = Stamps(Queue(d)) \X {d}
    <3>1. Elements(s) = Stamps(Queue(d))
      BY <2>1, AscendingAll
    <3>2. Held(w)' = Elements(req'[w].batch) \X {req'[w].caller}
      BY DEF Held
    <3> QED
      BY ONLY <2>3, <3>1, <3>2
  <2>5. Stamps(Queue(d)) \X {d} = Box!Of(d, Queued)
    BY DEF Stamps, Queue, Queued, Box!Of
  <2>6. messages' = {m \in messages : m.to # d}
    BY <1>4 DEF FetchDelete, Left, Queue
  <2>7. Queued' = Queued \ Box!Of(d, Queued)
    BY <2>6 DEF Queued, Box!Of
  <2>8. accepted' = accepted /\ Received' = Received
    BY <1>2, <1>4 DEF FetchDelete, environment
  <2>9. Held(w) = {}
    BY <2>1, EmptyHeld DEF PlaceInv
  <2> QED
    BY <2>1, <2>4, <2>5, <2>7, <2>8, <2>9 DEF Takes
<1>5. CASE FetchReply(w)
  <2> DEFINE d == req[w].caller
  <2>1. req[w].op = "fetch" /\ d \in Device /\ req[w].step = "reply" /\ req[w].batch \in Seq(Nat)
    BY <1>0, <1>5 DEF FetchReply, Shape, StepsOf, Request, Op
  <2>2. Held(w)' = {}
    BY <1>5, <2>1, HeldQuiet DEF FetchDelete
  <2>3. inbox \in [Device -> Seq(Nat)] /\ inbox' = [inbox EXCEPT ![d] = @ \o req[w].batch]
    BY <1>0, <1>5 DEF FetchReply, TypeOK
  <2>4. Elements(inbox'[d]) = Elements(inbox[d]) \cup Elements(req[w].batch)
    BY <2>1, <2>3, ConcatElements
  <2>5. \A e \in Device \ {d} : inbox'[e] = inbox[e]
    BY <2>3
  <2>6. Received' = Received \cup Held(w)
    BY <2>1, <2>4, <2>5 DEF Received, Held
  <2>7. accepted' = accepted /\ Queued' = Queued
    BY <1>1, <1>5 DEF FetchReply, tables, history
  <2> QED
    BY <2>1, <2>2, <2>6, <2>7 DEF Delivers
<1>6. CASE UnlinkRemove(w)
  <2>1. Held(w)' = {} /\ Held(w) = {}
    BY <1>6, HeldQuiet DEF UnlinkRemove, FetchDelete
  <2>2. accepted' = accepted /\ Received' = Received /\ messages' \subseteq messages
    BY <1>2, <1>6 DEF UnlinkRemove, MessagesWithout, environment, history
  <2>3. Queued' \subseteq Queued
    BY <2>2 DEF Queued
  <2> QED
    BY <2>1, <2>2, <2>3 DEF Drops
<1>7. CASE ~SendCommit(w) /\ ~FetchDelete(w) /\ ~FetchReply(w) /\ ~UnlinkRemove(w)
  <2>1. UNCHANGED <<messages, inbox, accepted>>
    BY <1>7, MessageFrame DEF SendStamp, tables, history
  <2>2. Held(w)' = {} /\ (req[w].step # "reply" => Held(w) = {})
    BY <1>7, HeldQuiet
  <2> QED
    BY <1>1, <1>2, <2>1, <2>2 DEF Loses, Drops
<1> QED
  BY <1>3, <1>4, <1>5, <1>6, <1>7

(* Arrivals do not touch messages, and hold none *)
LEMMA MailboxArrival ==
  ASSUME TypeInv, PlaceInv, NEW w \in Worker, Arrival(w)
  PROVE  Drops(w) /\ req'[w].batch = <<>>
<1>1. UNCHANGED <<messages, inbox, accepted>> /\ req[w] = Idle /\ req'[w].batch = <<>>
  BY ArrivalFrame DEF Newcomer, tables, environment, history
<1>2. Queued' = Queued /\ Received' = Received
  BY <1>1 DEF Queued, Received
<1>3. Held(w)' = {} /\ Held(w) = {}
  BY <1>1, IdleFields DEF Held, Elements
<1> QED
  BY <1>1, <1>2, <1>3 DEF Drops

LEMMA PlaceNext ==
  ASSUME TypeInv, StampInv, PlaceInv, [Next]_vars
  PROVE  PlaceInv'
<1>1. CASE UNCHANGED vars \/ ExpireCode
  <2>1. UNCHANGED <<messages, accepted, inbox, req>>
    BY <1>1 DEF vars, ExpireCode, tables, history, environment
  <2> QED
    BY <2>1 DEF PlaceInv, Queued, Received, Held
<1>2. ASSUME NEW w \in Worker, \A v \in Worker \ {w} : req'[v] = req[v],
             req'[w].step # "reply" => req'[w].batch = <<>>,
             Posts(w) \/ Takes(w) \/ Delivers(w) \/ Loses(w) \/ Drops(w)
      PROVE  PlaceInv'
  <2>1. \A v \in Worker \ {w} : Held(v)' = Held(v)
    BY <1>2, HeldStep
  <2>2. \A v \in Worker : req'[v].step # "reply" => req'[v].batch = <<>>
    BY <1>2 DEF PlaceInv
  <2>3. accepted \X Device \subseteq accepted' \X Device
    BY <1>2 DEF Posts, Takes, Delivers, Loses, Drops
  <2>4. Box!Of(req[w].caller, Queued) \subseteq Queued
    BY DEF Box!Of
  <2>5. Queued' \cup Received' \subseteq accepted' \X Device /\ Queued' \cap Received' = {}
    <3>1. CASE Posts(w)
      <4>1. <<req[w].at, req[w].target>> \in accepted' \X Device
        BY <3>1 DEF Posts
      <4>2. <<req[w].at, req[w].target>> \notin accepted \X Device
        BY <3>1 DEF Posts
      <4> QED
        BY <2>3, <3>1, <4>1, <4>2 DEF Posts, PlaceInv
    <3>2. CASE Delivers(w)
      BY <2>3, <3>2 DEF Delivers, PlaceInv
    <3>3. CASE Takes(w) \/ Loses(w) \/ Drops(w)
      BY <2>3, <3>3 DEF Takes, Loses, Drops, PlaceInv
    <3> QED
      BY <1>2, <3>1, <3>2, <3>3
  <2>6. Held(w)' \subseteq accepted' \X Device /\ Held(w)' \cap (Queued' \cup Received') = {}
    BY <1>2, <2>3, <2>4 DEF Posts, Takes, Delivers, Loses, Drops, PlaceInv
  <2>7. \A v \in Worker \ {w} :
          Held(v) \subseteq accepted' \X Device /\ Held(v) \cap (Queued' \cup Received') = {}
    <3> SUFFICES ASSUME NEW v \in Worker \ {w}
                 PROVE  Held(v) \subseteq accepted' \X Device
                        /\ Held(v) \cap (Queued' \cup Received') = {}
      OBVIOUS
    <3>1. Held(v) \subseteq accepted \X Device /\ Held(v) \cap (Queued \cup Received) = {}
          /\ Held(v) \cap Held(w) = {}
      BY DEF PlaceInv
    <3>2. CASE Posts(w)
      <4>1. <<req[w].at, req[w].target>> \notin accepted \X Device
        BY <3>2 DEF Posts
      <4> QED
        BY <2>3, <3>1, <3>2, <4>1 DEF Posts
    <3>3. CASE Delivers(w)
      BY <2>3, <3>1, <3>3 DEF Delivers
    <3>4. CASE Takes(w) \/ Loses(w) \/ Drops(w)
      BY <2>3, <3>1, <3>4 DEF Takes, Loses, Drops
    <3> QED
      BY <1>2, <3>2, <3>3, <3>4
  <2>8. \A v \in Worker \ {w} : Held(v) \cap Held(w)' = {}
    BY <1>2, <2>4 DEF Posts, Takes, Delivers, Loses, Drops, PlaceInv
  <2>9. \A u, v \in Worker : u # v => Held(u)' \cap Held(v)' = {}
    BY <2>1, <2>8 DEF PlaceInv
  <2>10. \A v \in Worker :
           Held(v)' \subseteq accepted' \X Device /\ Held(v)' \cap (Queued' \cup Received') = {}
    BY <2>1, <2>6, <2>7
  <2> QED
    BY <2>2, <2>5, <2>9, <2>10 DEF PlaceInv
<1>3. ASSUME NEW w \in Worker, Arrival(w) PROVE PlaceInv'
  BY <1>2, <1>3, MailboxArrival, ArrivalFrame
<1>4. ASSUME NEW w \in Worker, Handle(w) \/ Locking(w) \/ Abort(w) PROVE PlaceInv'
  <2>1. \A v \in Worker \ {w} : req'[v] = req[v]
    BY <1>4, HandlerKeeps
  <2>2. req'[w].step # "reply" => req'[w].batch = <<>>
    <3>1. CASE FetchDelete(w)
      <4>1. PICK s : req' = [req EXCEPT ![w].step = "reply", ![w].batch = s]
        BY <3>1 DEF FetchDelete
      <4> QED
        BY <4>1 DEF TypeInv, TypeOK, Request
    <3>2. CASE ~FetchDelete(w)
      BY <1>4, <3>2, HeldQuiet
    <3> QED
      BY <3>1, <3>2
  <2> QED
    BY <1>2, <1>4, <2>1, <2>2, MailboxStep
<1> QED
  BY <1>1, <1>3, <1>4 DEF Next

LEMMA InitMailbox == Init => StampInv /\ BoundInv /\ PlaceInv
<1> SUFFICES ASSUME Init PROVE StampInv /\ BoundInv /\ PlaceInv
  OBVIOUS
<1>1. StampInv
  BY IdleFields DEF Init, StampInv
<1>2. BoundInv
  <2>1. Unstamped = {}
    BY IdleFields DEF Init, Unstamped
  <2> QED
    BY <2>1, FS_EmptySet, ServerAssumption DEF Init, BoundInv
<1>3. Queued = {} /\ Received = {} /\ \A w \in Worker : Held(w) = {}
  BY IdleFields DEF Init, Queued, Received, Held, Elements
<1>4. PlaceInv
  BY <1>3, IdleFields DEF Init, PlaceInv
<1> QED
  BY <1>1, <1>2, <1>4

(* MessagesOnce: a message is never at once queued, on its way and received     *)
(* (AtMostOnce), whichever requests race, fail or are cut off.                  *)
THEOREM MessagesOnce == Spec => []AtMostOnce
<1>1. PlaceInv => AtMostOnce
  BY CarriedIsHeld DEF PlaceInv, AtMostOnce, Box!AtMostOnce
<1> QED
  BY <1>1, InitType, InitMailbox, NextType, StampNext, PlaceNext, PTL DEF Spec

-----------------------------------------------------------------------------
(* The refinement *)

LEMMA RefinesStep ==
  ASSUME TypeInv, StampInv, BoundInv, PlaceInv, [Next]_vars
  PROVE  [Box!Next]_(Box!vars)
<1>1. CASE UNCHANGED vars \/ ExpireCode
  <2>1. UNCHANGED <<messages, accepted, inbox, req>>
    BY <1>1 DEF vars, ExpireCode, tables, history, environment
  <2> QED
    BY <2>1 DEF Box!vars, Queued, Received, Carried
<1>2. ASSUME NEW w \in Worker, \A v \in Worker \ {w} : req'[v] = req[v],
             Posts(w) \/ Takes(w) \/ Delivers(w) \/ Loses(w) \/ Drops(w)
      PROVE  [Box!Next]_(Box!vars)
  <2>1. Carried' = (Carried \ Held(w)) \cup Held(w)'
    BY <1>2, HeldStep
  <2>2. Held(w) \subseteq Carried
    BY CarriedIsHeld
  <2>3. Held(w) \in SUBSET Box!Of(req[w].caller, Carried)
    BY <2>2 DEF Box!Of, Held
  <2>4. CASE Posts(w)
    <3>1. req[w].at \in 1 .. MaxMessages
      <4>1. req[w].at \in 1 .. clock
        BY <2>4 DEF Posts, StampInv
      <4>2. clock <= MaxMessages
        <5>1. Cardinality(Unstamped) \in Nat
          <6>1. Unstamped \subseteq Worker
            BY DEF Unstamped
          <6> QED
            BY <6>1, UnstampedFinite
        <5> QED
          BY <5>1, ServerAssumption DEF BoundInv, TypeInv, TypeOK
      <4> QED
        BY <4>1, <4>2, ServerAssumption DEF TypeInv, TypeOK
    <3>2. Box!Post(req[w].at, req[w].target)
      BY <2>1, <2>4 DEF Posts, Box!Post
    <3> QED
      BY <2>4, <3>1, <3>2 DEF Posts, Box!Next
  <2>5. CASE Takes(w)
    <3>1. Box!Take(req[w].caller)
      BY <2>1, <2>5 DEF Takes, Box!Take
    <3> QED
      BY <2>5, <3>1 DEF Takes, Box!Next
  <2>6. CASE Delivers(w)
    <3>1. Box!Deliver(req[w].caller)
      BY <2>1, <2>3, <2>6 DEF Delivers, Box!Deliver
    <3> QED
      BY <2>6, <3>1 DEF Delivers, Box!Next
  <2>7. CASE Loses(w)
    <3>1. req[w].caller \in Device
      BY <2>7 DEF Loses, TypeInv, TypeOK, Shape, StepsOf, Request, Op
    <3>2. Box!Lose(req[w].caller)
      BY <2>1, <2>3, <2>7 DEF Loses, Box!Lose
    <3> QED
      BY <3>1, <3>2 DEF Box!Next
  <2>8. CASE Drops(w)
    <3>1. Box!Drop
      <4>1. Carried' = Carried /\ Received' = Received /\ accepted' = accepted
        BY <2>1, <2>8 DEF Drops
      <4>2. PICK S : S = Queued \ Queued'
        OBVIOUS
      <4>3. S \in SUBSET Queued /\ Queued' = Queued \ S
        BY <2>8, <4>2 DEF Drops
      <4> QED
        BY <4>1, <4>3 DEF Box!Drop
    <3> QED
      BY <3>1 DEF Box!Next
  <2> QED
    BY <1>2, <2>4, <2>5, <2>6, <2>7, <2>8
<1>3. ASSUME NEW w \in Worker, Arrival(w) PROVE [Box!Next]_(Box!vars)
  BY <1>2, <1>3, MailboxArrival, ArrivalFrame
<1>4. ASSUME NEW w \in Worker, Handle(w) \/ Locking(w) \/ Abort(w)
      PROVE  [Box!Next]_(Box!vars)
  BY <1>2, <1>4, MailboxStep, HandlerKeeps
<1> QED
  BY <1>1, <1>3, <1>4 DEF Next

(* ImplementsMailbox: the handlers of send_message, fetch_messages and          *)
(* unlink_device, beside all others, implement the mailbox (MailboxSpec).       *)
THEOREM ImplementsMailbox == Spec => MailboxSpec
<1>1. Init => Box!Init
  <2> SUFFICES ASSUME Init PROVE Box!Init
    OBVIOUS
  <2>1. Queued = {} /\ Received = {} /\ Carried = {}
    BY IdleFields DEF Init, Queued, Received, Carried, Elements
  <2> QED
    BY <2>1 DEF Init, Box!Init
<1>2. TypeInv /\ StampInv /\ BoundInv /\ PlaceInv /\ [Next]_vars => [Box!Next]_(Box!vars)
  BY RefinesStep
<1> QED
  BY <1>1, <1>2, InitType, InitMailbox, NextType, StampNext, BoundNext, PlaceNext, PTL
     DEF Spec, MailboxSpec, Box!Spec

-----------------------------------------------------------------------------
(* Order *)

(* A fetch hands out what is queued for its device after what it handed out     *)
(* before, and in order.                                                        *)
LEMMA OrderFetch ==
  ASSUME TypeInv, OrderInv, PlaceInv, NEW w \in Worker, FetchDelete(w)
  PROVE  OrderInv'
<1>0. /\ req[w] \in Request /\ Shape(req[w]) /\ handed \in [Device -> Seq(Nat)]
      /\ accepted \subseteq Nat
  BY DEF TypeInv, TypeOK
<1>1. PICK d \in Device : d = req[w].caller
  BY <1>0 DEF FetchDelete, Shape, StepsOf, Request, Op
<1>2. PICK s \in Ascending(Stamps(Queue(d))) : handed' = [handed EXCEPT ![d] = @ \o s]
  BY <1>1 DEF FetchDelete
<1>3. /\ s \in Seq(Nat) /\ Elements(s) = Stamps(Queue(d))
      /\ \A i, j \in DOMAIN s : i < j => s[i] < s[j]
  BY <1>1, AscendingAll
<1>4. PICK h : h = handed[d]
  OBVIOUS
<1>5. h \in Seq(Nat) /\ handed'[d] = h \o s /\ \A e \in Device \ {d} : handed'[e] = handed[e]
  BY <1>0, <1>1, <1>2, <1>4
<1>6. Elements(h \o s) = Elements(h) \cup Elements(s)
  BY <1>3, <1>5, ConcatElements
<1>7. UNCHANGED <<accepted, follows>> /\ messages' = {m \in messages : m.to # d}
  BY <1>1 DEF FetchDelete, Left, Queue
<1>8. \A p \in follows : p[1] < p[2] /\ p[1] \in accepted /\ p[2] \in accepted
  BY DEF OrderInv
<1>9. Stamps(Queue(d)) \subseteq accepted
  <2>1. ASSUME NEW m \in messages PROVE m.at \in accepted
    <3>1. <<m.at, m.to>> \in Queued
      BY DEF Queued
    <3>2. <<m.at, m.to>> \in accepted \X Device
      BY <3>1 DEF PlaceInv
    <3> QED
      BY <3>2
  <2> QED
    BY <2>1 DEF Stamps, Queue
<1>10. ASSUME NEW e \in Device PROVE Elements(handed'[e]) \subseteq accepted
  <2>1. Elements(handed[e]) \subseteq accepted
    BY DEF OrderInv
  <2>2. CASE e = d
    BY <1>3, <1>4, <1>5, <1>6, <1>9, <2>1, <2>2
  <2>3. CASE e # d
    BY <1>5, <2>1, <2>3
  <2> QED
    BY <2>2, <2>3
<1>11. Stamps(Queue(d))' = {}
  <2>1. {m \in messages' : m.to = d} = {}
    BY <1>7
  <2> QED
    BY <2>1 DEF Stamps, Queue
<1>12. ASSUME NEW e \in Device, NEW x \in Stamps(Queue(e))', NEW y \in Elements(handed'[e])
       PROVE  <<x, y>> \notin follows
  <2>1. e # d
    BY <1>11
  <2>2. x \in Stamps(Queue(e)) /\ y \in Elements(handed[e])
    BY <1>5, <1>7, <2>1 DEF Stamps, Queue
  <2> QED
    BY <2>2 DEF OrderInv
<1>13. ASSUME NEW i \in DOMAIN (h \o s), NEW j \in DOMAIN (h \o s),
              <<(h \o s)[i], (h \o s)[j]>> \in follows
       PROVE  i < j
  <2>1. /\ Len(s) \in Nat /\ Len(h) \in Nat /\ DOMAIN s = 1 .. Len(s) /\ DOMAIN h = 1 .. Len(h)
        /\ i \in 1 .. Len(h) + Len(s) /\ j \in 1 .. Len(h) + Len(s)
    BY <1>3, <1>5, ConcatProperties, LenProperties
  <2>2. /\ (h \o s)[i] = IF i <= Len(h) THEN h[i] ELSE s[i - Len(h)]
        /\ (h \o s)[j] = IF j <= Len(h) THEN h[j] ELSE s[j - Len(h)]
    BY <1>3, <1>5, <2>1, ConcatProperties
  <2>3. CASE i <= Len(h) /\ j <= Len(h)
    <3>1. i \in DOMAIN h /\ j \in DOMAIN h /\ <<h[i], h[j]>> \in follows
      BY <1>13, <2>1, <2>2, <2>3
    <3> QED
      BY <1>1, <1>4, <3>1 DEF OrderInv, HandedInOrder
  <2>4. CASE i <= Len(h) /\ ~(j <= Len(h))
    BY <2>1, <2>4
  <2>5. CASE ~(i <= Len(h)) /\ j <= Len(h)
    <3>1. i - Len(h) \in DOMAIN s /\ j \in DOMAIN h /\ <<s[i - Len(h)], h[j]>> \in follows
      BY <1>13, <2>1, <2>2, <2>5
    <3>2. s[i - Len(h)] \in Stamps(Queue(d)) /\ h[j] \in Elements(h)
      BY <1>3, <3>1 DEF Elements
    <3> QED
      BY <1>1, <1>4, <3>1, <3>2 DEF OrderInv
  <2>6. CASE ~(i <= Len(h)) /\ ~(j <= Len(h))
    <3>1. PICK k, l : k = i - Len(h) /\ l = j - Len(h)
      OBVIOUS
    <3>2. k \in DOMAIN s /\ l \in DOMAIN s /\ <<s[k], s[l]>> \in follows
      BY <1>13, <2>1, <2>2, <2>6, <3>1
    <3>3. s[k] < s[l] /\ s[k] \in Nat /\ s[l] \in Nat
      BY <1>0, <1>8, <3>2
    <3>4. ~(l < k) /\ l # k
      BY <1>3, <3>2, <3>3
    <3> QED
      BY <2>1, <3>1, <3>2, <3>4
  <2> QED
    BY <2>3, <2>4, <2>5, <2>6
<1>14. HandedInOrder'
  BY <1>5, <1>7, <1>13 DEF OrderInv, HandedInOrder
<1> QED
  BY <1>7, <1>8, <1>10, <1>12, <1>14 DEF OrderInv

LEMMA OrderCommit ==
  ASSUME TypeInv, StampInv, OrderInv, PlaceInv, NEW w \in Worker, SendCommit(w)
  PROVE  OrderInv'
<1> DEFINE r == req[w]
<1>0. handed' = handed /\ r.step = "commit" /\ r.at \notin accepted /\ r.after \subseteq accepted
      /\ \A x \in r.after : x < r.at
  BY DEF SendCommit, StampInv
<1>1. CASE UNCHANGED <<messages, accepted, follows>>
  BY <1>0, <1>1 DEF OrderInv, HandedInOrder, Stamps, Queue
<1>2. CASE /\ messages' = messages \cup {[at |-> r.at, from |-> r.caller,
                                          account |-> r.account, to |-> r.target]}
           /\ accepted' = accepted \cup {r.at}
           /\ follows' = follows \cup (r.after \X {r.at})
  <2>1. \A d \in Device : Stamps(Queue(d))' \subseteq Stamps(Queue(d)) \cup {r.at}
    BY <1>2 DEF Stamps, Queue
  <2>2. \A d \in Device : Elements(handed[d]) \subseteq accepted
    BY DEF OrderInv
  <2>3. \A p \in follows' : p[1] < p[2] /\ p[1] \in accepted' /\ p[2] \in accepted'
    BY <1>0, <1>2 DEF OrderInv
  <2>4. \A d \in Device : \A y \in Elements(handed[d]) : y # r.at /\ <<r.at, y>> \notin follows
    BY <1>0, <2>2 DEF OrderInv
  <2>5. \A d \in Device : \A x \in Stamps(Queue(d))', y \in Elements(handed[d]) :
          <<x, y>> \notin follows'
    BY <1>2, <2>1, <2>4 DEF OrderInv
  <2>6. \A d \in Device : \A i, j \in DOMAIN handed[d] :
          <<handed[d][i], handed[d][j]>> \in follows' => i < j
    <3>1. \A d \in Device : \A j \in DOMAIN handed[d] : handed[d][j] # r.at
      BY <2>4 DEF Elements
    <3> QED
      BY <1>2, <3>1 DEF OrderInv, HandedInOrder
  <2> QED
    BY <1>0, <1>2, <2>2, <2>3, <2>5, <2>6 DEF OrderInv, HandedInOrder
<1> QED
  BY <1>1, <1>2 DEF SendCommit

LEMMA OrderNext ==
  ASSUME TypeInv, StampInv, PlaceInv, OrderInv, [Next]_vars
  PROVE  OrderInv'
<1>1. ASSUME UNCHANGED <<accepted, follows, handed>>, messages' \subseteq messages
      PROVE  OrderInv'
  <2>1. \A d \in Device : Stamps(Queue(d))' \subseteq Stamps(Queue(d))
    BY <1>1 DEF Stamps, Queue
  <2> QED
    BY <1>1, <2>1 DEF OrderInv, HandedInOrder
<1>2. CASE UNCHANGED vars \/ ExpireCode
  BY <1>1, <1>2 DEF vars, ExpireCode, tables, history
<1>3. ASSUME NEW w \in Worker, Arrival(w) PROVE OrderInv'
  BY <1>1, <1>3, ArrivalFrame DEF tables, history
<1>4. ASSUME NEW w \in Worker, Handle(w) \/ Locking(w) \/ Abort(w) PROVE OrderInv'
  <2>1. CASE SendStamp(w) \/ FetchReply(w) \/ UnlinkRemove(w)
    BY <1>1, <2>1 DEF SendStamp, FetchReply, UnlinkRemove, MessagesWithout, tables, history
  <2>2. CASE SendCommit(w)
    BY <2>2, OrderCommit
  <2>3. CASE FetchDelete(w)
    BY <2>3, OrderFetch
  <2> QED
    BY <1>1, <1>4, <2>1, <2>2, <2>3, MessageFrame
<1> QED
  BY <1>2, <1>3, <1>4 DEF Next

(* OldestFirst: what was committed before another message began to be sent to   *)
(* the same device leaves the table before it (HandedInOrder), however sends,   *)
(* fetches and unlinks overlap.                                                 *)
THEOREM OldestFirst == Spec => []HandedInOrder
<1>1. Init => OrderInv
  <2> SUFFICES ASSUME Init PROVE OrderInv
    OBVIOUS
  <2>1. \A d \in Device : handed[d] = <<>> /\ DOMAIN handed[d] = {}
    BY DEF Init
  <2> QED
    BY <2>1 DEF Init, OrderInv, HandedInOrder, Elements
<1>2. OrderInv => HandedInOrder
  BY DEF OrderInv
<1> QED
  BY <1>1, <1>2, InitType, InitMailbox, NextType, StampNext, PlaceNext, OrderNext, PTL DEF Spec

=============================================================================
