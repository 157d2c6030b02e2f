----------------------------- MODULE AppProofs ------------------------------
(* Proofs about App. *)
EXTENDS App, FiniteSetTheorems, TLAPS

-----------------------------------------------------------------------------
(* What the helpers do to the activations and the flags *)

LEMMA BeginEffect ==
  ASSUME task \in [Task -> Activation],
         NEW t \in Task, NEW op \in EnterOps \cup WorkOps \cup {"tick"}, NEW p \in Place,
         NEW s \in {"account", "request", "save", "load", "store", "poll", "work"},
         Begin(t, op, p, s)
  PROVE  /\ task' \in [Task -> Activation]
         /\ task[t] = Idle
         /\ task'[t] = [op |-> op, place |-> p, step |-> s]
         /\ \A u \in Task : u # t => task'[u] = task[u]
         /\ busy' = busy \cup Flag(op)
         /\ overlapped' = (overlapped \/ (op \in EnterOps /\ \E u \in Task : Entering(u)))
  BY DEF Begin, Activation

LEMMA GotoEffect ==
  ASSUME task \in [Task -> Activation],
         NEW t \in Task, NEW p \in Place, NEW s \in {"save", "load", "store", "poll"},
         Goto(t, p, s)
  PROVE  /\ task' \in [Task -> Activation]
         /\ task'[t] = [op |-> task[t].op, place |-> p, step |-> s]
         /\ \A u \in Task : u # t => task'[u] = task[u]
  BY DEF Goto, Activation

LEMMA EndEffect ==
  ASSUME task \in [Task -> Activation], NEW t \in Task, End(t)
  PROVE  /\ task' \in [Task -> Activation]
         /\ task'[t] = Idle
         /\ \A u \in Task : u # t => task'[u] = task[u]
         /\ busy' = busy \ Flag(task[t].op)
  BY DEF End, Activation, Idle, Place, Home

(* A button that is offered: its screen, and its flag is not set *)
LEMMA OfferedFacts ==
  ASSUME TypeOK, NEW op \in Offered
  PROVE  /\ Flag(op) \cap busy = {}
         /\ op \in {"create", "link"} => screen = "anonymous"
         /\ op \in {"start", "openGroup"} => screen = Home
         /\ op \in WorkOps => screen \in Place
         /\ op \in {"create", "link", "start", "openGroup"} \cup WorkOps
  BY AppAssumption DEF TypeOK, Screen, Place, Home, Offered, On, CreateAccount, Groups,
     NewConversation, Conversation, GroupConversation, Unless, Flag, WorkOps

LEMMA FlagType == \A op : Flag(op) \subseteq {"creating", "starting", "sending"}
  BY DEF Flag

LEMMA MountedFacts ==
  ASSUME NEW S \in Mounting
  PROVE  /\ Mounted(S) \in [Task -> Activation]
         /\ \A t \in Task :
              \/ Mounted(S)[t] = Idle
              \/ t \in S /\ Mounted(S)[t] = [op |-> "mount", place |-> Home, step |-> "account"]
  BY DEF Mounted, Mounting, Activation, EnterOps, Place, Idle, Home, Task

-----------------------------------------------------------------------------
(* Each action, in terms of the activations *)

LEMMA CreateStep ==
  ASSUME TypeOK, NEW t \in Handler, Create(t)
  PROVE  /\ \E op \in {"create", "link"} :
              task'[t] = [op |-> op, place |-> Home, step |-> "request"]
         /\ task' \in [Task -> Activation] /\ task[t] = Idle
         /\ \A u \in Task : u # t => task'[u] = task[u]
         /\ screen = "anonymous" /\ "creating" \notin busy /\ busy' = busy \cup {"creating"}
         /\ overlapped' = (overlapped \/ \E u \in Task : Entering(u))
<1>1. PICK op \in Offered \cap {"create", "link"} : Begin(t, op, Home, "request")
  BY DEF Create
<1>2. Flag(op) = {"creating"} /\ op \in EnterOps /\ op \in Offered
  BY <1>1 DEF Flag, EnterOps
<1>3. screen = "anonymous" /\ "creating" \notin busy
  BY <1>1, <1>2, OfferedFacts
<1>4. t \in Task /\ Home \in Place /\ task \in [Task -> Activation]
  BY DEF Task, Place, TypeOK
<1> QED
  BY <1>1, <1>2, <1>3, <1>4, BeginEffect

LEMMA EnterStep ==
  ASSUME TypeOK, NEW t \in Handler, Start(t) \/ OpenGroup(t)
  PROVE  /\ \/ \E c \in Contact : task'[t] = [op |-> "start", place |-> c, step |-> "load"]
            \/ \E g \in Group : task'[t] = [op |-> "openGroup", place |-> g, step |-> "load"]
         /\ task' \in [Task -> Activation] /\ task[t] = Idle
         /\ \A u \in Task : u # t => task'[u] = task[u]
         /\ screen = Home
         /\ busy' = busy \cup Flag(task'[t].op) /\ busy \cap Flag(task'[t].op) = {}
         /\ overlapped' = (overlapped \/ \E u \in Task : Entering(u))
<1>1. CASE Start(t)
  <2>1. PICK c \in Contact : Begin(t, "start", c, "load")
    BY <1>1 DEF Start
  <2>2. screen = Home /\ Flag("start") \cap busy = {}
    BY <1>1, OfferedFacts DEF Start
  <2>3. t \in Task /\ c \in Place /\ task \in [Task -> Activation] /\ "start" \in EnterOps
    BY DEF Task, Place, TypeOK, EnterOps
  <2>4. /\ task'[t] = [op |-> "start", place |-> c, step |-> "load"]
        /\ task' \in [Task -> Activation] /\ task[t] = Idle
        /\ \A u \in Task : u # t => task'[u] = task[u]
        /\ busy' = busy \cup Flag("start")
        /\ overlapped' = (overlapped \/ \E u \in Task : Entering(u))
    BY <2>1, <2>3, BeginEffect
  <2> QED
    BY <2>2, <2>4
<1>2. CASE OpenGroup(t)
  <2>1. PICK g \in Group : Begin(t, "openGroup", g, "load")
    BY <1>2 DEF OpenGroup
  <2>2. screen = Home /\ Flag("openGroup") \cap busy = {}
    BY <1>2, OfferedFacts DEF OpenGroup
  <2>3. t \in Task /\ g \in Place /\ task \in [Task -> Activation] /\ "openGroup" \in EnterOps
    BY DEF Task, Place, TypeOK, EnterOps
  <2>4. /\ task'[t] = [op |-> "openGroup", place |-> g, step |-> "load"]
        /\ task' \in [Task -> Activation] /\ task[t] = Idle
        /\ \A u \in Task : u # t => task'[u] = task[u]
        /\ busy' = busy \cup Flag("openGroup")
        /\ overlapped' = (overlapped \/ \E u \in Task : Entering(u))
    BY <2>1, <2>3, BeginEffect
  <2> QED
    BY <2>2, <2>4
<1> QED
  BY <1>1, <1>2

LEMMA WorkStep ==
  ASSUME TypeOK, NEW t \in Handler, NEW op \in WorkOps, Work(t, op)
  PROVE  /\ task'[t] = [op |-> op, place |-> screen, step |-> "work"]
         /\ task' \in [Task -> Activation] /\ task[t] = Idle
         /\ \A u \in Task : u # t => task'[u] = task[u]
         /\ screen \in Place
         /\ busy' = busy \cup Flag(op) /\ busy \cap Flag(op) = {}
         /\ overlapped' = overlapped
<1>1. Begin(t, op, screen, "work") /\ op \in Offered
  BY DEF Work
<1>2. screen \in Place /\ busy \cap Flag(op) = {}
  BY <1>1, OfferedFacts
<1>3. t \in Task /\ task \in [Task -> Activation] /\ op \notin EnterOps
  BY DEF Task, TypeOK, EnterOps, WorkOps
<1>4. /\ task'[t] = [op |-> op, place |-> screen, step |-> "work"]
      /\ task' \in [Task -> Activation] /\ task[t] = Idle
      /\ \A u \in Task : u # t => task'[u] = task[u]
      /\ busy' = busy \cup Flag(op)
      /\ overlapped' = (overlapped \/ (op \in EnterOps /\ \E u \in Task : Entering(u)))
  BY <1>1, <1>2, <1>3, BeginEffect
<1>5. overlapped' = overlapped
  BY <1>3, <1>4 DEF TypeOK
<1> QED
  BY <1>2, <1>4, <1>5

LEMMA TickStep ==
  ASSUME TypeOK, NEW t \in Poller, Tick(t)
  PROVE  /\ \E i \in Timer :
              loop[i] # None /\ task'[t] = [op |-> "tick", place |-> loop[i].place, step |-> "poll"]
         /\ task' \in [Task -> Activation] /\ task[t] = Idle
         /\ \A u \in Task : u # t => task'[u] = task[u]
         /\ busy' = busy /\ overlapped' = overlapped
<1>1. PICK i \in Timer : loop[i] # None /\ Begin(t, "tick", loop[i].place, "poll")
  BY DEF Tick
<1>2. loop[i].place \in Place
  BY <1>1 DEF TypeOK, Loop
<1>3. t \in Task /\ task \in [Task -> Activation] /\ "tick" \notin EnterOps /\ Flag("tick") = {}
  BY DEF Task, TypeOK, EnterOps, Flag
<1>4. /\ task'[t] = [op |-> "tick", place |-> loop[i].place, step |-> "poll"]
      /\ task' \in [Task -> Activation] /\ task[t] = Idle
      /\ \A u \in Task : u # t => task'[u] = task[u]
      /\ busy' = busy \cup Flag("tick")
      /\ overlapped' = (overlapped \/ ("tick" \in EnterOps /\ \E u \in Task : Entering(u)))
  BY <1>1, <1>2, <1>3, BeginEffect
<1>5. overlapped' = overlapped
  BY <1>3, <1>4 DEF TypeOK
<1> QED
  BY <1>1, <1>3, <1>4, <1>5

(* An activation that goes on *)
LEMMA GoStep ==
  ASSUME TypeOK, NEW t \in Task,
         Register(t) \/ CompleteLink(t) \/ SaveAccount(t) \/ ShowHome(t) \/ PollHome(t)
           \/ ShowConversation(t) \/ ShowGroup(t)
  PROVE  /\ task' \in [Task -> Activation]
         /\ \A u \in Task : u # t => task'[u] = task[u]
         /\ task'[t].op = task[t].op
         /\ Register(t) \/ CompleteLink(t) => task'[t].place = Home /\ task'[t].step = "save"
         /\ SaveAccount(t) => task'[t].place = Home /\ task'[t].step = "load"
         /\ ShowHome(t) => task'[t].place = Home /\ task'[t].step = "store"
         /\ PollHome(t) => task'[t].place = Home /\ task'[t].step = "poll"
         /\ ShowConversation(t) \/ ShowGroup(t) =>
              task'[t].place = task[t].place /\ task'[t].step = "poll"
         /\ busy' = busy /\ overlapped' = overlapped
<1>1. task[t].place \in Place /\ Home \in Place /\ task \in [Task -> Activation]
  BY DEF TypeOK, Activation, Place
<1>2. ASSUME NEW p \in Place, NEW s \in {"save", "load", "store", "poll"}, Goto(t, p, s)
      PROVE  /\ task' \in [Task -> Activation]
             /\ task'[t].op = task[t].op /\ task'[t].place = p /\ task'[t].step = s
             /\ \A u \in Task : u # t => task'[u] = task[u]
  <2>1. /\ task' \in [Task -> Activation]
        /\ task'[t] = [op |-> task[t].op, place |-> p, step |-> s]
        /\ \A u \in Task : u # t => task'[u] = task[u]
    BY <1>1, <1>2, GotoEffect
  <2> QED
    BY <2>1
<1>3. /\ Register(t) \/ CompleteLink(t) => Goto(t, Home, "save")
      /\ SaveAccount(t) => Goto(t, Home, "load")
      /\ ShowHome(t) => Goto(t, Home, "store")
      /\ PollHome(t) => Goto(t, Home, "poll")
      /\ ShowConversation(t) \/ ShowGroup(t) => Goto(t, task[t].place, "poll")
      /\ busy' = busy /\ overlapped' = overlapped
  BY DEF Register, CompleteLink, Accepted, SaveAccount, ShowHome, PollHome, ShowConversation, ShowGroup
<1> QED
  BY <1>1, <1>2, <1>3

(* An activation that ends *)
LEMMA EndStep ==
  ASSUME TypeOK, NEW t \in Task,
         Worked(t) \/ Polled(t) \/ PolledConversation(t) \/ Fail(t)
  PROVE  /\ task' \in [Task -> Activation]
         /\ task'[t] = Idle /\ task[t] # Idle
         /\ \A u \in Task : u # t => task'[u] = task[u]
         /\ busy' = busy \ Flag(task[t].op) /\ overlapped' = overlapped
<1>1. End(t) /\ overlapped' = overlapped /\ task[t] # Idle
  BY DEF Worked, Polled, PolledConversation, Fail, Idle
<1> QED
  BY <1>1, EndEffect DEF TypeOK

LEMMA LoadAccountStep ==
  ASSUME TypeOK, NEW t \in Task, LoadAccount(t)
  PROVE  /\ task' \in [Task -> Activation]
         /\ \A u \in Task : u # t => task'[u] = task[u]
         /\ overlapped' = overlapped
         /\ \/ /\ account = 0 /\ screen' = "anonymous"
               /\ task'[t] = Idle /\ busy' = busy \ Flag(task[t].op)
            \/ /\ account # 0 /\ screen' = screen /\ busy' = busy
               /\ task'[t] = [op |-> task[t].op, place |-> FirstPlace, step |-> "load"]
<1>1. FirstPlace \in Place
  BY DEF FirstPlace, TypeOK, Place
<1> QED
  BY <1>1, GotoEffect, EndEffect DEF LoadAccount, TypeOK

LEMMA ReloadStep ==
  ASSUME Reload
  PROVE  /\ task' \in [Task -> Activation]
         /\ \A t \in Task :
              \/ task'[t] = Idle
              \/ task'[t] = [op |-> "mount", place |-> Home, step |-> "account"]
         /\ busy' = {} /\ screen' = "loading" /\ loop' = NoLoop
  BY MountedFacts DEF Reload

(* The interval that is set is the one that can be cleared *)
LEMMA IntervalStep ==
  ASSUME NEW p \in Place, NEW v \in Pace, NEW rest \in [Timer -> Loop \cup {None}],
         SetInterval(p, v, rest)
  PROVE  /\ timer' \in Timer
         /\ loop' \in [Timer -> Loop \cup {None}]
         /\ loop'[timer'] = [place |-> p, pace |-> v]
         /\ \A i \in Timer : i # timer' => loop'[i] = rest[i]
  BY DEF SetInterval, Free, Loop

LEMMA ClearedType ==
  ASSUME loop \in [Timer -> Loop \cup {None}]
  PROVE  /\ Cleared \in [Timer -> Loop \cup {None}]
         /\ \A i \in Timer : Cleared[i] = IF i = timer THEN None ELSE loop[i]
  BY DEF Cleared

-----------------------------------------------------------------------------
(* Types *)

LEMMA InitType == Init => TypeOK
<1> SUFFICES ASSUME Init PROVE TypeOK
  OBVIOUS
<1>1. PICK S \in Mounting : task = Mounted(S) /\ overlapped = (Cardinality(S) > 1)
  BY DEF Init
<1>2. task \in [Task -> Activation] /\ overlapped \in BOOLEAN
  BY <1>1, MountedFacts
<1>3. loop \in [Timer -> Loop \cup {None}]
  BY DEF Init, NoLoop
<1>4. 0 \in 0..MaxIdentities
  BY AppAssumption
<1> QED
  BY <1>2, <1>3, <1>4 DEF Init, TypeOK, Screen, Pace

LEMMA StepType == TypeOK /\ [Next]_vars => TypeOK'
<1> SUFFICES ASSUME TypeOK, [Next]_vars PROVE TypeOK'
  OBVIOUS
<1> USE DEF TypeOK
<1>1. ASSUME NEW t \in Handler, Create(t) PROVE TypeOK'
  <2>1. task' \in [Task -> Activation] /\ busy' = busy \cup {"creating"} /\ overlapped' \in BOOLEAN
    BY <1>1, CreateStep
  <2>2. made' \in 0..MaxIdentities
    BY <1>1, AppAssumption DEF Create
  <2> QED
    BY <1>1, <2>1, <2>2 DEF Create, polling
<1>2. ASSUME NEW t \in Handler, Start(t) \/ OpenGroup(t) PROVE TypeOK'
  <2>1. /\ task' \in [Task -> Activation] /\ busy' = busy \cup Flag(task'[t].op)
        /\ overlapped' \in BOOLEAN
    BY <1>2, EnterStep
  <2> QED
    BY <1>2, <2>1, FlagType DEF Start, OpenGroup, kept, polling
<1>3. ASSUME NEW t \in Handler, NEW op \in WorkOps, Work(t, op) PROVE TypeOK'
  <2>1. /\ task' \in [Task -> Activation] /\ busy' = busy \cup Flag(op)
        /\ overlapped' = overlapped
    BY <1>3, WorkStep
  <2> QED
    BY <1>3, <2>1, FlagType DEF Work, kept, polling
<1>4. ASSUME NEW t \in Poller, Tick(t) PROVE TypeOK'
  <2>1. task' \in [Task -> Activation] /\ busy' = busy /\ overlapped' = overlapped
    BY <1>4, TickStep
  <2> QED
    BY <1>4, <2>1 DEF Tick, kept, polling
<1>5. ASSUME NEW t \in Task, LoadAccount(t) PROVE TypeOK'
  <2>1. /\ task' \in [Task -> Activation] /\ busy' \subseteq {"creating", "starting", "sending"}
        /\ overlapped' = overlapped /\ screen' \in Screen
    BY <1>5, LoadAccountStep DEF Screen
  <2> QED
    BY <1>5, <2>1 DEF LoadAccount, kept, polling
<1>6. ASSUME NEW t \in Task,
             Register(t) \/ CompleteLink(t) \/ SaveAccount(t) \/ ShowHome(t) \/ PollHome(t)
               \/ ShowConversation(t) \/ ShowGroup(t)
      PROVE  TypeOK'
  <2>1. task' \in [Task -> Activation] /\ busy' = busy /\ overlapped' = overlapped
    BY <1>6, GoStep
  <2>2. screen' \in Screen /\ account' \in 0..MaxIdentities /\ made' \in 0..MaxIdentities
    BY <1>6 DEF Register, CompleteLink, Accepted, SaveAccount, ShowHome, PollHome, ShowConversation, ShowGroup, kept,
       Screen, Place
  <2>3. registered' \subseteq 0..MaxIdentities /\ active' \in Contact \cup {None}
    BY <1>6 DEF Register, CompleteLink, Accepted, SaveAccount, ShowHome, PollHome, ShowConversation, ShowGroup, kept
  <2>4. timer' \in Timer \cup {None} /\ pace' \in Pace /\ loop' \in [Timer -> Loop \cup {None}]
    BY <1>6, ClearedType DEF Register, CompleteLink, Accepted, SaveAccount, ShowHome, PollHome, ShowConversation,
       ShowGroup, ClearInterval, polling, Pace
  <2>5. ringing' = ringing /\ failed' = failed
    BY <1>6 DEF Register, CompleteLink, Accepted, SaveAccount, ShowHome, PollHome, ShowConversation, ShowGroup
  <2> QED
    BY <2>1, <2>2, <2>3, <2>4, <2>5
<1>7. ASSUME NEW t \in Task,
             Worked(t) \/ Polled(t) \/ PolledConversation(t) \/ Fail(t)
      PROVE  TypeOK'
  <2>1. /\ task' \in [Task -> Activation] /\ busy' \subseteq {"creating", "starting", "sending"}
        /\ overlapped' = overlapped
    BY <1>7, EndStep
  <2>2. task[t].place \in Place
    BY DEF Activation
  <2>3. screen' \in Screen /\ failed' \in BOOLEAN
    BY <1>7, <2>2 DEF Worked, Polled, PolledConversation, Fail, Refresh, Screen
  <2>4. timer' \in Timer \cup {None} /\ pace' \in Pace /\ loop' \in [Timer -> Loop \cup {None}]
    BY <1>7, <2>2, IntervalStep, ClearedType DEF Worked, Polled, PolledConversation, Fail,
       polling, Pace
  <2>5. UNCHANGED <<kept, ringing>>
    BY <1>7 DEF Worked, Polled, PolledConversation, Fail
  <2> QED
    BY <2>1, <2>3, <2>4, <2>5 DEF kept
<1>8. CASE Ring
  BY <1>8 DEF Ring, kept, polling
<1>9. CASE Reload
  <2>1. task' \in [Task -> Activation]
    BY <1>9, ReloadStep
  <2>2. overlapped' \in BOOLEAN
    BY <1>9 DEF Reload
  <2> QED
    BY <1>9, <2>1, <2>2 DEF Reload, kept, Screen, Pace, NoLoop
<1>10. CASE UNCHANGED vars
  BY <1>10 DEF vars, kept, polling
<1> QED
  BY <1>1, <1>2, <1>3, <1>4, <1>5, <1>6, <1>7, <1>8, <1>9, <1>10
     DEF Next, Act, GoesOn, Answered

(* TypeCorrect: every variable of a page keeps its type, for any number of    *)
(* contacts, groups and activations.                                          *)
THEOREM TypeCorrect == Spec => []TypeOK
<1> QED
  BY InitType, StepType, PTL DEF Spec

-----------------------------------------------------------------------------
(* Flags and the activations that hold them *)

Flags == {"creating", "starting", "sending"}

LEMMA NoFlag == Flag("none") = {} /\ Flag("tick") = {} /\ Flag("mount") = {}
  BY DEF Flag

LEMMA BeginKeepsFlags ==
  ASSUME NothingStuck, NEW t \in Task, task[t] = Idle,
         \A u \in Task : u # t => task'[u] = task[u],
         busy' = busy \cup Flag(task'[t].op), busy \cap Flag(task'[t].op) = {}
  PROVE  NothingStuck'
<1> SUFFICES ASSUME NEW f \in Flags
             PROVE  /\ f \in busy' <=> \E u \in Task : f \in Flag(task'[u].op)
                    /\ \A u, v \in Task :
                         f \in Flag(task'[u].op) /\ f \in Flag(task'[v].op) => u = v
  BY DEF NothingStuck, Holders, Flags
<1>1. /\ f \in busy <=> \E u \in Task : f \in Flag(task[u].op)
      /\ \A u, v \in Task : f \in Flag(task[u].op) /\ f \in Flag(task[v].op) => u = v
  BY DEF NothingStuck, Holders, Flags
<1>2. f \notin Flag(task[t].op)
  BY NoFlag DEF Idle
<1> QED
  BY <1>1, <1>2

LEMMA EndKeepsFlags ==
  ASSUME NothingStuck, NEW t \in Task, task'[t] = Idle,
         \A u \in Task : u # t => task'[u] = task[u],
         busy' = busy \ Flag(task[t].op)
  PROVE  NothingStuck'
<1> SUFFICES ASSUME NEW f \in Flags
             PROVE  /\ f \in busy' <=> \E u \in Task : f \in Flag(task'[u].op)
                    /\ \A u, v \in Task :
                         f \in Flag(task'[u].op) /\ f \in Flag(task'[v].op) => u = v
  BY DEF NothingStuck, Holders, Flags
<1>1. /\ f \in busy <=> \E u \in Task : f \in Flag(task[u].op)
      /\ \A u, v \in Task : f \in Flag(task[u].op) /\ f \in Flag(task[v].op) => u = v
  BY DEF NothingStuck, Holders, Flags
<1>2. f \notin Flag(task'[t].op)
  BY NoFlag DEF Idle
<1> QED
  BY <1>1, <1>2

LEMMA SameOpsKeepFlags ==
  ASSUME NothingStuck, busy' = busy, \A u \in Task : task'[u].op = task[u].op
  PROVE  NothingStuck'
  BY DEF NothingStuck, Holders

LEMMA StepFlags == TypeOK /\ NothingStuck /\ [Next]_vars => NothingStuck'
<1> SUFFICES ASSUME TypeOK, NothingStuck, [Next]_vars PROVE NothingStuck'
  OBVIOUS
<1>a. Handler \subseteq Task /\ Poller \subseteq Task
  BY DEF Task
<1>1. ASSUME NEW t \in Handler, Create(t) PROVE NothingStuck'
  <2>1. PICK op \in {"create", "link"} :
          task'[t] = [op |-> op, place |-> Home, step |-> "request"]
    BY <1>1, CreateStep
  <2>2. Flag(task'[t].op) = {"creating"}
    BY <2>1 DEF Flag
  <2>3. /\ task[t] = Idle /\ \A u \in Task : u # t => task'[u] = task[u]
        /\ "creating" \notin busy /\ busy' = busy \cup {"creating"}
    BY <1>1, CreateStep
  <2> QED
    BY <1>a, <2>2, <2>3, BeginKeepsFlags
<1>2. ASSUME NEW t \in Handler, Start(t) \/ OpenGroup(t) PROVE NothingStuck'
  <2>1. /\ task[t] = Idle /\ \A u \in Task : u # t => task'[u] = task[u]
        /\ busy' = busy \cup Flag(task'[t].op) /\ busy \cap Flag(task'[t].op) = {}
    BY <1>2, EnterStep
  <2> QED
    BY <1>a, <2>1, BeginKeepsFlags
<1>3. ASSUME NEW t \in Handler, NEW op \in WorkOps, Work(t, op) PROVE NothingStuck'
  <2>1. /\ task'[t] = [op |-> op, place |-> screen, step |-> "work"] /\ task[t] = Idle
        /\ \A u \in Task : u # t => task'[u] = task[u]
        /\ busy' = busy \cup Flag(op) /\ busy \cap Flag(op) = {}
    BY <1>3, WorkStep
  <2>2. task'[t].op = op
    BY <2>1
  <2>3. busy' = busy \cup Flag(task'[t].op) /\ busy \cap Flag(task'[t].op) = {}
    BY <2>1, <2>2
  <2> QED
    BY <1>a, <2>1, <2>3, BeginKeepsFlags
<1>4. ASSUME NEW t \in Poller, Tick(t) PROVE NothingStuck'
  <2>1. PICK p : task'[t] = [op |-> "tick", place |-> p, step |-> "poll"]
    BY <1>4, TickStep
  <2>2. task[t] = Idle /\ busy' = busy /\ \A u \in Task : u # t => task'[u] = task[u]
    BY <1>4, TickStep
  <2>3. busy' = busy \cup Flag(task'[t].op) /\ busy \cap Flag(task'[t].op) = {}
    BY <2>1, <2>2, NoFlag
  <2> QED
    BY <1>a, <2>2, <2>3, BeginKeepsFlags
<1>5. ASSUME NEW t \in Task, LoadAccount(t) PROVE NothingStuck'
  <2>1. CASE task'[t] = Idle /\ busy' = busy \ Flag(task[t].op)
    BY <1>5, <2>1, LoadAccountStep, EndKeepsFlags
  <2>2. CASE task'[t] = [op |-> task[t].op, place |-> FirstPlace, step |-> "load"] /\ busy' = busy
    <3>1. \A u \in Task : task'[u].op = task[u].op
      BY <1>5, <2>2, LoadAccountStep
    <3> QED
      BY <2>2, <3>1, SameOpsKeepFlags
  <2> QED
    BY <1>5, <2>1, <2>2, LoadAccountStep
<1>6. ASSUME NEW t \in Task,
             Register(t) \/ CompleteLink(t) \/ SaveAccount(t) \/ ShowHome(t) \/ PollHome(t)
               \/ ShowConversation(t) \/ ShowGroup(t)
      PROVE  NothingStuck'
  <2>1. busy' = busy /\ \A u \in Task : task'[u].op = task[u].op
    BY <1>6, GoStep
  <2> QED
    BY <2>1, SameOpsKeepFlags
<1>7. ASSUME NEW t \in Task,
             Worked(t) \/ Polled(t) \/ PolledConversation(t) \/ Fail(t)
      PROVE  NothingStuck'
  BY <1>7, EndStep, EndKeepsFlags
<1>8. CASE Ring
  BY <1>8, SameOpsKeepFlags DEF Ring
<1>9. CASE Reload
  <2>1. busy' = {} /\ \A t \in Task : Flag(task'[t].op) = {}
    BY <1>9, ReloadStep, NoFlag DEF Idle
  <2> QED
    BY <2>1 DEF NothingStuck, Holders
<1>10. CASE UNCHANGED vars
  BY <1>10, SameOpsKeepFlags DEF vars
<1> QED
  BY <1>1, <1>2, <1>3, <1>4, <1>5, <1>6, <1>7, <1>8, <1>9, <1>10
     DEF Next, Act, GoesOn, Answered

LEMMA InitFlags == Init => NothingStuck
<1> SUFFICES ASSUME Init PROVE NothingStuck
  OBVIOUS
<1>1. busy = {} /\ \A t \in Task : Flag(task[t].op) = {}
  BY MountedFacts, NoFlag DEF Init, Idle
<1> QED
  BY <1>1 DEF NothingStuck, Holders

(* ButtonsRecover: a button's flag is set exactly while the one activation    *)
(* that set it is in progress.                                                *)
THEOREM ButtonsRecover == Spec => []NothingStuck
<1> QED
  BY InitType, StepType, InitFlags, StepFlags, PTL DEF Spec

-----------------------------------------------------------------------------
(* The account of this device *)

Makes(t) == task[t].op \in {"create", "link"}

(* An identity is registered before it is saved, and saved before its screen *)
(* shows; the buttons that make one are offered only to who has none, or     *)
(* while the one who makes it holds their flag.                              *)
AccountInv ==
  /\ account # 0 => account \in registered
  /\ \A t \in Task :
       /\ task[t].step \in {"request", "save"} => Makes(t) /\ made # 0
       /\ task[t].step = "save" => made \in registered
       /\ Makes(t) => task[t].step \in {"request", "save", "load", "store", "poll"}
       /\ Makes(t) /\ task[t].step \in {"load", "store", "poll"} => account # 0
       /\ Makes(t) /\ task[t].step \in {"store", "poll"} => screen # "anonymous"
       /\ Makes(t) /\ account # 0 /\ ~failed => task[t].step \notin {"request", "save"}
  /\ account # 0 /\ ~failed /\ screen = "anonymous" =>
       \E t \in Task : Makes(t) /\ task[t].step = "load"

LEMMA ScreensDiffer ==
  /\ \A p \in Place : p # "anonymous"
  /\ Home # "anonymous"
  BY AppAssumption DEF Place, Home

LEMMA MakesFacts ==
  ASSUME NothingStuck
  PROVE  /\ \A t, u \in Task : Makes(t) /\ Makes(u) => t = u
         /\ "creating" \notin busy => \A t \in Task : ~Makes(t)
  BY DEF NothingStuck, Holders, Makes, Flag

(* An activation that makes no account ends, begins or goes on *)
LEMMA OthersKeepAccount ==
  ASSUME AccountInv, NEW t \in Task,
         \A u \in Task : u # t => task'[u] = task[u],
         ~Makes(t) /\ ~Makes(t)', task'[t].step \notin {"request", "save"},
         UNCHANGED <<account, made, registered>>,
         failed => failed',
         screen' = "anonymous" => account = 0 \/ screen = "anonymous"
  PROVE  AccountInv'
<1>1. \A u \in Task : Makes(u)' => u # t /\ Makes(u) /\ task'[u] = task[u]
  BY DEF Makes
<1>2. account # 0 /\ ~failed' /\ screen' = "anonymous" =>
        \E u \in Task : Makes(u)' /\ task'[u].step = "load"
  <2>1. SUFFICES ASSUME account # 0, ~failed', screen' = "anonymous"
                 PROVE  \E u \in Task : Makes(u)' /\ task'[u].step = "load"
    OBVIOUS
  <2>2. PICK u \in Task : Makes(u) /\ task[u].step = "load"
    BY <2>1 DEF AccountInv
  <2>3. u # t
    BY <2>2
  <2> QED
    BY <2>2, <2>3 DEF Makes
<1>3. \A u \in Task :
        /\ task'[u].step \in {"request", "save"} => Makes(u)' /\ made # 0
        /\ task'[u].step = "save" => made \in registered
  BY <1>1 DEF AccountInv, Makes
<1>4. \A u \in Task :
        /\ Makes(u)' => task'[u].step \in {"request", "save", "load", "store", "poll"}
        /\ Makes(u)' /\ task'[u].step \in {"load", "store", "poll"} => account # 0
        /\ Makes(u)' /\ task'[u].step \in {"store", "poll"} => screen' # "anonymous"
        /\ Makes(u)' /\ account # 0 /\ ~failed' => task'[u].step \notin {"request", "save"}
  BY <1>1 DEF AccountInv
<1>5. account # 0 => account \in registered
  BY DEF AccountInv
<1> QED
  BY <1>2, <1>3, <1>4, <1>5 DEF AccountInv

(* The activation that makes an account ends *)
LEMMA MakerEnds ==
  ASSUME AccountInv, NothingStuck, NEW t \in Task, Makes(t), task'[t] = Idle,
         \A u \in Task : u # t => task'[u] = task[u],
         UNCHANGED <<account, made, registered>>,
         failed' \/ (task[t].step = "poll" /\ failed' = failed /\ screen' # "anonymous")
  PROVE  AccountInv'
<1>1. \A u \in Task : ~Makes(u)'
  BY MakesFacts DEF Makes, Idle
<1>2. \A u \in Task : task'[u].step \notin {"request", "save"}
  BY MakesFacts DEF AccountInv, Idle
<1> QED
  BY <1>1, <1>2 DEF AccountInv

LEMMA StepAccount == TypeOK /\ NothingStuck /\ AccountInv /\ [Next]_vars => AccountInv'
<1> SUFFICES ASSUME TypeOK, NothingStuck, AccountInv, [Next]_vars PROVE AccountInv'
  OBVIOUS
<1>a. Handler \subseteq Task /\ Poller \subseteq Task
  BY DEF Task
<1>b. ~(Idle.op \in {"create", "link"}) /\ Idle.step \notin {"request", "save"}
  BY DEF Idle
<1>1. ASSUME NEW t \in Handler, Create(t) PROVE AccountInv'
  <2>1. PICK op \in {"create", "link"} :
          task'[t] = [op |-> op, place |-> Home, step |-> "request"]
    BY <1>1, CreateStep
  <2>2. /\ \A u \in Task : u # t => task'[u] = task[u]
        /\ screen = "anonymous" /\ \A u \in Task : ~Makes(u)
    BY <1>1, CreateStep, MakesFacts
  <2>3. UNCHANGED <<account, registered, screen, failed>> /\ made' # 0
    BY <1>1 DEF Create, TypeOK
  <2>4. account = 0 \/ failed
    BY <2>2 DEF AccountInv
  <2>5. \A u \in Task : Makes(u)' => u = t
    BY <2>2 DEF Makes
  <2>6. \A u \in Task : task'[u].step \in {"request", "save"} => u = t
    BY <2>2 DEF AccountInv
  <2>7. task'[t].step = "request" /\ Makes(t)'
    BY <2>1 DEF Makes
  <2>8. account # 0 => account \in registered
    BY DEF AccountInv
  <2> QED
    BY <1>a, <2>3, <2>4, <2>5, <2>6, <2>7, <2>8 DEF AccountInv
<1>2. ASSUME NEW t \in Handler, Start(t) \/ OpenGroup(t) PROVE AccountInv'
  <2>1. /\ task'[t].op \in {"start", "openGroup"} /\ task'[t].step = "load"
        /\ task[t] = Idle /\ \A u \in Task : u # t => task'[u] = task[u]
    <3>1. \/ \E c \in Contact : task'[t] = [op |-> "start", place |-> c, step |-> "load"]
          \/ \E g \in Group : task'[t] = [op |-> "openGroup", place |-> g, step |-> "load"]
      BY <1>2, EnterStep
    <3>2. task[t] = Idle /\ \A u \in Task : u # t => task'[u] = task[u]
      BY <1>2, EnterStep
    <3>3. task'[t].op \in {"start", "openGroup"} /\ task'[t].step = "load"
      <4>1. CASE \E c \in Contact : task'[t] = [op |-> "start", place |-> c, step |-> "load"]
        BY <4>1
      <4>2. CASE \E g \in Group : task'[t] = [op |-> "openGroup", place |-> g, step |-> "load"]
        BY <4>2
      <4> QED
        BY <3>1, <4>1, <4>2
    <3> QED
      BY <3>2, <3>3
  <2>2. UNCHANGED <<account, registered, made, screen, failed>>
    BY <1>2 DEF Start, OpenGroup, kept
  <2>3. ~Makes(t) /\ ~Makes(t)' /\ task'[t].step \notin {"request", "save"}
    BY <1>b, <2>1 DEF Makes
  <2> QED
    BY <1>a, <2>1, <2>2, <2>3, OthersKeepAccount
<1>3. ASSUME NEW t \in Handler, NEW op \in WorkOps, Work(t, op) PROVE AccountInv'
  <2>1. /\ task'[t].op \in WorkOps /\ task'[t].step = "work"
        /\ task[t] = Idle /\ \A u \in Task : u # t => task'[u] = task[u]
    <3>1. task'[t] = [op |-> op, place |-> screen, step |-> "work"]
      BY <1>3, WorkStep
    <3>2. task[t] = Idle /\ \A u \in Task : u # t => task'[u] = task[u]
      BY <1>3, WorkStep
    <3> QED
      BY <3>1, <3>2
  <2>2. UNCHANGED <<account, registered, made, screen, failed>>
    BY <1>3 DEF Work, kept
  <2>3. ~Makes(t) /\ ~Makes(t)' /\ task'[t].step \notin {"request", "save"}
    BY <1>b, <2>1 DEF Makes, WorkOps
  <2> QED
    BY <1>a, <2>1, <2>2, <2>3, OthersKeepAccount
<1>4. ASSUME NEW t \in Poller, Tick(t) PROVE AccountInv'
  <2>1. /\ task'[t].op = "tick" /\ task'[t].step = "poll"
        /\ task[t] = Idle /\ \A u \in Task : u # t => task'[u] = task[u]
    <3>1. \E i \in Timer :
            task'[t] = [op |-> "tick", place |-> loop[i].place, step |-> "poll"]
      BY <1>4, TickStep
    <3>2. task[t] = Idle /\ \A u \in Task : u # t => task'[u] = task[u]
      BY <1>4, TickStep
    <3> QED
      BY <3>1, <3>2
  <2>2. UNCHANGED <<account, registered, made, screen, failed>>
    BY <1>4 DEF Tick, kept
  <2>3. ~Makes(t) /\ ~Makes(t)' /\ task'[t].step \notin {"request", "save"}
    BY <1>b, <2>1 DEF Makes
  <2> QED
    BY <1>a, <2>1, <2>2, <2>3, OthersKeepAccount
<1>5. ASSUME NEW t \in Task, LoadAccount(t) PROVE AccountInv'
  <2>1. ~Makes(t) /\ task[t].step = "account"
    BY <1>5 DEF LoadAccount, AccountInv
  <2>2. /\ ~Makes(t)' /\ task'[t].step \notin {"request", "save"}
        /\ \A u \in Task : u # t => task'[u] = task[u]
        /\ screen' = "anonymous" => account = 0 \/ screen = "anonymous"
    <3>1. task'[t] = Idle \/ task'[t] = [op |-> task[t].op, place |-> FirstPlace, step |-> "load"]
      BY <1>5, LoadAccountStep
    <3>2. /\ \A u \in Task : u # t => task'[u] = task[u]
          /\ screen' = "anonymous" => account = 0 \/ screen = "anonymous"
      BY <1>5, LoadAccountStep
    <3>3. task'[t].op \in {task[t].op, "none"} /\ task'[t].step \in {"load", "none"}
      BY <3>1 DEF Idle
    <3> QED
      BY <2>1, <3>2, <3>3 DEF Makes
  <2>3. UNCHANGED <<account, registered, made, failed>>
    BY <1>5 DEF LoadAccount, kept
  <2> QED
    BY <2>1, <2>2, <2>3, OthersKeepAccount
<1>6. ASSUME NEW t \in Task, Register(t) \/ CompleteLink(t) PROVE AccountInv'
  <2>1. /\ task'[t].op = task[t].op /\ task'[t].step = "save" /\ task[t].step = "request"
        /\ \A u \in Task : u # t => task'[u] = task[u]
    BY <1>6, GoStep DEF Register, CompleteLink, Accepted
  <2>2. /\ registered' = registered \cup {made} /\ UNCHANGED <<account, made, screen, failed>>
    BY <1>6 DEF Register, CompleteLink, Accepted
  <2>3. \A u \in Task : Makes(u)' <=> Makes(u)
    BY <2>1 DEF Makes
  <2>4. \A u \in Task : Makes(u) => u = t
    BY <2>1, MakesFacts DEF AccountInv
  <2> QED
    BY <2>1, <2>2, <2>3, <2>4 DEF AccountInv
<1>7. ASSUME NEW t \in Task, SaveAccount(t) PROVE AccountInv'
  <2>1. /\ task'[t].op = task[t].op /\ task'[t].step = "load" /\ task[t].step = "save"
        /\ \A u \in Task : u # t => task'[u] = task[u]
    BY <1>7, GoStep DEF SaveAccount
  <2>2. /\ account' = made /\ UNCHANGED <<registered, made, screen, failed>>
    BY <1>7 DEF SaveAccount
  <2>3. \A u \in Task : Makes(u)' <=> Makes(u)
    BY <2>1 DEF Makes
  <2>4. Makes(t) /\ made # 0 /\ made \in registered /\ \A u \in Task : Makes(u) => u = t
    BY <2>1, MakesFacts DEF AccountInv
  <2> QED
    BY <2>1, <2>2, <2>3, <2>4 DEF AccountInv
<1>8. ASSUME NEW t \in Task,
             ShowHome(t) \/ PollHome(t) \/ ShowConversation(t) \/ ShowGroup(t)
      PROVE  AccountInv'
  <2>1. /\ task'[t].op = task[t].op /\ task'[t].step \in {"store", "poll"}
        /\ \A u \in Task : u # t => task'[u] = task[u]
    BY <1>8, GoStep
  <2>2. UNCHANGED <<account, registered, made, failed>>
    BY <1>8 DEF ShowHome, PollHome, ShowConversation, ShowGroup, kept
  <2>3. \/ screen' # "anonymous" /\ task[t].step = "load"
        \/ screen' = screen /\ task[t].step = "store"
    BY <1>8, ScreensDiffer DEF ShowHome, PollHome, ShowConversation, ShowGroup, Place
  <2>4. \A u \in Task : Makes(u)' <=> Makes(u)
    BY <2>1 DEF Makes
  <2>5. CASE Makes(t)
    BY <2>1, <2>2, <2>3, <2>4, <2>5, MakesFacts DEF AccountInv
  <2>6. CASE ~Makes(t)
    BY <2>1, <2>2, <2>3, <2>4, <2>6, OthersKeepAccount
  <2> QED
    BY <2>5, <2>6
<1>9. ASSUME NEW t \in Task,
             Worked(t) \/ Polled(t) \/ PolledConversation(t) \/ Fail(t)
      PROVE  AccountInv'
  <2>1. task'[t] = Idle /\ \A u \in Task : u # t => task'[u] = task[u]
    BY <1>9, EndStep
  <2>2. UNCHANGED <<account, registered, made>> /\ (failed => failed')
    BY <1>9 DEF Worked, Polled, PolledConversation, Fail, kept, TypeOK
  <2>3. screen' = "anonymous" => screen = "anonymous"
    BY <1>9, ScreensDiffer DEF Worked, Polled, PolledConversation, Fail, Refresh, Place
  <2>4. CASE ~Makes(t)
    <3>1. ~Makes(t)' /\ task'[t].step \notin {"request", "save"}
      BY <1>b, <2>1 DEF Makes
    <3> QED
      BY <2>1, <2>2, <2>3, <2>4, <3>1, OthersKeepAccount
  <2>5. CASE Makes(t)
    <3>1. CASE Fail(t)
      <4>1. failed'
        BY <2>5, <3>1 DEF Fail, Makes, Entering, EnterOps
      <4> QED
        BY <2>1, <2>2, <2>5, <4>1, MakerEnds
    <3>2. CASE Polled(t) \/ PolledConversation(t)
      <4>1. task[t].step = "poll" /\ failed' = failed
        BY <3>2 DEF Polled, PolledConversation
      <4>2. screen' # "anonymous"
        BY <2>3, <2>5, <4>1 DEF AccountInv
      <4> QED
        BY <2>1, <2>2, <2>5, <4>1, <4>2, MakerEnds
    <3>3. CASE Worked(t)
      BY <2>5, <3>3 DEF Worked, AccountInv
    <3> QED
      BY <1>9, <3>1, <3>2, <3>3
  <2> QED
    BY <2>4, <2>5
<1>10. CASE Ring
  BY <1>10 DEF Ring, kept, AccountInv, Makes
<1>11. CASE Reload
  <2>1. \A t \in Task : ~Makes(t)' /\ task'[t].step \notin {"request", "save"}
    BY <1>11, <1>b, ReloadStep DEF Makes
  <2>2. screen' = "loading" /\ UNCHANGED <<account, registered>>
    BY <1>11 DEF Reload, kept
  <2> QED
    BY <2>1, <2>2 DEF AccountInv
<1>12. CASE UNCHANGED vars
  BY <1>12 DEF vars, kept, AccountInv, Makes
<1> QED
  BY <1>1, <1>2, <1>3, <1>4, <1>5, <1>6, <1>7, <1>8, <1>9, <1>10, <1>11, <1>12
     DEF Next, Act, GoesOn, Answered

LEMMA InitAccount == Init => AccountInv
<1> SUFFICES ASSUME Init PROVE AccountInv
  OBVIOUS
<1>1. \A t \in Task : ~Makes(t) /\ task[t].step \notin {"request", "save"}
  BY MountedFacts DEF Init, Idle, Makes
<1> QED
  BY <1>1 DEF Init, AccountInv

(* Registered: the account of this device is one that the server knows,       *)
(* wherever registering or linking stopped.                                   *)
THEOREM Registered == Spec => []AccountIsRegistered
<1>1. AccountInv => AccountIsRegistered
  BY DEF AccountInv, AccountIsRegistered
<1> QED
  BY <1>1, InitType, StepType, InitFlags, StepFlags, InitAccount, StepAccount, PTL DEF Spec

(* AccountStays: the account of this device is never replaced by another one, unless  *)
(* entering the first screen failed.                                          *)
THEOREM AccountStays == Spec => AccountKept
<1>1. AccountInv /\ [Next]_vars => [(account # 0 /\ account' # account) => failed]_vars
  <2> SUFFICES ASSUME AccountInv, Next, account # 0, account' # account PROVE failed
    OBVIOUS
  <2>1. PICK t \in Task : SaveAccount(t)
    BY DEF Next, Act, Create, Start, OpenGroup, Work, Tick, GoesOn, LoadAccount, Register,
       CompleteLink, Accepted, Worked, ShowHome, PollHome, ShowConversation, ShowGroup,
       Answered, Polled, PolledConversation, Fail, Ring, Reload, kept, Task
  <2> QED
    BY <2>1 DEF SaveAccount, AccountInv
<1> QED
  BY <1>1, InitType, StepType, InitFlags, StepFlags, InitAccount, StepAccount, PTL
     DEF Spec, AccountKept

-----------------------------------------------------------------------------
(* The interval of the page *)

(* An activation that enters a screen, step by step: no conversation and no     *)
(* group shows before it does, and there is no interval while it first polls.   *)
(* Any other is about the screen on show, if it is about a contact or a group.  *)
Fits(t) ==
  /\ Entering(t) =>
       \/ task[t].step = "account" /\ screen = "loading"
       \/ task[t].step \in {"request", "save"} /\ task[t].place = Home /\ screen = "anonymous"
       \/ /\ task[t].step = "load" /\ screen \notin Contact \cup Group
          /\ task[t].place = Home => screen # Home
       \/ task[t].step = "store" /\ screen = Home
       \/ task[t].step = "poll" /\ screen = task[t].place /\ \A i \in Timer : loop[i] = None
  /\ ~Entering(t) =>
       /\ task[t].step \in {"poll", "work", "none"}
       /\ task[t].place \in Contact \cup Group =>
            /\ screen = task[t].place
            /\ task[t].step = "poll" => \A u \in Task : ~Entering(u)

LoopInv ==
  ~overlapped =>
    /\ \A t, u \in Task : Entering(t) /\ Entering(u) => t = u
    /\ OneLoop
    /\ \A t \in Task : Fits(t)

LEMMA IdleFits ==
  ASSUME NEW t \in Task, task'[t] = Idle
  PROVE  Fits(t)' /\ ~Entering(t)'
  BY AppAssumption DEF Fits, Entering, Idle, EnterOps, Home

(* A step that leaves the screen and the interval alone *)
LEMMA QuietKeepsLoop ==
  ASSUME LoopInv, NEW t \in Task,
         \A u \in Task : u # t => task'[u] = task[u],
         UNCHANGED <<screen, timer, loop, overlapped>>,
         Entering(t)' => Entering(t),
         ~overlapped => Fits(t)'
  PROVE  LoopInv'
<1> SUFFICES ASSUME ~overlapped
             PROVE  /\ \A u, v \in Task : Entering(u)' /\ Entering(v)' => u = v
                    /\ OneLoop'
                    /\ \A u \in Task : Fits(u)'
  BY DEF LoopInv
<1>1. \A u \in Task : Entering(u)' => Entering(u)
  BY DEF Entering
<1>2. OneLoop'
  BY DEF LoopInv, OneLoop
<1>3. ASSUME NEW u \in Task PROVE Fits(u)'
  <2>1. CASE u = t
    BY <2>1
  <2>2. CASE u # t
    <3>1. Fits(u) /\ task'[u] = task[u]
      BY <2>2 DEF LoopInv
    <3> QED
      BY <1>1, <3>1 DEF Fits, Entering
  <2> QED
    BY <2>1, <2>2
<1> QED
  BY <1>1, <1>2, <1>3 DEF LoopInv

(* A step of the only activation that may be entering a screen: either no       *)
(* conversation and no group was on show, or the screen stays.                  *)
LEMMA SoleKeepsLoop ==
  ASSUME LoopInv, NEW t \in Task,
         \A u \in Task : u # t => task'[u] = task[u],
         ~overlapped' => /\ ~overlapped
                         /\ \A u \in Task : u # t => ~Entering(u)
                         /\ Fits(t)' /\ OneLoop'
                         /\ \/ screen \notin Contact \cup Group
                            \/ screen' = screen /\ ~Entering(t)'
  PROVE  LoopInv'
<1> SUFFICES ASSUME ~overlapped'
             PROVE  /\ \A u, v \in Task : Entering(u)' /\ Entering(v)' => u = v
                    /\ OneLoop'
                    /\ \A u \in Task : Fits(u)'
  BY DEF LoopInv
<1>1. \A u \in Task : u # t => ~Entering(u)'
  BY DEF Entering
<1>2. ASSUME NEW u \in Task PROVE Fits(u)'
  <2>1. CASE u = t
    BY <2>1
  <2>2. CASE u # t
    <3>1. /\ task[u].step \in {"poll", "work", "none"}
          /\ task[u].place \in Contact \cup Group => screen = task[u].place
      BY <2>2 DEF LoopInv, Fits
    <3> QED
      BY <1>1, <2>2, <3>1 DEF Fits
  <2> QED
    BY <2>1, <2>2
<1> QED
  BY <1>1, <1>2

(* The interval is cleared: the page has none *)
LEMMA ClearedIsAll ==
  ASSUME TypeOK, OneLoop, ~overlapped
  PROVE  \A i \in Timer : Cleared[i] = None
  BY ClearedType DEF TypeOK, OneLoop

(* An interval is set when the page has none *)
LEMMA SetIsOne ==
  ASSUME NEW p \in Place, NEW v \in Pace, NEW rest \in [Timer -> Loop \cup {None}],
         SetInterval(p, v, rest), \A i \in Timer : rest[i] = None, screen' = p
  PROVE  OneLoop'
<1>1. /\ timer' \in Timer /\ loop'[timer'] = [place |-> p, pace |-> v]
      /\ \A i \in Timer : i # timer' => loop'[i] = rest[i]
  BY IntervalStep
<1> QED
  BY <1>1 DEF OneLoop

LEMMA NoneIsOne ==
  ASSUME \A i \in Timer : loop'[i] = None
  PROVE  OneLoop'
  BY DEF OneLoop

(* A screen that is none of the places has no interval *)
LEMMA OutsideNone ==
  ASSUME TypeOK, OneLoop, ~overlapped, screen \notin Place
  PROVE  \A i \in Timer : loop[i] = None
  BY DEF OneLoop, TypeOK, Loop

LEMMA PlacesDiffer ==
  /\ Home \notin Contact \cup Group /\ "loading" \notin Place /\ "anonymous" \notin Place
  /\ Contact \cap Group = {} /\ Place = {Home} \cup Contact \cup Group
  BY AppAssumption DEF Place, Home

(* A page that loads has at most one first effect, or else screens overlap *)
LEMMA MountedAlone ==
  ASSUME NEW S \in Mounting
  PROVE  /\ \A t \in Task :
              \/ Mounted(S)[t].op = "none" /\ Mounted(S)[t].step = "none"
              \/ Mounted(S)[t].op = "mount" /\ Mounted(S)[t].step = "account"
         /\ \A t \in Task : Mounted(S)[t].place = Home
         /\ ~(Cardinality(S) > 1) =>
              \A t, u \in Task :
                Mounted(S)[t].op \in EnterOps /\ Mounted(S)[u].op \in EnterOps => t = u
<1>1. \A t \in Task :
        \/ Mounted(S)[t] = Idle
        \/ t \in S /\ Mounted(S)[t] = [op |-> "mount", place |-> Home, step |-> "account"]
  BY MountedFacts
<1>2. IsFiniteSet(S) /\ Cardinality(S) \in Nat
  BY AppAssumption, FS_Subset, FS_CardinalityType DEF Mounting
<1>3. ASSUME ~(Cardinality(S) > 1) PROVE \A t, u \in S : t = u
  <2>1. Cardinality(S) = 0 \/ Cardinality(S) = 1
    BY <1>2, <1>3
  <2> QED
    BY <1>2, <2>1, FS_EmptySet, FS_Singleton
<1>4. Idle.op = "none" /\ Idle.step = "none" /\ Idle.place = Home /\ "none" \notin EnterOps
  BY DEF Idle, EnterOps
<1>5. \A t \in Task : Mounted(S)[t].op \in EnterOps => t \in S
  BY <1>1, <1>4
<1> QED
  BY <1>1, <1>3, <1>4, <1>5

LEMMA StepLoop == TypeOK /\ LoopInv /\ [Next]_vars => LoopInv'
<1> SUFFICES ASSUME TypeOK, LoopInv, [Next]_vars PROVE LoopInv'
  OBVIOUS
<1>a. Handler \subseteq Task /\ Poller \subseteq Task
  BY DEF Task
<1>b. \A t \in Task : ~overlapped => Fits(t)
  BY DEF LoopInv
<1>c. ~overlapped => OneLoop
  BY DEF LoopInv
<1>d. /\ \A t \in Task : task[t] \in Activation
      /\ \A i \in Timer : loop[i] # None => loop[i].place \in Place /\ loop[i].pace \in Pace
  BY DEF TypeOK, Loop
<1>1. ASSUME NEW t \in Handler, Create(t) PROVE LoopInv'
  <2>1. PICK op \in {"create", "link"} :
          task'[t] = [op |-> op, place |-> Home, step |-> "request"]
    BY <1>1, CreateStep
  <2>2. /\ \A u \in Task : u # t => task'[u] = task[u]
        /\ screen = "anonymous" /\ overlapped' = (overlapped \/ \E u \in Task : Entering(u))
    BY <1>1, CreateStep
  <2>3. UNCHANGED <<screen, timer, loop>>
    BY <1>1 DEF Create, polling
  <2>4. Entering(t)' /\ Fits(t)'
    BY <2>1, <2>2, <2>3 DEF Fits, Entering, EnterOps
  <2>5. OneLoop' \/ overlapped
    BY <1>c, <2>3 DEF OneLoop
  <2>6. overlapped' = overlapped \/ overlapped'
    BY <2>2 DEF TypeOK
  <2> QED
    BY <1>a, <2>2, <2>3, <2>4, <2>5, <2>6, PlacesDiffer, SoleKeepsLoop
<1>2. ASSUME NEW t \in Handler, Start(t) \/ OpenGroup(t) PROVE LoopInv'
  <2>1. PICK op \in {"start", "openGroup"}, p \in Contact \cup Group :
          task'[t] = [op |-> op, place |-> p, step |-> "load"]
    BY <1>2, EnterStep
  <2>2. /\ \A u \in Task : u # t => task'[u] = task[u]
        /\ screen = Home /\ overlapped' = (overlapped \/ \E u \in Task : Entering(u))
    BY <1>2, EnterStep
  <2>3. UNCHANGED <<screen, timer, loop>>
    BY <1>2 DEF Start, OpenGroup, polling
  <2>4. Entering(t)' /\ Fits(t)'
    BY <2>1, <2>2, <2>3, PlacesDiffer DEF Fits, Entering, EnterOps
  <2>5. OneLoop' \/ overlapped
    BY <1>c, <2>3 DEF OneLoop
  <2> QED
    BY <1>a, <2>2, <2>3, <2>4, <2>5, PlacesDiffer, SoleKeepsLoop
<1>3. ASSUME NEW t \in Handler, NEW op \in WorkOps, Work(t, op) PROVE LoopInv'
  <2>1. task'[t] = [op |-> op, place |-> screen, step |-> "work"]
    BY <1>3, WorkStep
  <2>2. /\ \A u \in Task : u # t => task'[u] = task[u]
        /\ UNCHANGED <<screen, timer, loop, overlapped>>
    BY <1>3, WorkStep DEF Work, polling
  <2>3. ~Entering(t)' /\ Fits(t)'
    BY <2>1, <2>2 DEF Fits, Entering, EnterOps, WorkOps
  <2> QED
    BY <1>a, <2>2, <2>3, QuietKeepsLoop
<1>4. ASSUME NEW t \in Poller, Tick(t) PROVE LoopInv'
  <2>1. PICK i \in Timer :
          loop[i] # None /\ task'[t] = [op |-> "tick", place |-> loop[i].place, step |-> "poll"]
    BY <1>4, TickStep
  <2>2. /\ \A u \in Task : u # t => task'[u] = task[u]
        /\ UNCHANGED <<screen, timer, loop, overlapped>>
    BY <1>4, TickStep DEF Tick, polling
  <2>3. ~Entering(t)'
    BY <2>1 DEF Entering, EnterOps
  <2>4. ASSUME ~overlapped PROVE Fits(t)'
    <3>1. loop[i].place = screen
      BY <1>c, <2>1, <2>4 DEF OneLoop
    <3>2. ASSUME NEW u \in Task, screen \in Contact \cup Group PROVE ~Entering(u)
      BY <1>b, <2>1, <2>4, <3>2, PlacesDiffer DEF Fits
    <3>3. \A u \in Task : Entering(u)' => Entering(u)
      BY <2>2, <2>3 DEF Entering
    <3> QED
      BY <2>1, <2>2, <2>3, <3>1, <3>2, <3>3 DEF Fits
  <2> QED
    BY <1>a, <2>2, <2>3, <2>4, QuietKeepsLoop
<1>5. ASSUME NEW t \in Task, LoadAccount(t) PROVE LoopInv'
  <2>1. /\ \A u \in Task : u # t => task'[u] = task[u]
        /\ UNCHANGED <<timer, loop, overlapped>> /\ task[t].step = "account"
    BY <1>5, LoadAccountStep DEF LoadAccount, polling
  <2>2. SUFFICES ASSUME ~overlapped
                 PROVE  /\ \A u \in Task : u # t => ~Entering(u)
                        /\ Fits(t)' /\ OneLoop'
                        /\ screen \notin Contact \cup Group
    BY <2>1, SoleKeepsLoop
  <2>3. Entering(t) /\ screen = "loading"
    BY <1>b, <2>1, <2>2 DEF Fits
  <2>4. \A i \in Timer : loop[i] = None
    BY <1>c, <2>2, <2>3, OutsideNone, PlacesDiffer
  <2>5. Fits(t)'
    <3>1. CASE task'[t] = Idle
      BY <3>1, IdleFits
    <3>2. CASE screen' = screen /\ task'[t] = [op |-> task[t].op, place |-> FirstPlace, step |-> "load"]
      BY <2>3, <3>2, PlacesDiffer DEF Fits, Entering
    <3> QED
      BY <1>5, <3>1, <3>2, LoadAccountStep
  <2>6. \A u \in Task : u # t => ~Entering(u)
    BY <2>2, <2>3 DEF LoopInv
  <2> QED
    BY <2>1, <2>3, <2>4, <2>5, <2>6, NoneIsOne, PlacesDiffer
<1>6. ASSUME NEW t \in Task, Register(t) \/ CompleteLink(t) \/ SaveAccount(t) PROVE LoopInv'
  <2>1. /\ \A u \in Task : u # t => task'[u] = task[u]
        /\ task'[t].op = task[t].op /\ task'[t].place = Home
        /\ Register(t) \/ CompleteLink(t) => task'[t].step = "save"
        /\ SaveAccount(t) => task'[t].step = "load"
    BY <1>6, GoStep
  <2>2. /\ UNCHANGED <<screen, timer, loop, overlapped>> /\ task[t].step \in {"request", "save"}
    BY <1>6 DEF Register, CompleteLink, Accepted, SaveAccount, polling
  <2>3. ASSUME ~overlapped PROVE Fits(t)'
    <3>1. Entering(t) /\ screen = "anonymous"
      BY <1>b, <2>2, <2>3 DEF Fits
    <3>2. Entering(t)' /\ task'[t].step \in {"save", "load"}
      BY <1>6, <2>1, <3>1 DEF Entering
    <3> QED
      BY <2>1, <2>2, <3>1, <3>2, PlacesDiffer DEF Fits
  <2> QED
    BY <2>1, <2>2, <2>3, QuietKeepsLoop DEF Entering
<1>7. ASSUME NEW t \in Task, ShowHome(t) \/ PollHome(t) \/ ShowConversation(t) \/ ShowGroup(t)
      PROVE  LoopInv'
  <2>1. /\ \A u \in Task : u # t => task'[u] = task[u]
        /\ task'[t].op = task[t].op /\ overlapped' = overlapped
        /\ ShowHome(t) => task'[t].place = Home /\ task'[t].step = "store"
        /\ PollHome(t) => task'[t].place = Home /\ task'[t].step = "poll"
        /\ ShowConversation(t) \/ ShowGroup(t) =>
             task'[t].place = task[t].place /\ task'[t].step = "poll"
    BY <1>7, GoStep
  <2>2. SUFFICES ASSUME ~overlapped
                 PROVE  /\ \A u \in Task : u # t => ~Entering(u)
                        /\ Fits(t)' /\ OneLoop'
                        /\ screen \notin Contact \cup Group
    BY <2>1, SoleKeepsLoop
  <2>3. task[t].step \in {"load", "store"}
    BY <1>7 DEF ShowHome, PollHome, ShowConversation, ShowGroup
  <2>4. Entering(t) /\ Entering(t)' /\ screen \notin Contact \cup Group
    BY <1>b, <2>1, <2>2, <2>3, PlacesDiffer DEF Fits, Entering
  <2>5. \A u \in Task : u # t => ~Entering(u)
    BY <2>2, <2>4 DEF LoopInv
  <2>6. \A i \in Timer : Cleared[i] = None
    BY <1>c, <2>2, ClearedIsAll
  <2>7. CASE ShowHome(t)
    <3>1. screen # Home /\ screen' = Home /\ loop' = loop
      BY <1>b, <2>2, <2>7 DEF Fits, ShowHome, polling
    <3>2. screen \notin Place
      BY <2>4, <3>1, PlacesDiffer
    <3>3. \A i \in Timer : loop'[i] = None
      BY <1>c, <2>2, <3>1, <3>2, OutsideNone
    <3>4. Fits(t)'
      BY <2>1, <2>4, <2>7, <3>1 DEF Fits
    <3> QED
      BY <2>4, <2>5, <3>3, <3>4, NoneIsOne
  <2>8. CASE PollHome(t) \/ ShowConversation(t) \/ ShowGroup(t)
    <3>1. loop' = Cleared
      BY <2>8 DEF PollHome, ShowConversation, ShowGroup, ClearInterval
    <3>2. screen' = task'[t].place /\ task'[t].step = "poll"
      <4>1. CASE PollHome(t)
        <5>1. screen = Home /\ screen' = screen
          BY <1>b, <2>2, <4>1 DEF Fits, PollHome
        <5> QED
          BY <2>1, <4>1, <5>1
      <4>2. CASE ShowConversation(t) \/ ShowGroup(t)
        BY <2>1, <4>2 DEF ShowConversation, ShowGroup
      <4> QED
        BY <2>8, <4>1, <4>2
    <3>3. \A i \in Timer : loop'[i] = None
      BY <2>6, <3>1
    <3>4. Fits(t)'
      BY <2>4, <3>2, <3>3 DEF Fits
    <3> QED
      BY <2>4, <2>5, <3>3, <3>4, NoneIsOne
  <2> QED
    BY <1>7, <2>7, <2>8
<1>8. ASSUME NEW t \in Task, Polled(t) PROVE LoopInv'
  <2>1. /\ \A u \in Task : u # t => task'[u] = task[u]
        /\ task'[t] = Idle /\ overlapped' = overlapped
    BY <1>8, EndStep
  <2>2. Fits(t)' /\ ~Entering(t)'
    BY <2>1, IdleFits
  <2>3. task[t].step = "poll" /\ Refresh(t)
    BY <1>8 DEF Polled
  <2>4. ASSUME ~overlapped PROVE screen' = screen
    BY <1>b, <2>3, <2>4 DEF Fits, Refresh
  <2>5. CASE ~Entering(t)
    <3>1. UNCHANGED <<timer, loop>>
      BY <1>8, <2>5 DEF Polled, polling
    <3>2. CASE overlapped
      BY <2>1, <3>2 DEF LoopInv
    <3>3. CASE ~overlapped
      BY <2>1, <2>2, <2>4, <3>1, <3>3, QuietKeepsLoop
    <3> QED
      BY <3>2, <3>3
  <2>6. CASE Entering(t)
    <3>1. SUFFICES ASSUME ~overlapped
                   PROVE  (\A u \in Task : u # t => ~Entering(u)) /\ OneLoop' /\ screen' = screen
      BY <2>1, <2>2, SoleKeepsLoop
    <3>2. \A u \in Task : u # t => ~Entering(u)
      BY <2>6, <3>1 DEF LoopInv
    <3>3. screen = task[t].place /\ \A i \in Timer : loop[i] = None
      BY <1>b, <2>3, <2>6, <3>1 DEF Fits
    <3>4. SetInterval(task[t].place, "normal", loop)
      BY <1>8, <2>6 DEF Polled
    <3>5. OneLoop'
      <4>1. task[t].place \in Place /\ "normal" \in Pace /\ loop \in [Timer -> Loop \cup {None}]
        BY <1>d DEF TypeOK, Activation, Pace
      <4> QED
        BY <2>4, <3>1, <3>3, <3>4, <4>1, SetIsOne
    <3> QED
      BY <2>4, <3>1, <3>2, <3>5
  <2> QED
    BY <2>5, <2>6
<1>9. ASSUME NEW t \in Task, PolledConversation(t) PROVE LoopInv'
  <2>1. /\ \A u \in Task : u # t => task'[u] = task[u]
        /\ task'[t] = Idle /\ overlapped' = overlapped /\ screen' = screen
    BY <1>9, EndStep DEF PolledConversation
  <2>2. Fits(t)' /\ ~Entering(t)'
    BY <2>1, IdleFits
  <2>3. task[t].step = "poll" /\ task[t].place \in Contact
    BY <1>9 DEF PolledConversation
  <2>4. SUFFICES ASSUME ~overlapped
                 PROVE  (\A u \in Task : u # t => ~Entering(u)) /\ OneLoop'
    BY <2>1, <2>2, SoleKeepsLoop
  <2>5. \A u \in Task : u # t => ~Entering(u)
    BY <1>b, <2>3, <2>4 DEF Fits, LoopInv
  <2>6. screen = task[t].place
    BY <1>b, <2>3, <2>4 DEF Fits
  <2>7. CASE UNCHANGED polling
    BY <1>c, <2>1, <2>4, <2>5, <2>7 DEF OneLoop, polling
  <2>8. ASSUME NEW v \in Pace, SetInterval(task[t].place, v, Cleared) PROVE OneLoop'
    <3>1. \A i \in Timer : Cleared[i] = None
      BY <1>c, <2>4, ClearedIsAll
    <3>2. task[t].place \in Place /\ Cleared \in [Timer -> Loop \cup {None}]
      BY <2>3, PlacesDiffer, ClearedType DEF TypeOK
    <3> QED
      BY <2>1, <2>6, <2>8, <3>1, <3>2, SetIsOne
  <2> QED
    BY <1>9, <2>5, <2>7, <2>8 DEF PolledConversation, Pace
<1>10. ASSUME NEW t \in Task, Worked(t) \/ Fail(t) PROVE LoopInv'
  <2>1. /\ \A u \in Task : u # t => task'[u] = task[u]
        /\ task'[t] = Idle /\ UNCHANGED <<timer, loop, overlapped>>
    BY <1>10, EndStep DEF Worked, Fail, polling
  <2>2. Fits(t)' /\ ~Entering(t)'
    BY <2>1, IdleFits
  <2>3. ASSUME ~overlapped PROVE screen' = screen
    BY <1>10, <1>b, <2>3 DEF Worked, Fail, Fits, Refresh
  <2>4. CASE overlapped
    BY <2>1, <2>4 DEF LoopInv
  <2>5. CASE ~overlapped
    BY <2>1, <2>2, <2>3, <2>5, QuietKeepsLoop
  <2> QED
    BY <2>4, <2>5
<1>11. CASE Ring \/ UNCHANGED vars
  <2>1. UNCHANGED <<task, screen, timer, loop, overlapped>>
    BY <1>11 DEF Ring, vars, polling
  <2> QED
    BY <2>1 DEF LoopInv, OneLoop, Fits, Entering
<1>12. CASE Reload
  <2>1. PICK S \in Mounting : task' = Mounted(S) /\ overlapped' = (Cardinality(S) > 1)
    BY <1>12 DEF Reload
  <2>2. screen' = "loading" /\ \A i \in Timer : loop'[i] = None
    BY <1>12 DEF Reload, NoLoop
  <2>3. /\ \A u \in Task : task'[u].place = Home /\ task'[u].step \in {"none", "account"}
        /\ \A u \in Task : Entering(u)' <=> task'[u].step = "account"
        /\ ~overlapped' => \A u, v \in Task : Entering(u)' /\ Entering(v)' => u = v
    BY <2>1, MountedAlone DEF Entering, EnterOps
  <2>4. \A u \in Task : Fits(u)'
    BY <2>2, <2>3, PlacesDiffer DEF Fits
  <2> QED
    BY <2>2, <2>3, <2>4 DEF LoopInv, OneLoop
<1> QED
  BY <1>1, <1>2, <1>3, <1>4, <1>5, <1>6, <1>7, <1>8, <1>9, <1>10, <1>11, <1>12
     DEF Next, Act, GoesOn, Answered

LEMMA InitLoop == Init => LoopInv
<1> SUFFICES ASSUME Init PROVE LoopInv
  OBVIOUS
<1>1. PICK S \in Mounting : task = Mounted(S) /\ overlapped = (Cardinality(S) > 1)
  BY DEF Init
<1>2. screen = "loading" /\ \A i \in Timer : loop[i] = None
  BY DEF Init, NoLoop
<1>3. /\ \A u \in Task : task[u].place = Home /\ task[u].step \in {"none", "account"}
      /\ \A u \in Task : Entering(u) <=> task[u].step = "account"
      /\ ~overlapped => \A u, v \in Task : Entering(u) /\ Entering(v) => u = v
  BY <1>1, MountedAlone DEF Entering, EnterOps
<1>4. \A u \in Task : Fits(u)
  BY <1>2, <1>3, PlacesDiffer DEF Fits
<1> QED
  BY <1>2, <1>3, <1>4 DEF LoopInv, OneLoop

(* OneInterval: while the user enters one screen at a time, the page has at     *)
(* most one interval, it can clear it, and it polls for the screen on show.     *)
THEOREM OneInterval == Spec => []OneLoop
<1>1. LoopInv => OneLoop
  BY DEF LoopInv, OneLoop
<1> QED
  BY <1>1, InitType, StepType, InitLoop, StepLoop, PTL DEF Spec

(* OnlyTheUserLeaves: then, too, no late poll and no late removal replaces a    *)
(* conversation or group on show.                                               *)
THEOREM OnlyTheUserLeaves == Spec => StaysOpen
<1>1. LoopInv /\ [Next]_vars =>
        [(screen \in Contact \cup Group /\ ~overlapped)
           => (screen' = screen \/ screen' = "loading")]_vars
  <2> SUFFICES ASSUME LoopInv, Next, screen \in Contact \cup Group, ~overlapped,
                      screen' # "loading"
               PROVE  screen' = screen
    OBVIOUS
  <2>1. \A t \in Task : Fits(t)
    BY DEF LoopInv
  <2>2. ASSUME NEW t \in Task, LoadAccount(t) PROVE screen' = screen
    BY <2>1, <2>2, PlacesDiffer DEF LoadAccount, Fits
  <2>3. ASSUME NEW t \in Task, ShowHome(t) \/ ShowConversation(t) \/ ShowGroup(t)
        PROVE  screen' = screen
    BY <2>1, <2>3, PlacesDiffer DEF ShowHome, ShowConversation, ShowGroup, Fits
  <2>4. ASSUME NEW t \in Task, Worked(t) \/ Polled(t) PROVE screen' = screen
    BY <2>1, <2>4 DEF Worked, Polled, Refresh, Fits
  <2>5. ~Reload
    BY DEF Reload
  <2> QED
    BY <2>2, <2>3, <2>4, <2>5
       DEF Next, Act, Create, Start, OpenGroup, Work, Tick, GoesOn, Register, CompleteLink,
           Accepted, SaveAccount, PollHome, Answered, PolledConversation, Fail, Ring
<1> QED
  BY <1>1, InitType, StepType, InitLoop, StepLoop, PTL DEF Spec, StaysOpen

=============================================================================
