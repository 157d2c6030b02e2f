-------------------------------- MODULE App ---------------------------------
(***************************************************************************)
(* One page of the web client (web/src/App.tsx): its screens, the handlers *)
(* the screens offer, and the interval that polls for the screen on show.  *)
(*                                                                         *)
(* An activation is one call of an async function that waits.  Activations *)
(* are interleaved at their awaits; what runs between two awaits is a step.*)
(***************************************************************************)
EXTENDS Naturals, FiniteSets

CONSTANTS
  Contact,        \* contacts whose account id the user types in
  Group,          \* groups this device knows
  Handler,        \* activations of the user's handlers, a bound
  Poller,         \* polls that the interval has in progress, a bound
  Timer,          \* handles of setInterval, a bound
  Mounts,         \* how often the first effect may run: StrictMode runs it twice
  MaxIdentities,  \* bound on the identities generated
  None

Home == "identity-ready"
Place == {Home} \cup Contact \cup Group
Screen == Place \cup {"loading", "anonymous"}

ASSUME AppAssumption ==
  /\ Contact \cap Group = {} /\ Handler \cap Poller = {}
  /\ IsFiniteSet(Handler)
  /\ None \notin Place \cup Timer
  /\ {Home, "loading", "anonymous"} \cap (Contact \cup Group) = {}
  /\ Mounts \subseteq Nat /\ MaxIdentities \in Nat

VARIABLES
  \* kept by the browser, and by the server
  account,     \* the identity saved, 0 without one
  active,      \* umbrachat:activeContactId
  registered,  \* the identities the server has a device for
  \* the page
  screen,      \* state.status, and whose conversation or which group it is
  busy,        \* which of creating, starting and sending are set
  ringing,     \* whether a call rings, see module Call
  timer,       \* pollTimer
  pace,        \* pollIntervalRef
  loop,        \* what each interval that nobody cleared polls for, and how often
  task,        \* the activations
  \* history
  made,        \* how many identities were generated
  overlapped,  \* a screen was entered while another one still was
  failed       \* an activation that enters a screen has failed

kept == <<account, active, registered, made>>
polling == <<timer, pace, loop>>
vars == <<kept, screen, busy, ringing, polling, task, overlapped, failed>>

Task == Handler \cup Poller
Pace == {"normal", "fast"}
Loop == [place : Place, pace : Pace]

EnterOps == {"mount", "create", "link", "start", "openGroup"}
WorkOps ==
  {"newGroup", "send", "sendFile", "openFile", "setTimer", "sendGroupText", "removeMember"}

Activation ==
  [op    : EnterOps \cup WorkOps \cup {"tick", "none"},
   place : Place,
   step  : {"account", "request", "save", "load", "store", "poll", "work", "none"}]

Idle == [op |-> "none", place |-> Home, step |-> "none"]

Entering(t) == task[t].op \in EnterOps

(* The effect of the first render, which a development build runs twice *)
Mounting == {S \in SUBSET Handler : Cardinality(S) \in Mounts}
Mounted(S) ==
  [t \in Task |-> IF t \in S THEN [op |-> "mount", place |-> Home, step |-> "account"] ELSE Idle]

NoLoop == [i \in Timer |-> None]

Init ==
  /\ account = 0 /\ active = None /\ registered = {} /\ made = 0
  /\ screen = "loading" /\ busy = {} /\ ringing = FALSE
  /\ timer = None /\ pace = "normal" /\ loop = NoLoop
  /\ \E S \in Mounting : task = Mounted(S) /\ overlapped = (Cardinality(S) > 1)
  /\ failed = FALSE

-----------------------------------------------------------------------------
(* What the screens offer.  A button is disabled while its flag is set. *)

Unless(flag, ops) == IF flag \in busy THEN {} ELSE ops

(* Mutant: the buttons stay enabled *)
CreateAccountEager == {"create", "link"}

CreateAccount == Unless("creating", {"create", "link"})
Groups == {"openGroup"} \cup Unless("creating", {"newGroup"})
NewConversation == Unless("starting", {"start"})
Conversation == {"openFile"} \cup Unless("sending", {"send", "sendFile", "setTimer"})
GroupConversation == {"removeMember"} \cup Unless("sending", {"sendGroupText"})

On(screens, ops) == IF screen \in screens THEN ops ELSE {}

Offered ==
  On({"anonymous"}, CreateAccount) \cup On({Home}, Groups \cup NewConversation)
    \cup On(Contact, Conversation) \cup On(Group, GroupConversation)

Flag(op) ==
  IF op \in {"create", "link", "newGroup"} THEN {"creating"}
  ELSE IF op = "start" THEN {"starting"}
  ELSE IF op \in {"send", "sendFile", "sendGroupText"} THEN {"sending"} ELSE {}

-----------------------------------------------------------------------------
(* Activations *)

Begin(t, op, p, s) ==
  /\ task[t] = Idle
  /\ task' = [task EXCEPT ![t] = [op |-> op, place |-> p, step |-> s]]
  /\ busy' = busy \cup Flag(op)
  /\ overlapped' = (overlapped \/ (op \in EnterOps /\ \E u \in Task : Entering(u)))

Goto(t, p, s) ==
  task' = [task EXCEPT ![t] = [op |-> task[t].op, place |-> p, step |-> s]]

(* Mutant: a handler without its finally *)
EndStuck(t) == task' = [task EXCEPT ![t] = Idle] /\ busy' = busy

End(t) ==
  /\ task' = [task EXCEPT ![t] = Idle]
  /\ busy' = busy \ Flag(task[t].op)

(* A read, a write or a request fails: the rest does not run *)
Fail(t) ==
  /\ task[t] # Idle
  /\ End(t)
  /\ failed' = (failed \/ Entering(t))
  /\ UNCHANGED <<kept, screen, ringing, polling, overlapped>>

(* A handler that leaves the screen alone, but for what it shows; the group *)
(* that removeMember returns replaces whichever group is on show.           *)
Work(t, op) ==
  /\ op \in Offered \cap WorkOps
  /\ Begin(t, op, screen, "work")
  /\ UNCHANGED <<kept, screen, ringing, polling, failed>>

(* Mutant: whatever the screen is now *)
RefreshBlindly(t) == screen' = task[t].place

Refresh(t) ==
  screen' = IF screen \in Group /\ task[t].place \in Group THEN task[t].place ELSE screen

Worked(t) ==
  /\ task[t].step = "work"
  /\ End(t)
  /\ \/ task[t].op = "removeMember" /\ Refresh(t)
     \/ task[t].op # "removeMember" /\ UNCHANGED screen
  /\ UNCHANGED <<kept, ringing, polling, overlapped, failed>>

-----------------------------------------------------------------------------
(* The first effect, and an account for this device *)

(* Mutant: the stored contact is not looked at *)
FirstPlaceBlind == active

FirstPlace == IF active = None THEN Home ELSE active

(* Mutant: the saved account is not found *)
LoadAccountLost(t) ==
  /\ task[t].step = "account"
  /\ screen' = "anonymous"
  /\ End(t)
  /\ UNCHANGED <<kept, ringing, polling, overlapped, failed>>

LoadAccount(t) ==
  /\ task[t].step = "account"
  /\ \/ /\ account = 0
        /\ screen' = "anonymous"
        /\ End(t)
     \/ /\ account # 0
        /\ Goto(t, FirstPlace, "load")
        /\ UNCHANGED <<screen, busy>>
  /\ UNCHANGED <<kept, ringing, polling, overlapped, failed>>

(* handleCreate and handleLinkDevice: an identity is generated and sent off *)
Create(t) ==
  /\ \E op \in Offered \cap {"create", "link"} : Begin(t, op, Home, "request")
  /\ made < MaxIdentities
  /\ made' = made + 1
  /\ UNCHANGED <<account, active, registered, screen, ringing, polling, failed>>

(* Mutant: the account is saved before the server has answered *)
RegisterLate(t) ==
  /\ task[t].op = "create" /\ task[t].step = "request"
  /\ account' = made
  /\ Goto(t, Home, "load")
  /\ UNCHANGED <<active, made, registered, screen, busy, ringing, polling, overlapped, failed>>

(* The server takes it as a new account's, or as a new device's of the account *)
(* whose code was typed in.  Its answer may get lost, see Fail.                *)
Accepted(t) ==
  /\ task[t].step = "request"
  /\ registered' = registered \cup {made}
  /\ Goto(t, Home, "save")
  /\ UNCHANGED <<account, active, made, screen, busy, ringing, polling, overlapped, failed>>

Register(t) == task[t].op = "create" /\ Accepted(t)
CompleteLink(t) == task[t].op = "link" /\ Accepted(t)

SaveAccount(t) ==
  /\ task[t].step = "save"
  /\ account' = made
  /\ Goto(t, Home, "load")
  /\ UNCHANGED <<active, registered, made, screen, busy, ringing, polling, overlapped, failed>>

-----------------------------------------------------------------------------
(* Entering a screen.  Its data is loaded; it shows; the interval of the     *)
(* screen before it is cleared; it polls once, and then at an interval.      *)

Start(t) ==
  /\ "start" \in Offered
  /\ \E c \in Contact : Begin(t, "start", c, "load")
  /\ UNCHANGED <<kept, screen, ringing, polling, failed>>

OpenGroup(t) ==
  /\ "openGroup" \in Offered
  /\ \E g \in Group : Begin(t, "openGroup", g, "load")
  /\ UNCHANGED <<kept, screen, ringing, polling, failed>>

Cleared == [i \in Timer |-> IF i = timer THEN None ELSE loop[i]]

(* Mutant: the old interval goes on *)
KeepInterval(p) ==
  timer' = None /\ loop' = loop /\ pace' = IF p \in Contact THEN pace ELSE "normal"

ClearInterval(p) ==
  /\ timer' = None
  /\ loop' = Cleared
  /\ pace' = IF p \in Contact THEN pace ELSE "normal"

(* enterIdentityReady shows before it opens its store *)
ShowHome(t) ==
  /\ task[t].step = "load" /\ task[t].place = Home
  /\ screen' = Home
  /\ Goto(t, Home, "store")
  /\ UNCHANGED <<kept, busy, ringing, polling, overlapped, failed>>

PollHome(t) ==
  /\ task[t].step = "store"
  /\ ClearInterval(Home)
  /\ Goto(t, Home, "poll")
  /\ UNCHANGED <<kept, screen, busy, ringing, overlapped, failed>>

ShowConversation(t) ==
  LET c == task[t].place
  IN /\ task[t].step = "load" /\ c \in Contact
     /\ screen' = c
     /\ active' = c
     /\ ClearInterval(c)
     /\ Goto(t, c, "poll")
     /\ UNCHANGED <<account, registered, made, busy, ringing, overlapped, failed>>

ShowGroup(t) ==
  LET g == task[t].place
  IN /\ task[t].step = "load" /\ g \in Group
     /\ screen' = g
     /\ ClearInterval(g)
     /\ Goto(t, g, "poll")
     /\ UNCHANGED <<kept, busy, ringing, overlapped, failed>>

-----------------------------------------------------------------------------
(* Polling *)

Free(rest) == {i \in Timer : rest[i] = None}

(* The handle is one that no interval has *)
SetInterval(p, v, rest) ==
  /\ Free(rest) # {}
  /\ timer' = CHOOSE i \in Free(rest) : TRUE
  /\ loop' = [rest EXCEPT ![timer'] = [place |-> p, pace |-> v]]

(* The interval does not wait for the poll before *)
Tick(t) ==
  /\ \E i \in Timer : loop[i] # None /\ Begin(t, "tick", loop[i].place, "poll")
  /\ UNCHANGED <<kept, screen, ringing, polling, failed>>

(* A poll for the identity or a group ends: the first one sets the interval *)
Polled(t) ==
  LET p == task[t].place
  IN /\ task[t].step = "poll" /\ p \notin Contact
     /\ Refresh(t)
     /\ End(t)
     /\ \/ Entering(t) /\ SetInterval(p, "normal", loop) /\ UNCHANGED pace
        \/ ~Entering(t) /\ UNCHANGED polling
     /\ UNCHANGED <<kept, ringing, overlapped, failed>>

(* Mutant: it has an interval, so that is enough *)
DesiredUnset(v) == timer = None

Desired(v) == v # pace \/ timer = None

(* Every poll of a conversation looks whether the interval has to change *)
PolledConversation(t) ==
  LET v == IF ringing THEN "fast" ELSE "normal"
  IN /\ task[t].step = "poll" /\ task[t].place \in Contact
     /\ End(t)
     /\ \/ Desired(v) /\ SetInterval(task[t].place, v, Cleared) /\ pace' = v
        \/ ~Desired(v) /\ UNCHANGED polling
     /\ UNCHANGED <<kept, screen, ringing, overlapped, failed>>

-----------------------------------------------------------------------------
(* A call starts or stops to ring *)
Ring ==
  /\ screen \in Contact
  /\ ringing' = ~ringing
  /\ UNCHANGED <<kept, screen, busy, polling, task, overlapped, failed>>

(* The page is closed or reloaded at any time *)
Reload ==
  /\ screen' = "loading" /\ busy' = {} /\ ringing' = FALSE
  /\ timer' = None /\ pace' = "normal" /\ loop' = NoLoop
  /\ \E S \in Mounting : task' = Mounted(S) /\ overlapped' = (Cardinality(S) > 1)
  /\ failed' = FALSE
  /\ UNCHANGED kept

Act(t) == Create(t) \/ Start(t) \/ OpenGroup(t) \/ \E op \in WorkOps : Work(t, op)

GoesOn(t) ==
  LoadAccount(t) \/ Register(t) \/ CompleteLink(t) \/ SaveAccount(t) \/ Worked(t)
    \/ ShowHome(t) \/ PollHome(t) \/ ShowConversation(t) \/ ShowGroup(t)

Answered(t) == Polled(t) \/ PolledConversation(t)

Next ==
  \/ \E t \in Handler : Act(t)
  \/ \E t \in Poller : Tick(t)
  \/ \E t \in Task : GoesOn(t) \/ Answered(t) \/ Fail(t)
  \/ Ring \/ Reload

Spec == Init /\ [][Next]_vars

(***************************************************************************)
(* Fairness: local reads and writes end, the interval fires, and a request *)
(* that is made again and again is answered at some time.  The user may do *)
(* nothing, and a call may ring for ever.                                  *)
(***************************************************************************)
Fair ==
  /\ \A t \in Task : WF_vars(GoesOn(t)) /\ SF_vars(Answered(t))
  /\ WF_vars(\E t \in Poller : Tick(t))

FairSpec == Spec /\ Fair

-----------------------------------------------------------------------------
(* Properties *)

(* TypeOK: every variable of the page holds values of its type. *)
TypeOK ==
  /\ account \in 0..MaxIdentities /\ made \in 0..MaxIdentities
  /\ active \in Contact \cup {None}
  /\ registered \subseteq 0..MaxIdentities
  /\ screen \in Screen
  /\ busy \subseteq {"creating", "starting", "sending"}
  /\ ringing \in BOOLEAN /\ overlapped \in BOOLEAN /\ failed \in BOOLEAN
  /\ timer \in Timer \cup {None}
  /\ pace \in Pace
  /\ loop \in [Timer -> Loop \cup {None}]
  /\ task \in [Task -> Activation]

(* NothingStuck: a flag is set exactly while one activation that set it is in *)
(* progress, so that no button stays disabled and none is clicked twice,      *)
(* whatever fails and whichever screen replaced the button's.                 *)
Holders(f) == {t \in Task : f \in Flag(task[t].op)}
NothingStuck ==
  \A f \in {"creating", "starting", "sending"} :
    /\ f \in busy <=> Holders(f) # {}
    /\ \A t, u \in Holders(f) : t = u

(* AccountIsRegistered: the account of this device is one the server knows,   *)
(* wherever registering or linking stopped (handleCreate, handleLinkDevice).  *)
AccountIsRegistered == account # 0 => account \in registered

(* OneLoop: unless a screen was entered while another one still was, the page *)
(* has at most one interval, it can still clear it, and it polls for the      *)
(* screen on show ("Only one is ever active").                                *)
OneLoop ==
  ~overlapped => \A i \in Timer : loop[i] # None => i = timer /\ loop[i].place = screen

(* NeverTwo: "there's never more than one running at once".  It holds only    *)
(* while no screen is entered during another's first poll, as OneLoop says.   *)
NeverTwo == \A i, j \in Timer : loop[i] # None /\ loop[j] # None => i = j

(* AccountKept: the account of this device is never replaced, unless entering *)
(* the first screen failed.                                                   *)
AccountKept == [][(account # 0 /\ account' # account) => failed]_vars

(* StaysOpen: unless screens were entered at once, only the user moves from a *)
(* conversation or group: no late poll and no late removal shows another.     *)
StaysOpen ==
  [][(screen \in Contact \cup Group /\ ~overlapped)
       => (screen' = screen \/ screen' = "loading")]_vars

(* Polls: a screen that stays on show gets its interval, and a conversation's *)
(* comes to run at the pace of its call ("Ringing needs faster signaling      *)
(* round trips"), unless entering a screen failed or screens overlapped.      *)
Excused(p) == screen # p \/ overlapped \/ failed
Polls ==
  /\ \A p \in Place : (screen = p) ~> (Excused(p) \/ \E i \in Timer : loop[i] # None)
  /\ \A c \in Contact, r \in BOOLEAN :
       (screen = c /\ ringing = r) ~>
         \/ Excused(c) \/ ringing # r
         \/ \E i \in Timer : loop[i] = [place |-> c, pace |-> IF r THEN "fast" ELSE "normal"]

=============================================================================
