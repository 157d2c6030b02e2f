------------------------------- MODULE Server -------------------------------
(***************************************************************************)
(* The UmbraChat server: the axum handlers of server/src and the Postgres  *)
(* tables they share.  Every handler runs as a task of its own and may be  *)
(* interleaved with the others between any two of its SQL statements; a    *)
(* statement (or a transaction that nobody can see before it commits) is   *)
(* one step.  A worker is one in-flight request.                           *)
(***************************************************************************)
EXTENDS Naturals, FiniteSets, Sequences

CONSTANTS
  Account,      \* uuids of accounts
  Device,       \* uuids of devices
  Code,         \* link codes
  KeyId,        \* key ids of one-time prekeys
  Worker,       \* requests that can be in flight at the same time
  Route,        \* the routes that clients call: a bound on what an instance explores
  MaxMessages,  \* bound on the messages ever sent
  None          \* absent value

ASSUME ServerAssumption ==
  /\ KeyId \subseteq Nat
  /\ Route \subseteq {"register", "init", "link", "unlink", "send", "fetch", "bundle"}
  /\ MaxMessages \in Nat
  /\ IsFiniteSet(Worker)
  /\ None \notin Account \cup Device \cup Code \cup KeyId

VARIABLES
  \* the tables
  accounts,   \* accounts
  owner,      \* devices: the account of each device, None if it has no row
  rows,       \* identity_keys, signed_prekeys, kyber_signed_prekeys
  prekeys,    \* prekeys: the one-time prekeys of each device
  links,      \* pending_device_links: the codes that have a row
  minted,     \* the account column of a code's row, kept once the row is gone
  messages,   \* messages
  \* the environment
  clock,      \* Postgres's now(), counted in the stamps it gave to messages
  expired,    \* the codes whose expires_at has passed
  req,        \* what each worker is doing
  inbox,      \* the messages each device's fetches returned to it
  \* history
  born,       \* the devices that ever had a row
  joined,     \* the code a device was linked with
  granted,    \* how often each one-time prekey was handed out
  accepted,   \* the messages ever committed
  follows,    \* pairs of messages, the first committed before the second was sent
  handed      \* the messages of each device, in the order they left the table

tables == <<accounts, owner, rows, prekeys, links, minted, messages>>
environment == <<clock, expired, inbox>>
history == <<born, joined, granted, accepted, follows, handed>>
vars == <<tables, environment, req, history>>

Row == {"identity", "signed", "kyber"}
PrekeyState == {"absent", "fresh", "used"}

Message == [at : Nat, from : Device, account : Account, to : Device]

Op == {"none", "register", "init", "link", "unlink", "send", "fetch", "bundle"}
Step ==
  {"idle", "auth", "create", "check", "issue", "consume", "join", "target", "remove",
   "sender", "insert", "commit", "delete", "reply",
   "identity", "signed", "kyber", "pick", "take"}

(***************************************************************************)
(* A request: the route, the statement it runs next, its parameters, what  *)
(* the handler keeps in local variables, and two marks taken on arrival.   *)
(***************************************************************************)
Request ==
  [op      : Op,
   step    : Step,
   caller  : Device \cup {None},
   target  : Device \cup {None},
   account : Account \cup {None},
   code    : Code \cup {None},
   keys    : SUBSET KeyId,
   key     : KeyId \cup {None},
   at      : Nat,
   batch   : Seq(Nat),
   late    : BOOLEAN,       \* complete_link: the code had expired when the transaction began
   stale   : BOOLEAN,       \* history: the caller was already unlinked on arrival
   after   : SUBSET Nat]    \* history: the messages committed before the request arrived

Idle ==
  [op |-> "none", step |-> "idle", caller |-> None, target |-> None, account |-> None,
   code |-> None, keys |-> {}, key |-> None, at |-> 0, batch |-> <<>>,
   late |-> FALSE, stale |-> FALSE, after |-> {}]

Init ==
  /\ accounts = {}
  /\ owner = [d \in Device |-> None]
  /\ rows = [d \in Device |-> {}]
  /\ prekeys = [d \in Device |-> [k \in KeyId |-> "absent"]]
  /\ links = {}
  /\ minted = [c \in Code |-> None]
  /\ messages = {}
  /\ clock = 0
  /\ expired = {}
  /\ req = [w \in Worker |-> Idle]
  /\ inbox = [d \in Device |-> <<>>]
  /\ born = {}
  /\ joined = [d \in Device |-> None]
  /\ granted = [d \in Device |-> [k \in KeyId |-> 0]]
  /\ accepted = {}
  /\ follows = {}
  /\ handed = [d \in Device |-> <<>>]

-----------------------------------------------------------------------------
(* Control of a request *)

Arrive(w, r) ==
  /\ r.op \in Route
  /\ req[w] = Idle
  /\ req' = [req EXCEPT ![w] = r]
  /\ UNCHANGED <<tables, environment, history>>

Goto(w, s) == req' = [req EXCEPT ![w].step = s]
Finish(w) == req' = [req EXCEPT ![w] = Idle]

(* A signed request of a device that holds its identity key, linked or not *)
Signed(o, d) ==
  [Idle EXCEPT !.op = o, !.step = "auth", !.caller = d, !.stale = (owner[d] = None)]

(* Mutant: a route without its own extractor *)
EntryUnknown(o) == "handler"

(* The step that follows authentication *)
Entry(o) ==
  CASE o = "init" -> "check"
    [] o = "unlink" -> "target"
    [] o = "send" -> "sender"
    [] o = "fetch" -> "delete"
    [] OTHER -> "identity"

(* Mutant: keys are remembered after their row is gone *)
RememberedKey(d) == d \in born

(* verify: SELECT public_key FROM identity_keys decides; an unlinked device has none *)
KnownKey(d) == "identity" \in rows[d]

Auth(w) ==
  /\ req[w].step = "auth"
  /\ \/ KnownKey(req[w].caller) /\ Goto(w, Entry(req[w].op))
     \/ ~KnownKey(req[w].caller) /\ Finish(w)
  /\ UNCHANGED <<tables, environment, history>>

(* The handler fails or is dropped: a database error, a client that hangs up, *)
(* a crash.  An open transaction is rolled back, an answer is lost.           *)
Abort(w) ==
  /\ req[w] # Idle
  /\ Finish(w)
  /\ UNCHANGED <<tables, environment, history>>

-----------------------------------------------------------------------------
(* Accounts, devices and link codes *)

(* The uuids that in-flight transactions will insert *)
Creating == {w \in Worker : req[w].op \in {"register", "link"}}
FreshDevice == Device \ (born \cup {req[w].target : w \in Creating})
FreshAccount == Account \ (accounts \cup {req[w].account : w \in Creating})
FreshCode ==
  {c \in Code : minted[c] = None /\ \A w \in Worker : req[w].op = "init" => req[w].code # c}

(* What register and complete_link commit for the device of request r *)
InsertDevice(r) ==
  /\ owner' = [owner EXCEPT ![r.target] = r.account]
  /\ rows' = [rows EXCEPT ![r.target] = Row]
  /\ prekeys' = [prekeys EXCEPT ![r.target] =
                   [k \in KeyId |-> IF k \in r.keys THEN "fresh" ELSE "absent"]]
  /\ born' = born \cup {r.target}

RegisterArrives(w) ==
  \E a \in FreshAccount, d \in FreshDevice, ks \in SUBSET KeyId :
    Arrive(w, [Idle EXCEPT !.op = "register", !.step = "create",
                           !.account = a, !.target = d, !.keys = ks])

RegisterCommit(w) ==
  /\ req[w].step = "create"
  /\ accounts' = accounts \cup {req[w].account}
  /\ InsertDevice(req[w])
  /\ Finish(w)
  /\ UNCHANGED <<links, minted, messages, environment, joined, granted, accepted, follows, handed>>

LinkInitArrives(w) ==
  \E d \in born, a \in accounts, c \in FreshCode :
    Arrive(w, [Signed("init", d) EXCEPT !.account = a, !.code = c])

(* require_same_account, called by link_init and by unlink_device *)
SameAccount(w) ==
  /\ req[w].step = "check"
  /\ \/ /\ owner[req[w].caller] = req[w].account
        /\ Goto(w, IF req[w].op = "init" THEN "issue" ELSE "remove")
     \/ /\ owner[req[w].caller] # req[w].account
        /\ Finish(w)
  /\ UNCHANGED <<tables, environment, history>>

LinkInitIssue(w) ==
  /\ req[w].step = "issue"
  /\ links' = links \cup {req[w].code}
  /\ minted' = [minted EXCEPT ![req[w].code] = req[w].account]
  /\ Finish(w)
  /\ UNCHANGED <<accounts, owner, rows, prekeys, messages, environment, history>>

ExpireCode ==
  /\ \E c \in Code \ expired : minted[c] # None /\ expired' = expired \cup {c}
  /\ UNCHANGED <<tables, clock, inbox, req, history>>

(* The request begins its transaction, whose now() is what expiry is tested against *)
CompleteLinkArrives(w) ==
  \E c \in Code, a \in accounts, d \in FreshDevice, ks \in SUBSET KeyId :
    /\ minted[c] # None
    /\ Arrive(w, [Idle EXCEPT !.op = "link", !.step = "consume", !.code = c, !.account = a,
                              !.target = d, !.keys = ks, !.late = (c \in expired)])

(* Mutant: the row is read without being locked *)
CodeNeverLocked(c) == FALSE

(* The row of code c is deleted by a transaction that has not committed *)
CodeLocked(c) == \E w \in Worker : req[w].step = "join" /\ req[w].code = c

(* Mutant: the DELETE is committed on its own, before the device is inserted *)
CodeSpentFirst(w) ==
  LET r == req[w]
      valid == r.code \in links /\ minted[r.code] = r.account /\ ~r.late
  IN /\ r.step = "consume"
     /\ \/ valid /\ Goto(w, "join") /\ links' = links \ {r.code}
        \/ ~valid /\ Finish(w) /\ UNCHANGED links
     /\ UNCHANGED <<accounts, owner, rows, prekeys, minted, messages, environment, history>>

(* DELETE ... RETURNING waits for a transaction that deleted the row, then re-reads it *)
CompleteLinkConsume(w) ==
  LET r == req[w]
      valid == r.code \in links /\ minted[r.code] = r.account /\ ~r.late
  IN /\ r.step = "consume"
     /\ ~CodeLocked(r.code)
     /\ \/ valid /\ Goto(w, "join")
        \/ ~valid /\ Finish(w)
     /\ UNCHANGED <<tables, environment, history>>

CompleteLinkCommit(w) ==
  /\ req[w].step = "join"
  /\ links' = links \ {req[w].code}
  /\ InsertDevice(req[w])
  /\ joined' = [joined EXCEPT ![req[w].target] = req[w].code]
  /\ Finish(w)
  /\ UNCHANGED <<accounts, minted, messages, environment, granted, accepted, follows, handed>>

UnlinkArrives(w) ==
  \E d, t \in born : Arrive(w, [Signed("unlink", d) EXCEPT !.target = t])

UnlinkTarget(w) ==
  LET t == req[w].target
  IN /\ req[w].step = "target"
     /\ \/ /\ owner[t] # None
           /\ req' = [req EXCEPT ![w].step = "check", ![w].account = owner[t]]
        \/ /\ owner[t] = None
           /\ Finish(w)
     /\ UNCHANGED <<tables, environment, history>>

(* Mutants: a SELECT without FOR UPDATE; a lock that its own unlink waits for *)
PrekeyNeverLocked(d, k) == FALSE
PrekeyLockedByAny(d, k) ==
  \E w \in Worker : req[w].step \in {"take", "remove"} /\ req[w].target = d

(* A one-time prekey locked by the UPDATE of another request *)
PrekeyLocked(d, k) ==
  \E w \in Worker : req[w].step = "take" /\ req[w].target = d /\ req[w].key = k

(* Mutant: no cascade on messages.sender_device_id *)
MessagesNotTo(t) == {m \in messages : m.to # t}

MessagesWithout(t) == {m \in messages : m.from # t /\ m.to # t}

(* DELETE FROM devices with its ON DELETE CASCADEs; it waits for locked prekeys *)
UnlinkRemove(w) ==
  LET t == req[w].target
  IN /\ req[w].step = "remove"
     /\ \A k \in KeyId : ~PrekeyLocked(t, k)
     /\ owner' = [owner EXCEPT ![t] = None]
     /\ rows' = [rows EXCEPT ![t] = {}]
     /\ prekeys' = [prekeys EXCEPT ![t] = [k \in KeyId |-> "absent"]]
     /\ messages' = MessagesWithout(t)
     /\ Finish(w)
     /\ UNCHANGED <<accounts, links, minted, environment, history>>

-----------------------------------------------------------------------------
(* Messages *)

(* The bound: stamps given and still to be given *)
Unstamped == {w \in Worker : req[w].op = "send" /\ req[w].at = 0}

SendArrives(w) ==
  \E d, t \in born :
    /\ clock + Cardinality(Unstamped) < MaxMessages
    /\ Arrive(w, [Signed("send", d) EXCEPT !.target = t, !.after = accepted])

SendAccount(w) ==
  LET a == owner[req[w].caller]
  IN /\ req[w].step = "sender"
     /\ \/ /\ a # None
           /\ req' = [req EXCEPT ![w].step = "insert", ![w].account = a]
        \/ /\ a = None
           /\ Finish(w)
     /\ UNCHANGED <<tables, environment, history>>

(* The INSERT begins: created_at DEFAULT now() *)
SendStamp(w) ==
  /\ req[w].step = "insert"
  /\ clock' = clock + 1
  /\ req' = [req EXCEPT ![w].step = "commit", ![w].at = clock + 1]
  /\ UNCHANGED <<tables, expired, inbox, history>>

(* ... and ends: the foreign keys on both devices are checked *)
SendCommit(w) ==
  LET r == req[w]
      linked == owner[r.caller] # None /\ owner[r.target] # None
  IN /\ r.step = "commit"
     /\ \/ /\ linked
           /\ messages' = messages \cup
                {[at |-> r.at, from |-> r.caller, account |-> r.account, to |-> r.target]}
           /\ accepted' = accepted \cup {r.at}
           /\ follows' = follows \cup (r.after \X {r.at})
        \/ /\ ~linked
           /\ UNCHANGED <<messages, accepted, follows>>
     /\ Finish(w)
     /\ UNCHANGED <<accounts, owner, rows, prekeys, links, minted, environment,
                    born, joined, granted, handed>>

FetchArrives(w) == \E d \in born : Arrive(w, Signed("fetch", d))

(* Mutant: a device does not fetch what it sent to itself *)
QueueFromOthers(d) == {m \in messages : m.to = d /\ m.from # d}

Queue(d) == {m \in messages : m.to = d}
Stamps(M) == {m.at : m \in M}

(* Mutants: RETURNING's own order; the oldest row only *)
AnyOrder(S) ==
  {s \in [1 .. Cardinality(S) -> S] : \A i, j \in DOMAIN s : i # j => s[i] # s[j]}
OldestOnly(S) == {s \in [{1} -> S] : \A x \in S : s[1] <= x}

(* The enumerations of S in increasing order: rows.sort_by_key(created_at) *)
Ascending(S) ==
  {s \in [1 .. Cardinality(S) -> S] : \A i, j \in DOMAIN s : i < j => s[i] < s[j]}

(* Mutant: a SELECT in place of the DELETE *)
LeftAll(d) == messages

Left(d) == messages \ Queue(d)

FetchDelete(w) ==
  LET d == req[w].caller
  IN /\ req[w].step = "delete"
     /\ messages' = Left(d)
     /\ \E s \in Ascending(Stamps(Queue(d))) :
          /\ req' = [req EXCEPT ![w].step = "reply", ![w].batch = s]
          /\ handed' = [handed EXCEPT ![d] = @ \o s]
     /\ UNCHANGED <<accounts, owner, rows, prekeys, links, minted, environment,
                    born, joined, granted, accepted, follows>>

(* The response reaches the client that asked; Abort stands for one that does not *)
FetchReply(w) ==
  /\ req[w].step = "reply"
  /\ inbox' = [inbox EXCEPT ![req[w].caller] = @ \o req[w].batch]
  /\ Finish(w)
  /\ UNCHANGED <<tables, clock, expired, history>>

-----------------------------------------------------------------------------
(* Prekey bundles *)

BundleArrives(w) ==
  \E d, t \in born : Arrive(w, [Signed("bundle", d) EXCEPT !.target = t])

(* The three SELECTs, each a 404 if its row is gone *)
BundleRead(w) ==
  LET row == req[w].step
      after == CASE row = "identity" -> "signed" [] row = "signed" -> "kyber" [] OTHER -> "pick"
  IN /\ row \in Row
     /\ \/ row \in rows[req[w].target] /\ Goto(w, after)
        \/ row \notin rows[req[w].target] /\ Finish(w)
     /\ UNCHANGED <<tables, environment, history>>

(* SELECT ... WHERE used = false ORDER BY key_id LIMIT 1 FOR UPDATE SKIP LOCKED *)
Available(d) == {k \in KeyId : prekeys[d][k] = "fresh" /\ ~PrekeyLocked(d, k)}

BundlePick(w) ==
  LET free == Available(req[w].target)
  IN /\ req[w].step = "pick"
     /\ \/ \E k \in free :
             /\ \A j \in free : k <= j
             /\ req' = [req EXCEPT ![w].step = "take", ![w].key = k]
        \/ free = {} /\ Finish(w)
     /\ UNCHANGED <<tables, environment, history>>

(* UPDATE prekeys SET used = true ... RETURNING *)
BundleTake(w) ==
  LET r == req[w]
  IN /\ r.step = "take"
     /\ prekeys' = [prekeys EXCEPT ![r.target][r.key] = "used"]
     /\ granted' = [granted EXCEPT ![r.target][r.key] = @ + 1]
     /\ Finish(w)
     /\ UNCHANGED <<accounts, owner, rows, links, minted, messages, environment,
                    born, joined, accepted, follows, handed>>

-----------------------------------------------------------------------------
Arrival(w) ==
  \/ RegisterArrives(w) \/ LinkInitArrives(w) \/ CompleteLinkArrives(w)
  \/ UnlinkArrives(w) \/ SendArrives(w) \/ FetchArrives(w) \/ BundleArrives(w)

(* The steps of a handler that never wait *)
Handle(w) ==
  \/ Auth(w) \/ RegisterCommit(w) \/ SameAccount(w) \/ LinkInitIssue(w)
  \/ CompleteLinkCommit(w) \/ UnlinkTarget(w)
  \/ SendAccount(w) \/ SendStamp(w) \/ SendCommit(w) \/ FetchDelete(w) \/ FetchReply(w)
  \/ BundleRead(w) \/ BundlePick(w) \/ BundleTake(w)

(* The statements that may wait for a row lock *)
Locking(w) == CompleteLinkConsume(w) \/ UnlinkRemove(w)

Next ==
  \/ \E w \in Worker : Arrival(w) \/ Handle(w) \/ Locking(w) \/ Abort(w)
  \/ ExpireCode

Spec == Init /\ [][Next]_vars

(***************************************************************************)
(* Fairness.  Tokio runs every ready task, so a handler's next statement   *)
(* is eventually executed; Postgres grants a row lock in the order it was  *)
(* asked for, so a statement that can run again and again does run.  The   *)
(* client polls every three seconds for ever, and of its polls not every   *)
(* one is cut short before authentication, nor before the DELETE.          *)
(***************************************************************************)
Scheduling == \A w \in Worker : WF_vars(Handle(w)) /\ SF_vars(Locking(w))

Fetches(d, w) == req[w].op = "fetch" /\ req[w].caller = d

Polling ==
  \A d \in Device :
    /\ SF_vars(\E w \in Worker : d \in born /\ Arrive(w, Signed("fetch", d)))
    /\ SF_vars(\E w \in Worker : Fetches(d, w) /\ Auth(w))
    /\ SF_vars(\E w \in Worker : Fetches(d, w) /\ FetchDelete(w))

FairSpec == Spec /\ Scheduling /\ Polling

-----------------------------------------------------------------------------
(* Properties *)

(* TypeOK: every table, request and history variable holds values of its type. *)
TypeOK ==
  /\ accounts \subseteq Account
  /\ owner \in [Device -> Account \cup {None}]
  /\ rows \in [Device -> SUBSET Row]
  /\ prekeys \in [Device -> [KeyId -> PrekeyState]]
  /\ links \subseteq Code
  /\ minted \in [Code -> Account \cup {None}]
  /\ messages \subseteq Message
  /\ clock \in Nat
  /\ expired \subseteq Code
  /\ req \in [Worker -> Request]
  /\ inbox \in [Device -> Seq(Nat)]
  /\ born \subseteq Device
  /\ joined \in [Device -> Code \cup {None}]
  /\ granted \in [Device -> [KeyId -> Nat]]
  /\ accepted \subseteq Nat
  /\ follows \subseteq Nat \X Nat
  /\ handed \in [Device -> Seq(Nat)]

(* PrekeyOnce: a one-time prekey is handed out at most once, however many      *)
(* get_prekey_bundle requests run concurrently and whichever of them fail.     *)
PrekeyOnce == \A d \in Device, k \in KeyId : granted[d][k] <= 1

(* CodeOnce: a link code adds at most one device, whatever complete_link       *)
(* requests race for it, and only to the account whose device minted it.       *)
CodeOnce ==
  \A d, e \in Device :
    joined[d] # None =>
      /\ joined[d] = joined[e] => d = e
      /\ joined[d] \notin links
      /\ owner[d] \in {None, minted[joined[d]]}

(* Consistent: whatever unlink_device races with, no row survives the device   *)
(* it belongs to, a linked device can always be sent to and written by, and a  *)
(* queued message is between two linked devices and names its sender's account.*)
Consistent ==
  /\ \A d \in Device :
       /\ owner[d] = None => rows[d] = {} /\ \A k \in KeyId : prekeys[d][k] = "absent"
       /\ owner[d] # None => rows[d] = Row /\ owner[d] \in accounts
  /\ \A m \in messages : owner[m.from] = m.account /\ owner[m.to] # None

(* RevokedIsRefused: a request that arrives after its device was unlinked is   *)
(* never let past authentication (tests/devices.rs: "immediately revokes").    *)
RevokedIsRefused == \A w \in Worker : req[w].stale => req[w].step = "auth"

(* HandedInOrder: if one message was committed before another began to be      *)
(* sent to the same device, fetches take it out of the table first.            *)
HandedInOrder ==
  \A d \in Device : \A i, j \in DOMAIN handed[d] :
    <<handed[d][i], handed[d][j]>> \in follows => i < j

(* DeliveredInOrder: ... and the device receives it first, as the offline-sync *)
(* plan has it: missed messages "arrive, in order".  Fetches of one device     *)
(* that overlap do not keep it: their responses may pass one another.          *)
DeliveredInOrder ==
  \A d \in Device : \A i, j \in DOMAIN inbox[d] :
    <<inbox[d][i], inbox[d][j]>> \in follows => i < j

(* LinkAtomic: a code is consumed only by the step that adds its device, so a  *)
(* complete_link that fails after the DELETE leaves it usable; and an existing *)
(* account gains a device only by consuming a code minted for it.              *)
LinkStep ==
  /\ \A c \in links \ links' : \E d \in Device : joined[d] = None /\ joined'[d] = c
  /\ \A d \in Device :
       owner'[d] # owner[d] /\ owner'[d] \in accounts =>
         \E c \in links \ links' : joined'[d] = c /\ minted[c] = owner'[d]
LinkAtomic == [][LinkStep]_vars

(* RequestsFinish: no request waits for ever for a row lock or another request. *)
RequestsFinish == \A w \in Worker : req[w] # Idle ~> req[w] = Idle

(* QueuesDrain: a message does not stay queued for ever: its recipient fetches  *)
(* it, or one of its two devices is unlinked.                                   *)
QueuesDrain == \A i \in 1 .. MaxMessages : i \in Stamps(messages) ~> i \notin Stamps(messages)

(***************************************************************************)
(* The mailbox the server implements (module Mailbox), and the map to it.  *)
(***************************************************************************)
Elements(s) == {s[i] : i \in DOMAIN s}
Queued == {<<m.at, m.to>> : m \in messages}
Carried == UNION {Elements(req[w].batch) \X {req[w].caller} : w \in Worker}
Received == UNION {Elements(inbox[d]) \X {d} : d \in Device}

Box == INSTANCE Mailbox WITH
         Message <- 1 .. MaxMessages, Device <- Device,
         posted <- accepted, queue <- Queued, carried <- Carried, received <- Received

(* MailboxSpec: the handlers implement Mailbox: nothing is fetched twice, left  *)
(* behind by a fetch, or delivered to another device, whatever runs beside it.  *)
MailboxSpec == Box!Spec

(* AtMostOnce: no message is at the same time queued, on its way or received.   *)
AtMostOnce == Box!AtMostOnce

=============================================================================
