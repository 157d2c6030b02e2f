------------------------------ MODULE Session -------------------------------
(***************************************************************************)
(* The encrypted sessions of two devices (web/src/crypto/session.ts and    *)
(* sendToContact, poll): a record in IndexedDB, the copies of it that the  *)
(* SignalStores of a page hold, and the activations that restore, use and  *)
(* persist it.                                                             *)
(*                                                                         *)
(* The ratchet is libsignal's, kept to what decides whether an envelope    *)
(* decrypts.  A session has at either end a chain of keys for sending; an  *)
(* end starts a new one when it receives from a new chain of the other,    *)
(* and a new chain can be followed only by the end it was derived for.     *)
(***************************************************************************)
EXTENDS Naturals, Sequences

CONSTANTS
  Device,    \* two devices
  Task,      \* activations of a page, a bound
  Store,     \* SignalStores of a page that are in use, a bound
  MaxSends,  \* bound on the envelopes encrypted
  MaxEvents, \* bound on failures, and on the screens and pages opened
  None

ASSUME SessionAssumption ==
  /\ \A d \in Device : \E e \in Device \ {d} : Device = {d, e}
  /\ Store # {} /\ None \notin Store /\ MaxSends \in Nat /\ MaxEvents \in Nat

VARIABLES
  disk,       \* the sessions store of keyStore: the record of each device
  queue,      \* the envelopes that wait for a device
  store,      \* what each SignalStore of a page has for the other device
  current,    \* the store of the screen on show
  act,        \* activations
  \* what happened
  fresh,      \* numbers handed out to sessions and chains
  sends,      \* how many envelopes were encrypted
  events,     \* how many failures and openings there were
  keys,       \* the keys they were encrypted with
  reused,     \* a key was used twice
  rejected,   \* an envelope was not decrypted
  raced,      \* two activations of a page restored their session at once
  parted,     \* a page used two stores
  cut         \* an activation did not get to its end

past == <<fresh, sends, events, keys, reused, rejected, raced, parted, cut>>
vars == <<disk, queue, store, current, act, past>>

(* A record is a sequence of sessions.  The first is the current one; the   *)
(* others were replaced and are kept, because envelopes may still use them. *)
NoSession == <<>>
Prekey == 0     \* the chain that stands for a device's signed prekey

Idle ==
  [op |-> "none", step |-> "none", store |-> None, bytes |-> NoSession, batch |-> <<>>,
   receipts |-> 0]
Pages == [d \in Device |-> [s \in Store |-> NoSession]]

-----------------------------------------------------------------------------
(* libsignal: what a record becomes *)

(* establish_session: a new session, from a bundle of the peer's prekeys *)
Established(record, f) ==
  <<[sid |-> f, own |-> f, on |-> Prekey, n |-> 0, acked |-> FALSE, seen |-> {}]>> \o record

(* encrypt: the envelope, and the record afterwards *)
Envelope(record) ==
  LET s == Head(record)
  IN [sid |-> s.sid, chain |-> s.own, on |-> s.on, n |-> s.n, prekey |-> ~s.acked]

Encrypted(record) == <<[Head(record) EXCEPT !.n = @ + 1]>> \o Tail(record)

(* decrypt: the sessions that it tries *)
Answer(e) == [sid |-> e.sid, own |-> Prekey, on |-> Prekey, n |-> 0, acked |-> TRUE, seen |-> {}]
Knows(record, e) == \E i \in DOMAIN record : record[i].sid = e.sid
Tried(record, e) ==
  IF e.prekey /\ ~Knows(record, e) THEN <<Answer(e)>> \o record ELSE record

Follows(s, e) == \E key \in s.seen : key.chain = e.chain
Opens(s, e) ==
  /\ s.sid = e.sid
  /\ IF Follows(s, e) THEN [chain |-> e.chain, n |-> e.n] \notin s.seen ELSE e.on = s.own

Decryptable(record, e) == \E i \in DOMAIN Tried(record, e) : Opens(Tried(record, e)[i], e)

Received(s, e, f) ==
  LET read == [s EXCEPT !.acked = TRUE, !.seen = @ \cup {[chain |-> e.chain, n |-> e.n]}]
  IN IF Follows(s, e) THEN read ELSE [read EXCEPT !.own = f, !.on = e.chain, !.n = 0]

(* The session that decrypts becomes the current one *)
Decrypted(record, e, f) ==
  LET tried == Tried(record, e)
      i == CHOOSE j \in DOMAIN tried : Opens(tried[j], e)
  IN <<Received(tried[i], e, f)>> \o SubSeq(tried, 1, i - 1) \o SubSeq(tried, i + 1, Len(tried))

-----------------------------------------------------------------------------
Peer(d) == CHOOSE e \in Device \ {d} : TRUE

(* The devices have no session yet, or d has sent the first envelope of one  *)
(* and the other has received it.                                            *)
First == Envelope(Established(NoSession, 1))
InTouch(d) ==
  [e \in Device |->
     IF e = d THEN Encrypted(Established(NoSession, 1)) ELSE Decrypted(NoSession, First, 2)]

Init ==
  /\ \/ disk = [d \in Device |-> NoSession] /\ keys = {} /\ fresh = 1
     \/ \E d \in Device : disk = InTouch(d) /\ keys = {[chain |-> 1, n |-> 0]} /\ fresh = 3
  /\ queue = [d \in Device |-> <<>>]
  /\ store = Pages
  /\ \E s \in Store : current = [d \in Device |-> s]
  /\ act = [d \in Device |-> [t \in Task |-> Idle]]
  /\ sends = 0 /\ events = 0 /\ reused = FALSE /\ rejected = FALSE
  /\ raced = FALSE /\ parted = FALSE /\ cut = FALSE

-----------------------------------------------------------------------------
In(d, t) == store[d][act[d][t].store]       \* the store of an activation
InUse(d) == {act[d][t].store : t \in Task} \ {None}
Active(d) == InUse(d) # {}

Event == events < MaxEvents /\ events' = events + 1

Goto(d, t, step) == act' = [act EXCEPT ![d][t].step = step]

(* A text is sent, or the page polls *)
Begin(d, t, op) ==
  /\ act[d][t] = Idle
  /\ act' = [act EXCEPT ![d][t] =
       [Idle EXCEPT !.op = op, !.step = IF op = "send" THEN "check" ELSE "fetch",
                    !.store = current[d]]]
  /\ UNCHANGED <<disk, queue, store, current, past>>

(* createGroup and enterIdentityReady, enterConversation, enterGroup open a  *)
(* store each.  The screen's own becomes the current one in the step that    *)
(* shows it: until then the screen before sends, and its interval polls,     *)
(* with the store before, as activations that Begin.                         *)
Free(d) == Store \ (InUse(d) \cup {current[d]})

CreateGroup(d, t) ==
  /\ Event
  /\ act[d][t] = Idle
  /\ \E s \in Free(d) :
       /\ store' = [store EXCEPT ![d][s] = NoSession]
       /\ act' = [act EXCEPT ![d][t] = [Idle EXCEPT !.op = "send", !.step = "check", !.store = s]]
  /\ parted' = TRUE
  /\ UNCHANGED <<disk, queue, current, fresh, sends, keys, reused, rejected, raced, cut>>

EnterScreen(d) ==
  /\ Event
  /\ \E s \in Free(d) :
       /\ store' = [store EXCEPT ![d] = [r \in Store |-> IF r \in InUse(d) THEN @[r] ELSE NoSession]]
       /\ current' = [current EXCEPT ![d] = s]
  /\ parted' = (parted \/ Active(d))
  /\ UNCHANGED <<disk, queue, act, fresh, sends, keys, reused, rejected, raced, cut>>

(* The page is closed or reloaded *)
Reload(d) ==
  /\ Event
  /\ store' = [store EXCEPT ![d] = [s \in Store |-> NoSession]]
  /\ act' = [act EXCEPT ![d] = [t \in Task |-> Idle]]
  /\ cut' = (cut \/ Active(d))
  /\ UNCHANGED <<disk, queue, current, fresh, sends, keys, reused, rejected, raced, parted>>

-----------------------------------------------------------------------------
(* restoreSession, and what follows at once.  A send has its envelope        *)
(* encrypted, with a session of its own making if need be; a poll decrypts.  *)

Keep(d, t, record) == store' = [store EXCEPT ![d][act[d][t].store] = record]

Encrypt(d, t, record, f) ==
  LET a == act[d][t]
      e == Envelope(record)
      key == [chain |-> e.chain, n |-> e.n]
  IN /\ sends < MaxSends
     /\ Keep(d, t, Encrypted(record))
     /\ act' = [act EXCEPT ![d][t] =
          [a EXCEPT !.step = "send", !.bytes = NoSession, !.batch = <<e>> \o @]]
     /\ fresh' = f /\ sends' = sends + 1
     /\ keys' = keys \cup {key} /\ reused' = (reused \/ key \in keys)
     /\ UNCHANGED rejected

(* A text is answered by two receipts before its session is persisted *)
Decrypt(d, t, record) ==
  LET a == act[d][t]
      e == Head(a.batch)
  IN /\ \/ /\ Decryptable(record, e)
           /\ Keep(d, t, Decrypted(record, e, fresh))
           /\ \E n \in {0, 2} :
                act' = [act EXCEPT ![d][t] =
                  [a EXCEPT !.step = IF n = 0 THEN "persist" ELSE "reply", !.receipts = n,
                            !.bytes = NoSession, !.batch = Tail(@)]]
           /\ fresh' = fresh + 1
           /\ UNCHANGED rejected
        \/ /\ ~Decryptable(record, e)
           /\ Keep(d, t, record)
           /\ act' = [act EXCEPT ![d][t] = Idle]
           /\ rejected' = TRUE
           /\ UNCHANGED fresh
     /\ UNCHANGED <<sends, keys, reused>>

Restored(d, t, record) ==
  \/ act[d][t].op = "poll" /\ Decrypt(d, t, record)
  \/ act[d][t].op = "send" /\ record # NoSession /\ Encrypt(d, t, record, fresh)
  \/ act[d][t].op = "send" /\ record = NoSession /\ Goto(d, t, "bundle")
       /\ UNCHANGED <<store, fresh, sends, keys, reused, rejected>>

Restoring(d, t) == act[d][t].step \in {"load", "import", "bundle"}

(* Mutant: the record is loaded even when the store has it *)
CheckNothing(d, t) ==
  /\ act[d][t].step = "check"
  /\ Goto(d, t, "load")
  /\ raced' = (raced \/ \E u \in Task : Restoring(d, u))
  /\ UNCHANGED <<disk, queue, store, current, fresh, sends, events, keys, reused, rejected,
                 parted, cut>>

(* has_session *)
Check(d, t) ==
  /\ act[d][t].step = "check"
  /\ \/ In(d, t) # NoSession /\ Restored(d, t, In(d, t))
     \/ In(d, t) = NoSession /\ Goto(d, t, "load")
          /\ UNCHANGED <<store, fresh, sends, keys, reused, rejected>>
  /\ raced' = (raced \/ (In(d, t) = NoSession /\ \E u \in Task : Restoring(d, u)))
  /\ UNCHANGED <<disk, queue, current, events, parted, cut>>

(* Mutant: no record is not an empty one *)
LoadUndefined(d, t) ==
  /\ act[d][t].step = "load"
  /\ act' = [act EXCEPT ![d][t] =
       [@ EXCEPT !.step = "import", !.bytes = IF disk[d] = NoSession THEN None ELSE disk[d]]]
  /\ UNCHANGED <<disk, queue, store, current, past>>

LoadSession(d, t) ==
  /\ act[d][t].step = "load"
  /\ act' = [act EXCEPT ![d][t] = [@ EXCEPT !.step = "import", !.bytes = disk[d]]]
  /\ UNCHANGED <<disk, queue, store, current, past>>

(* import_session replaces whatever the store has by now *)
Import(d, t) ==
  LET bytes == act[d][t].bytes
  IN /\ act[d][t].step = "import"
     /\ Restored(d, t, IF bytes = NoSession THEN In(d, t) ELSE bytes)
     /\ UNCHANGED <<disk, queue, current, events, raced, parted, cut>>

(* The server answers with a bundle, see module Server *)
Establish(d, t) ==
  /\ act[d][t].step = "bundle"
  /\ Encrypt(d, t, Established(In(d, t), fresh), fresh + 1)
  /\ UNCHANGED <<disk, queue, current, events, raced, parted, cut>>

(* A receipt of a poll, sendToContact as above: the store has the session *)
Reply(d, t) ==
  /\ act[d][t].step = "reply"
  /\ Encrypt(d, t, In(d, t), fresh)
  /\ UNCHANGED <<disk, queue, current, events, raced, parted, cut>>

-----------------------------------------------------------------------------
SendMessage(d, t) ==
  LET a == act[d][t]
  IN /\ a.step = "send"
     /\ queue' = [queue EXCEPT ![Peer(d)] = Append(@, Head(a.batch))]
     /\ act' = [act EXCEPT ![d][t] = [a EXCEPT !.step = "persist", !.batch = Tail(@)]]
     /\ UNCHANGED <<disk, store, current, past>>

(* The next receipt, then the session of the envelope, then the next envelope *)
AfterPersist(a) ==
  IF a.receipts > 0
  THEN [a EXCEPT !.receipts = @ - 1, !.step = IF a.receipts > 1 THEN "reply" ELSE "persist"]
  ELSE IF a.batch = <<>> THEN Idle ELSE [a EXCEPT !.step = "check"]

(* Mutant: only the current session is persisted *)
PersistCurrent(d, t) ==
  /\ act[d][t].step = "persist"
  /\ disk' = [disk EXCEPT ![d] = <<Head(In(d, t))>>]
  /\ act' = [act EXCEPT ![d][t] = AfterPersist(@)]
  /\ UNCHANGED <<queue, store, current, past>>

(* persistSession exports what the store has now; saves end in their order *)
Persist(d, t) ==
  /\ act[d][t].step = "persist"
  /\ disk' = [disk EXCEPT ![d] = In(d, t)]
  /\ act' = [act EXCEPT ![d][t] = AfterPersist(@)]
  /\ UNCHANGED <<queue, store, current, past>>

FetchMessages(d, t) ==
  /\ act[d][t].step = "fetch"
  /\ queue' = [queue EXCEPT ![d] = <<>>]
  /\ act' = [act EXCEPT ![d][t] =
       IF queue[d] = <<>> THEN Idle ELSE [@ EXCEPT !.step = "check", !.batch = queue[d]]]
  /\ UNCHANGED <<disk, store, current, past>>

(* A request, a read or a write fails.  The store keeps what it has. *)
Fail(d, t) ==
  /\ Event
  /\ act[d][t] # Idle
  /\ act' = [act EXCEPT ![d][t] = Idle]
  /\ cut' = TRUE
  /\ UNCHANGED <<disk, queue, store, current, fresh, sends, keys, reused, rejected, raced,
                 parted>>

Next ==
  \E d \in Device :
    \/ EnterScreen(d) \/ Reload(d)
    \/ \E t \in Task :
         \/ Begin(d, t, "send") \/ Begin(d, t, "poll") \/ CreateGroup(d, t)
         \/ Check(d, t) \/ LoadSession(d, t) \/ Import(d, t) \/ Establish(d, t)
         \/ Reply(d, t) \/ SendMessage(d, t) \/ Persist(d, t) \/ FetchMessages(d, t)
         \/ Fail(d, t)

Spec == Init /\ [][Next]_vars

-----------------------------------------------------------------------------
(* Properties *)

Undisturbed == ~raced /\ ~parted /\ ~cut

(* TypeOK: every variable holds values of its type. *)
Key == [chain : Nat, n : Nat]
SessionState ==
  [sid : Nat, own : Nat, on : Nat, n : Nat, acked : BOOLEAN, seen : SUBSET Key]
Record == Seq(SessionState)
Envelopes == [sid : Nat, chain : Nat, on : Nat, n : Nat, prekey : BOOLEAN]
Activation ==
  [op : {"none", "send", "poll"},
   step : {"none", "fetch", "check", "load", "import", "bundle", "reply", "send", "persist"},
   store : Store \cup {None}, bytes : Record, batch : Seq(Envelopes), receipts : 0..2]
TypeOK ==
  /\ disk \in [Device -> Record] /\ queue \in [Device -> Seq(Envelopes)]
  /\ store \in [Device -> [Store -> Record]] /\ current \in [Device -> Store]
  /\ act \in [Device -> [Task -> Activation]]
  /\ fresh \in Nat /\ sends \in 0..MaxSends /\ events \in 0..MaxEvents /\ keys \subseteq Key
  /\ {reused, rejected, raced, parted, cut} \subseteq BOOLEAN

(* KeyOnce: no key encrypts two envelopes, unless two activations restored or *)
(* established their session at once, a page used two stores, or an           *)
(* activation was cut short.                                                  *)
KeyOnce == Undisturbed => ~reused

(* Readable: under the same conditions every envelope that a poll receives    *)
(* decrypts, whatever was lost, overlapped or established at both ends.       *)
Readable == Undisturbed => ~rejected

(* RestoresUnloaded: "Restores a previously persisted session for `key` into  *)
(* the store, if one exists and isn't already loaded": no session of the      *)
(* store is replaced by the one on disk.                                      *)
RestoresUnloaded ==
  [][\A d \in Device, t \in Task :
       (Import(d, t) /\ act[d][t].bytes # NoSession) => In(d, t) = NoSession]_vars

(* SurvivesReload: "Survive a reload without losing the conversation or       *)
(* re-establishing the session": an activation that a reload cuts short makes *)
(* no envelope unreadable.                                                    *)
SurvivesReload == (~raced /\ ~parted) => ~rejected

=============================================================================
