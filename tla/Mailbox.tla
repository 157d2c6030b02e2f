------------------------------ MODULE Mailbox -------------------------------
(***************************************************************************)
(* What send_message and fetch_messages promise of the messages table: a   *)
(* message is posted once, to one device; a fetch takes all that is queued *)
(* for its device; what was taken reaches the device at most once, or is   *)
(* lost with the response that carried it; and what is still queued when   *)
(* one of its devices is unlinked is dropped.                              *)
(***************************************************************************)
EXTENDS FiniteSets

CONSTANTS Message, Device

VARIABLES
  posted,    \* the messages posted so far
  queue,     \* pairs <<message, recipient>> waiting to be fetched
  carried,   \* pairs taken by a fetch that has not been answered
  received   \* pairs that reached their recipient

vars == <<posted, queue, carried, received>>

Addressed == Message \X Device

Init ==
  /\ posted = {}
  /\ queue = {}
  /\ carried = {}
  /\ received = {}

Of(d, S) == {p \in S : p[2] = d}

Post(m, d) ==
  /\ m \notin posted
  /\ posted' = posted \cup {m}
  /\ queue' = queue \cup {<<m, d>>}
  /\ UNCHANGED <<carried, received>>

Take(d) ==
  /\ queue' = queue \ Of(d, queue)
  /\ carried' = carried \cup Of(d, queue)
  /\ UNCHANGED <<posted, received>>

Deliver(d) ==
  \E S \in SUBSET Of(d, carried) :
    /\ carried' = carried \ S
    /\ received' = received \cup S
    /\ UNCHANGED <<posted, queue>>

Lose(d) ==
  \E S \in SUBSET Of(d, carried) :
    /\ carried' = carried \ S
    /\ UNCHANGED <<posted, queue, received>>

Drop ==
  \E S \in SUBSET queue :
    /\ queue' = queue \ S
    /\ UNCHANGED <<posted, carried, received>>

Next ==
  \/ \E m \in Message, d \in Device : Post(m, d)
  \/ \E d \in Device : Take(d) \/ Deliver(d) \/ Lose(d)
  \/ Drop

Spec == Init /\ [][Next]_vars

(* AtMostOnce: a message is never both waiting and taken, nor received and      *)
(* still to come, and only posted messages are anywhere.                        *)
AtMostOnce ==
  /\ queue \cup carried \cup received \subseteq posted \X Device
  /\ queue \cap carried = {}
  /\ queue \cap received = {}
  /\ carried \cap received = {}

=============================================================================
