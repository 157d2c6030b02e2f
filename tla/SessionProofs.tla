---------------------------- MODULE SessionProofs -----------------------------
(***************************************************************************)
(* Proofs about Session: types, that no key decrypts twice, and that every *)
(* envelope a poll receives decrypts.  What an envelope under way can      *)
(* count on is stated of the ends of the sessions (Link), of the lines in  *)
(* which envelopes stand (Apart, Lines), and of both (Reading); the lemmas *)
(* about ends and lines know nothing of the actions.                       *)
(***************************************************************************)
EXTENDS Session, SequenceTheorems, TLAPS

-----------------------------------------------------------------------------
(* What libsignal makes of a record *)

LEMMA ConsType ==
  ASSUME NEW s \in SessionState, NEW r \in Record
  PROVE  /\ <<s>> \o r \in Record /\ <<s>> \o r # NoSession
         /\ Len(<<s>> \o r) = Len(r) + 1 /\ (<<s>> \o r)[1] = s
         /\ \A k \in 1..Len(r) : (<<s>> \o r)[k + 1] = r[k]
  BY DEF Record, NoSession

LEMMA RecordParts ==
  ASSUME NEW r \in Record
  PROVE  /\ DOMAIN r = 1..Len(r) /\ Len(r) \in Nat
         /\ \A i \in 1..Len(r) : r[i] \in SessionState
         /\ r # NoSession =>
              /\ Len(r) >= 1 /\ Head(r) = r[1] /\ Head(r) \in SessionState
              /\ Tail(r) \in Record /\ Len(Tail(r)) = Len(r) - 1
              /\ \A k \in 1..(Len(r) - 1) : Tail(r)[k] = r[k + 1]
  BY DEF Record, NoSession

LEMMA NoSessionType == NoSession \in Record /\ Len(NoSession) = 0
  BY DEF NoSession, Record

(* A session has one key more behind it *)
LEMMA NextKey ==
  ASSUME NEW s \in SessionState
  PROVE  /\ [s EXCEPT !.n = @ + 1] \in SessionState
         /\ [s EXCEPT !.n = @ + 1].n = s.n + 1 /\ [s EXCEPT !.n = @ + 1].own = s.own
  BY DEF SessionState

LEMMA EncryptedHas ==
  ASSUME NEW r \in Record, r # NoSession
  PROVE  /\ Encrypted(r) \in Record /\ Encrypted(r) # NoSession /\ Len(Encrypted(r)) = Len(r)
         /\ Encrypted(r)[1] = [r[1] EXCEPT !.n = @ + 1]
         /\ Encrypted(r)[1].own = r[1].own /\ Encrypted(r)[1].n = r[1].n + 1
         /\ \A i \in 2..Len(r) : Encrypted(r)[i] = r[i]
<1> DEFINE s == [Head(r) EXCEPT !.n = @ + 1]
<1>1. /\ Len(r) \in Nat /\ Len(r) >= 1 /\ Head(r) = r[1] /\ Head(r) \in SessionState
      /\ Tail(r) \in Record /\ Len(Tail(r)) = Len(r) - 1
      /\ \A k \in 1..(Len(r) - 1) : Tail(r)[k] = r[k + 1]
  BY RecordParts
<1>2. s \in SessionState /\ s.n = r[1].n + 1 /\ s.own = r[1].own
  BY <1>1, NextKey
<1>3. Encrypted(r) = <<s>> \o Tail(r)
  BY DEF Encrypted
<1>6. s = [r[1] EXCEPT !.n = @ + 1]
  BY <1>1
<1> HIDE DEF s
<1>4. /\ Encrypted(r) \in Record /\ Encrypted(r) # NoSession
      /\ Len(Encrypted(r)) = Len(r) /\ Encrypted(r)[1] = s
      /\ \A k \in 1..(Len(r) - 1) : Encrypted(r)[k + 1] = Tail(r)[k]
  <2>1. PICK t : t = Tail(r) /\ t \in Record /\ Len(t) = Len(r) - 1
    BY <1>1
  <2>2. PICK c : c \in SessionState /\ c = s
    BY <1>2
  <2>3. Encrypted(r) = <<c>> \o t
    BY <1>3, <2>1, <2>2
  <2>4. /\ <<c>> \o t \in Record /\ <<c>> \o t # NoSession
        /\ Len(<<c>> \o t) = Len(t) + 1 /\ (<<c>> \o t)[1] = c
        /\ \A k \in 1..Len(t) : (<<c>> \o t)[k + 1] = t[k]
    BY <2>1, <2>2, ConsType
  <2>5. Len(t) + 1 = Len(r)
    BY <1>1, <2>1
  <2> QED
    BY <2>1, <2>2, <2>3, <2>4, <2>5
<1>5. ASSUME NEW i \in 2..Len(r) PROVE Encrypted(r)[i] = r[i]
  <2>1. i - 1 \in 1..(Len(r) - 1) /\ (i - 1) + 1 = i
    BY <1>1
  <2> QED
    BY <1>1, <1>4, <2>1
<1> QED
  BY <1>2, <1>4, <1>5, <1>6

LEMMA EncryptedIs ==
  ASSUME NEW r \in Record, r # NoSession
  PROVE  /\ Encrypted(r) \in Record /\ Encrypted(r) # NoSession /\ Len(Encrypted(r)) = Len(r)
         /\ Encrypted(r)[1].own = r[1].own /\ Encrypted(r)[1].n = r[1].n + 1
         /\ \A i \in 2..Len(r) : Encrypted(r)[i] = r[i]
  BY EncryptedHas

LEMMA EnvelopeType ==
  ASSUME NEW r \in Record, r # NoSession
  PROVE  Envelope(r) \in Envelopes /\ Envelope(r).chain = r[1].own /\ Envelope(r).n = r[1].n
<1>1. Head(r) = r[1] /\ Head(r) \in SessionState
  BY RecordParts
<1> QED
  BY <1>1 DEF Envelope, Envelopes, SessionState

LEMMA EstablishedHas ==
  ASSUME NEW r \in Record, NEW f \in Nat
  PROVE  /\ Established(r, f) \in Record /\ Established(r, f) # NoSession
         /\ Len(Established(r, f)) = Len(r) + 1
         /\ Established(r, f)[1].own = f /\ Established(r, f)[1].n = 0
         /\ Established(r, f)[1] =
              [sid |-> f, own |-> f, on |-> Prekey, n |-> 0, acked |-> FALSE, seen |-> {}]
<1> DEFINE s == [sid |-> f, own |-> f, on |-> Prekey, n |-> 0, acked |-> FALSE, seen |-> {}]
<1>1. s \in SessionState /\ s.own = f /\ s.n = 0
  BY DEF SessionState, Prekey
<1>2. Established(r, f) = <<s>> \o r
  BY DEF Established
<1>3. PICK c : c = s
  OBVIOUS
<1> HIDE DEF s
<1>4. /\ <<c>> \o r \in Record /\ <<c>> \o r # NoSession
      /\ Len(<<c>> \o r) = Len(r) + 1 /\ (<<c>> \o r)[1] = c
  BY <1>1, <1>3, ConsType
<1>5. Established(r, f)[1] = s
  BY <1>2, <1>3, <1>4
<1> QED
  BY <1>1, <1>2, <1>3, <1>4, <1>5 DEF s

LEMMA EstablishedIs ==
  ASSUME NEW r \in Record, NEW f \in Nat
  PROVE  /\ Established(r, f) \in Record /\ Established(r, f) # NoSession
         /\ Len(Established(r, f)) = Len(r) + 1
         /\ Established(r, f)[1].own = f /\ Established(r, f)[1].n = 0
  BY EstablishedHas

LEMMA AnswerIs ==
  ASSUME NEW e \in Envelopes
  PROVE  Answer(e) \in SessionState /\ Answer(e).sid = e.sid
  BY DEF Answer, SessionState, Envelopes, Prekey

LEMMA TriedIs ==
  ASSUME NEW r \in Record, NEW e \in Envelopes
  PROVE  /\ Tried(r, e) \in Record
         /\ \/ Tried(r, e) = r
            \/ /\ Tried(r, e) = <<Answer(e)>> \o r
               /\ \A i \in 1..Len(r) : r[i].sid # e.sid
<1>1. CASE e.prekey /\ ~Knows(r, e)
  BY <1>1, AnswerIs, ConsType, RecordParts DEF Tried, Knows
<1>2. CASE ~(e.prekey /\ ~Knows(r, e))
  BY <1>2 DEF Tried
<1> QED
  BY <1>1, <1>2

LEMMA ReceivedIs ==
  ASSUME NEW s \in SessionState, NEW e \in Envelopes, NEW f \in Nat
  PROVE  /\ Received(s, e, f) \in SessionState
         /\ \/ Received(s, e, f).own = s.own /\ Received(s, e, f).n = s.n /\ Follows(s, e)
            \/ Received(s, e, f).own = f
<1> DEFINE seen == s.seen \cup {[chain |-> e.chain, n |-> e.n]}
           read == [s EXCEPT !.acked = TRUE, !.seen = seen]
           new == [read EXCEPT !.own = f, !.on = e.chain, !.n = 0]
<1>1. seen \in SUBSET Key /\ e.chain \in Nat
  BY DEF Envelopes, Key, SessionState
<1>2. Received(s, e, f) = IF Follows(s, e) THEN read ELSE new
  BY DEF Received
<1> HIDE DEF seen
<1>3. read \in SessionState /\ read.own = s.own /\ read.n = s.n
  BY <1>1 DEF SessionState
<1>4. new \in SessionState /\ new.own = f
  BY <1>1 DEF SessionState
<1> QED
  BY <1>2, <1>3, <1>4

(* The session that opens the envelope comes first, the others keep their order *)
LEMMA DecryptedIs ==
  ASSUME NEW r \in Record, NEW e \in Envelopes, NEW f \in Nat, Decryptable(r, e)
  PROVE  \E i \in 1..Len(Tried(r, e)) :
           LET tried == Tried(r, e)
               new == Decrypted(r, e, f)
           IN /\ Opens(tried[i], e)
              /\ new \in Record /\ new # NoSession /\ Len(new) = Len(tried)
              /\ new[1] = Received(tried[i], e, f)
              /\ \A k \in 2..Len(new) : new[k] = IF k <= i THEN tried[k - 1] ELSE tried[k]
<1> DEFINE tried == Tried(r, e)
           i == CHOOSE j \in DOMAIN tried : Opens(tried[j], e)
<1>1. tried \in Record
  BY TriedIs
<1>2. DOMAIN tried = 1..Len(tried) /\ Len(tried) \in Nat
      /\ \A j \in 1..Len(tried) : tried[j] \in SessionState
  BY <1>1, RecordParts
<1>3. i \in 1..Len(tried) /\ Opens(tried[i], e)
  BY <1>2 DEF Decryptable
<1>4. Received(tried[i], e, f) \in SessionState
  BY <1>2, <1>3, ReceivedIs
<1>5. Decrypted(r, e, f) =
        <<Received(tried[i], e, f)>> \o SubSeq(tried, 1, i - 1) \o SubSeq(tried, i + 1, Len(tried))
  BY DEF Decrypted
<1> HIDE DEF i, tried
<1>6. PICK s : s = Received(tried[i], e, f)
  OBVIOUS
<1>7. PICK before : before = SubSeq(tried, 1, i - 1)
  OBVIOUS
<1>8. PICK after : after = SubSeq(tried, i + 1, Len(tried))
  OBVIOUS
<1>9. /\ before \in Record /\ Len(before) = i - 1
      /\ \A k \in 1..(i - 1) : before[k] = tried[k]
  BY <1>1, <1>2, <1>3, <1>7 DEF Record
<1>10. /\ after \in Record /\ Len(after) = Len(tried) - i
       /\ \A k \in 1..(Len(tried) - i) : after[k] = tried[i + k]
  <2>1. i + 1 \in Int /\ Len(tried) \in Int /\ \A k \in (i + 1)..Len(tried) : tried[k] \in SessionState
    BY <1>2, <1>3
  <2>2. /\ after \in Seq(SessionState)
        /\ Len(after) = IF i + 1 <= Len(tried) THEN Len(tried) - (i + 1) + 1 ELSE 0
        /\ \A k \in 1..(Len(tried) - (i + 1) + 1) : after[k] = tried[(i + 1) + k - 1]
    BY <1>8, <2>1, SubSeqProperties
  <2>3. ASSUME NEW k \in 1..(Len(tried) - i) PROVE after[k] = tried[i + k]
    <3>1. k \in 1..(Len(tried) - (i + 1) + 1) /\ (i + 1) + k - 1 = i + k
      BY <1>2, <1>3
    <3> QED
      BY <2>2, <3>1
  <2>4. Len(after) = Len(tried) - i
    <3>1. PICK l \in Nat : l = Len(tried)
      BY <1>2
    <3>2. i \in 1..l /\ Len(after) = IF i + 1 <= l THEN l - (i + 1) + 1 ELSE 0
      BY <1>3, <2>2, <3>1
    <3>3. CASE i = l
      BY <3>1, <3>2, <3>3
    <3>4. CASE i < l
      BY <3>1, <3>2, <3>4
    <3> QED
      BY <3>2, <3>3, <3>4
  <2> QED
    BY <2>2, <2>3, <2>4 DEF Record
<1>11. PICK front, new : front = <<s>> \o before /\ new = front \o after
  OBVIOUS
<1>12. /\ front \in Record /\ Len(front) = i /\ front[1] = s
       /\ \A k \in 1..(i - 1) : front[k + 1] = tried[k]
  BY <1>3, <1>2, <1>4, <1>6, <1>9, <1>11, ConsType
<1>13. /\ new \in Record /\ Len(new) = Len(tried)
       /\ \A k \in 1..Len(tried) : new[k] = IF k <= i THEN front[k] ELSE after[k - i]
  <2>1. front \in Seq(SessionState) /\ after \in Seq(SessionState)
    BY <1>10, <1>12 DEF Record
  <2>2. /\ new \in Seq(SessionState) /\ Len(new) = Len(front) + Len(after)
        /\ \A k \in 1..(Len(front) + Len(after)) :
             new[k] = IF k <= Len(front) THEN front[k] ELSE after[k - Len(front)]
    BY <1>11, <2>1, ConcatProperties
  <2>3. Len(front) = i /\ Len(front) + Len(after) = Len(tried)
    BY <1>2, <1>3, <1>10, <1>12
  <2> QED
    BY <2>2, <2>3 DEF Record
<1>15. new[1] = s
  BY <1>2, <1>3, <1>12, <1>13
<1>16. ASSUME NEW k \in 2..Len(new)
       PROVE  new[k] = IF k <= i THEN tried[k - 1] ELSE tried[k]
  <2>1. CASE k <= i
    <3>1. k - 1 \in 1..(i - 1) /\ (k - 1) + 1 = k
      BY <1>2, <1>3, <1>13, <2>1
    <3>2. front[k] = tried[k - 1]
      BY <1>12, <3>1
    <3> QED
      BY <1>2, <1>13, <2>1, <3>2
  <2>2. CASE k > i
    <3>1. k - i \in 1..(Len(tried) - i) /\ i + (k - i) = k
      BY <1>2, <1>3, <1>13, <2>2
    <3>2. after[k - i] = tried[k]
      BY <1>10, <3>1
    <3> QED
      BY <1>2, <1>3, <1>13, <2>2, <3>2
  <2> QED
    BY <1>2, <1>3, <1>13, <2>1, <2>2
<1>14. new = Decrypted(r, e, f) /\ new # NoSession
  <2>1. Len(new) >= 1
    BY <1>2, <1>3, <1>13
  <2>2. new = Decrypted(r, e, f)
    BY <1>5, <1>6, <1>7, <1>8, <1>11
  <2> QED
    BY <2>1, <2>2, NoSessionType
<1>17. /\ Opens(tried[i], e) /\ Decrypted(r, e, f) \in Record /\ Decrypted(r, e, f) # NoSession
       /\ Len(Decrypted(r, e, f)) = Len(tried)
       /\ Decrypted(r, e, f)[1] = Received(tried[i], e, f)
       /\ \A k \in 2..Len(Decrypted(r, e, f)) :
            Decrypted(r, e, f)[k] = IF k <= i THEN tried[k - 1] ELSE tried[k]
  BY <1>3, <1>6, <1>13, <1>14, <1>15, <1>16
<1> QED
  BY <1>3, <1>17 DEF tried

-----------------------------------------------------------------------------
(* The keys that the devices have yet to use.  No key of a chain that a     *)
(* device sends on was used beyond where the device is, and no two sessions *)
(* send on the same chain.                                                  *)

Behind(s, ks, f) ==
  /\ s.own # Prekey /\ s.own < f
  /\ \A key \in ks : key.chain = s.own => key.n < s.n

KeyInv(R, ks, f) ==
  /\ \A d \in Device : \A i \in 1..Len(R[d]) : Behind(R[d][i], ks, f)
  /\ \A key \in ks : key.chain < f
  /\ \A d, e \in Device : \A i \in 1..Len(R[d]), j \in 1..Len(R[e]) :
       R[d][i].own = R[e][j].own => d = e /\ i = j

Records == [Device -> Record]

(* The current session of d encrypts *)
LEMMA EncryptKeys ==
  ASSUME NEW R \in Records, NEW ks \in SUBSET Key, NEW f \in Nat, KeyInv(R, ks, f),
         NEW d \in Device, R[d] # NoSession,
         NEW key, key = [chain |-> Envelope(R[d]).chain, n |-> Envelope(R[d]).n]
  PROVE  /\ key \notin ks /\ key \in Key
         /\ KeyInv([R EXCEPT ![d] = Encrypted(R[d])], ks \cup {key}, f)
<1>1. R[d] \in Record /\ \A e \in Device : R[e] \in Record
  BY DEF Records
<1>2. /\ Len(R[d]) \in Nat /\ Len(R[d]) >= 1
      /\ \A e \in Device : /\ Len(R[e]) \in Nat
                           /\ \A i \in 1..Len(R[e]) : R[e][i] \in SessionState
  BY <1>1, RecordParts
<1>3. key.chain = R[d][1].own /\ key.n = R[d][1].n /\ key \in Key
  <2>1. Envelope(R[d]).chain = R[d][1].own /\ Envelope(R[d]).n = R[d][1].n
    BY <1>1, EnvelopeType
  <2>2. R[d][1] \in SessionState
    BY <1>2
  <2> QED
    BY <2>1, <2>2 DEF SessionState, Key
<1>4. Behind(R[d][1], ks, f)
  BY <1>2 DEF KeyInv
<1>5. R[d][1].n \in Nat /\ R[d][1].own \in Nat
  BY <1>2 DEF SessionState
<1>6. key \notin ks
  BY <1>3, <1>4, <1>5 DEF Behind
<1>7. PICK Q : Q = [R EXCEPT ![d] = Encrypted(R[d])]
  OBVIOUS
<1>8. \A e \in Device : Len(Q[e]) = Len(R[e])
  BY <1>1, <1>7, EncryptedIs DEF Records
<1>9. \A e \in Device : \A i \in 1..Len(R[e]) : <<e, i>> # <<d, 1>> => Q[e][i] = R[e][i]
  <2> SUFFICES ASSUME NEW e \in Device, NEW i \in 1..Len(R[e]), <<e, i>> # <<d, 1>>
               PROVE  Q[e][i] = R[e][i]
    OBVIOUS
  <2>1. CASE e # d
    BY <1>7, <2>1 DEF Records
  <2>2. CASE e = d
    <3>1. i \in 2..Len(R[d]) /\ Q[d] = Encrypted(R[d])
      BY <1>2, <1>7, <2>2 DEF Records
    <3> QED
      BY <1>1, <2>2, <3>1, EncryptedIs
  <2> QED
    BY <2>1, <2>2
<1>10. Q[d][1].own = R[d][1].own /\ Q[d][1].n = R[d][1].n + 1
  BY <1>1, <1>7, EncryptedIs DEF Records
<1>11. \A e \in Device : \A i \in 1..Len(R[e]) : Q[e][i].own = R[e][i].own
  BY <1>9, <1>10
<1>12. ASSUME NEW e \in Device, NEW i \in 1..Len(R[e])
       PROVE  Behind(Q[e][i], ks \cup {key}, f)
  <2>1. Behind(R[e][i], ks, f)
    BY DEF KeyInv
  <2>2. CASE <<e, i>> = <<d, 1>>
    <3>1. Q[e][i].own = R[d][1].own /\ Q[e][i].n = R[d][1].n + 1
      BY <1>10, <2>2
    <3>2. \A k \in ks : k.n \in Nat
      BY DEF Key
    <3> QED
      BY <1>3, <1>4, <1>5, <3>1, <3>2 DEF Behind
  <2>3. CASE <<e, i>> # <<d, 1>>
    <3>1. R[e][i].own # R[d][1].own
      BY <1>2, <2>3 DEF KeyInv
    <3> QED
      BY <1>3, <1>9, <2>1, <2>3, <3>1 DEF Behind
  <2> QED
    BY <2>2, <2>3
<1>13. \A k \in ks \cup {key} : k.chain < f
  BY <1>3, <1>4 DEF KeyInv, Behind
<1>14. \A a, b \in Device : \A i \in 1..Len(Q[a]), j \in 1..Len(Q[b]) :
         Q[a][i].own = Q[b][j].own => a = b /\ i = j
  BY <1>8, <1>11 DEF KeyInv
<1>15. KeyInv(Q, ks \cup {key}, f)
  BY <1>8, <1>12, <1>13, <1>14 DEF KeyInv
<1> QED
  BY <1>3, <1>6, <1>7, <1>15

(* d starts over with a session of its own making *)
LEMMA EstablishKeys ==
  ASSUME NEW R \in Records, NEW ks \in SUBSET Key, NEW f \in Nat, f # 0, KeyInv(R, ks, f),
         NEW d \in Device
  PROVE  KeyInv([R EXCEPT ![d] = Established(NoSession, f)], ks, f + 1)
<1>1. PICK Q : Q = [R EXCEPT ![d] = Established(NoSession, f)]
  OBVIOUS
<1>2. Len(Q[d]) = 1 /\ Q[d][1].own = f /\ Q[d][1].n = 0
  <2>1. Q[d] = Established(NoSession, f)
    BY <1>1 DEF Records
  <2>2. /\ Len(Established(NoSession, f)) = Len(NoSession) + 1
        /\ Established(NoSession, f)[1].own = f /\ Established(NoSession, f)[1].n = 0
    BY NoSessionType, EstablishedIs
  <2> QED
    BY <2>1, <2>2, NoSessionType
<1>3. \A e \in Device \ {d} : Q[e] = R[e]
  BY <1>1 DEF Records
<1>4. \A e \in Device : /\ Len(R[e]) \in Nat
                        /\ \A i \in 1..Len(R[e]) : R[e][i].own \in Nat
  BY RecordParts DEF Records, SessionState
<1>5. \A key \in ks : key.chain \in Nat /\ key.chain < f
  BY DEF Key, KeyInv
<1>6. ASSUME NEW e \in Device, NEW i \in 1..Len(Q[e])
      PROVE  Behind(Q[e][i], ks, f + 1)
  <2>1. CASE e = d
    BY <1>2, <1>5, <2>1 DEF Behind, Prekey
  <2>2. CASE e # d
    <3>1. Behind(R[e][i], ks, f) /\ R[e][i].own \in Nat /\ Q[e][i] = R[e][i]
      BY <1>3, <1>4, <2>2 DEF KeyInv
    <3> QED
      BY <3>1 DEF Behind
  <2> QED
    BY <2>1, <2>2
<1>7. \A key \in ks : key.chain < f + 1
  BY <1>5
<1>8. \A a, b \in Device : \A i \in 1..Len(Q[a]), j \in 1..Len(Q[b]) :
        Q[a][i].own = Q[b][j].own => a = b /\ i = j
  <2> SUFFICES ASSUME NEW a \in Device, NEW b \in Device, NEW i \in 1..Len(Q[a]),
                      NEW j \in 1..Len(Q[b]), Q[a][i].own = Q[b][j].own
               PROVE  a = b /\ i = j
    OBVIOUS
  <2>1. \A e \in Device \ {d} : \A k \in 1..Len(Q[e]) : Q[e][k].own # f
    BY <1>3, <1>4 DEF KeyInv, Behind
  <2>2. CASE a = d
    <3>1. b = d
      BY <1>2, <2>1, <2>2
    <3> QED
      BY <1>2, <2>2, <3>1
  <2>3. CASE a # d
    <3>1. b # d
      BY <1>2, <2>1, <2>3
    <3> QED
      BY <1>3, <2>3, <3>1 DEF KeyInv
  <2> QED
    BY <2>2, <2>3
<1>9. KeyInv(Q, ks, f + 1)
  BY <1>6, <1>7, <1>8 DEF KeyInv
<1> QED
  BY <1>1, <1>9

(* d decrypts: its sessions send on the chains they had, but for one that may *)
(* have a new one                                                             *)
LEMMA DecryptKeys ==
  ASSUME NEW R \in Records, NEW ks \in SUBSET Key, NEW f \in Nat, f # 0, KeyInv(R, ks, f),
         NEW d \in Device, NEW e \in Envelopes, Decryptable(R[d], e)
  PROVE  KeyInv([R EXCEPT ![d] = Decrypted(R[d], e, f)], ks, f + 1)
<1>1. PICK Q : Q = [R EXCEPT ![d] = Decrypted(R[d], e, f)]
  OBVIOUS
<1>2. R[d] \in Record /\ Len(R[d]) \in Nat /\ Tried(R[d], e) \in Record
  BY RecordParts, TriedIs DEF Records
<1>3. PICK tried : tried = Tried(R[d], e)
  OBVIOUS
<1>4. tried \in Record /\ Len(tried) \in Nat /\ \A k \in 1..Len(tried) : tried[k] \in SessionState
  BY <1>2, <1>3, RecordParts
<1>5. PICK i \in 1..Len(tried) :
        /\ Opens(tried[i], e)
        /\ Len(Q[d]) = Len(tried) /\ Q[d][1] = Received(tried[i], e, f)
        /\ \A k \in 2..Len(Q[d]) : Q[d][k] = IF k <= i THEN tried[k - 1] ELSE tried[k]
  BY <1>1, <1>2, <1>3, DecryptedIs DEF Records
<1>6. \A c \in Device \ {d} : Q[c] = R[c]
  BY <1>1 DEF Records
<1>7. \A c \in Device : /\ Len(R[c]) \in Nat
                        /\ \A k \in 1..Len(R[c]) : R[c][k].own \in Nat
  BY RecordParts DEF Records, SessionState
<1>8. \A key \in ks : key.chain \in Nat /\ key.chain < f
  BY DEF Key, KeyInv
(* Where a session of Q[d] comes from *)
<1>9. \E from \in [1..Len(Q[d]) -> 0..Len(R[d])] :
        /\ \A k \in 1..Len(Q[d]) :
             \/ from[k] # 0 /\ Q[d][k].own = R[d][from[k]].own /\ Q[d][k].n = R[d][from[k]].n
             \/ k = 1 /\ from[k] = 0 /\ Q[d][k].own = f
        /\ \A k, l \in 1..Len(Q[d]) : from[k] = from[l] => k = l
  <2>1. CASE tried = R[d]
    <3>1. PICK from : from =
            [k \in 1..Len(Q[d]) |->
               IF k = 1 THEN IF Q[d][1].own = f THEN 0 ELSE i ELSE IF k <= i THEN k - 1 ELSE k]
      OBVIOUS
    <3>2. from \in [1..Len(Q[d]) -> 0..Len(R[d])]
      BY <1>4, <1>5, <2>1, <3>1
    <3>3. \/ Q[d][1].own = f
          \/ Q[d][1].own = R[d][i].own /\ Q[d][1].n = R[d][i].n
      BY <1>4, <1>5, <2>1, ReceivedIs
    <3>4. ASSUME NEW k \in 1..Len(Q[d])
          PROVE  \/ from[k] # 0 /\ Q[d][k].own = R[d][from[k]].own /\ Q[d][k].n = R[d][from[k]].n
                 \/ k = 1 /\ from[k] = 0 /\ Q[d][k].own = f
      <4>1. CASE k = 1
        BY <1>5, <3>1, <3>3, <4>1
      <4>2. CASE k # 1
        <5>1. k \in 2..Len(Q[d]) /\ from[k] = IF k <= i THEN k - 1 ELSE k
          BY <1>4, <1>5, <3>1, <4>2
        <5>2. Q[d][k] = R[d][from[k]] /\ from[k] # 0
          BY <1>5, <2>1, <5>1
        <5> QED
          BY <5>2
      <4> QED
        BY <4>1, <4>2
    <3>5. \A k, l \in 1..Len(Q[d]) : from[k] = from[l] => k = l
      BY <1>4, <1>5, <3>1
    <3> QED
      BY <3>2, <3>4, <3>5
  <2>2. CASE tried # R[d]
    <3>1. tried = <<Answer(e)>> \o R[d] /\ \A k \in 1..Len(R[d]) : R[d][k].sid # e.sid
      BY <1>2, <1>3, <2>2, TriedIs
    <3>2. /\ Len(tried) = Len(R[d]) + 1 /\ tried[1] = Answer(e)
          /\ \A k \in 1..Len(R[d]) : tried[k + 1] = R[d][k]
      BY <1>2, <3>1, AnswerIs, ConsType
    <3>3. i = 1
      <4>1. tried[i].sid = e.sid
        BY <1>5 DEF Opens
      <4>2. ASSUME i # 1 PROVE FALSE
        <5>1. i - 1 \in 1..Len(R[d]) /\ (i - 1) + 1 = i
          BY <1>2, <1>5, <3>2, <4>2
        <5> QED
          BY <3>1, <3>2, <4>1, <5>1
      <4> QED
        BY <4>2
    <3>4. Q[d][1].own = f
      <4>1. ~Follows(Answer(e), e)
        BY DEF Follows, Answer
      <4> QED
        BY <1>4, <1>5, <3>2, <3>3, <4>1, ReceivedIs
    <3>5. PICK from : from = [k \in 1..Len(Q[d]) |-> k - 1]
      OBVIOUS
    <3>6. from \in [1..Len(Q[d]) -> 0..Len(R[d])]
      BY <1>2, <1>5, <3>2, <3>5
    <3>7. ASSUME NEW k \in 1..Len(Q[d])
          PROVE  \/ from[k] # 0 /\ Q[d][k].own = R[d][from[k]].own /\ Q[d][k].n = R[d][from[k]].n
                 \/ k = 1 /\ from[k] = 0 /\ Q[d][k].own = f
      <4>1. CASE k = 1
        BY <3>4, <3>5, <4>1
      <4>2. CASE k # 1
        <5>1. k \in 2..Len(Q[d]) /\ k - 1 \in 1..Len(R[d]) /\ (k - 1) + 1 = k
          BY <1>2, <1>5, <3>2, <4>2
        <5>2. Q[d][k] = tried[k]
          BY <1>5, <3>3, <5>1
        <5>3. Q[d][k] = R[d][k - 1] /\ from[k] = k - 1
          BY <3>2, <3>5, <5>1, <5>2
        <5> QED
          BY <5>1, <5>3
      <4> QED
        BY <4>1, <4>2
    <3>8. \A k, l \in 1..Len(Q[d]) : from[k] = from[l] => k = l
      BY <1>4, <1>5, <3>5
    <3> QED
      BY <3>6, <3>7, <3>8
  <2> QED
    BY <2>1, <2>2
<1>10. PICK from \in [1..Len(Q[d]) -> 0..Len(R[d])] :
        /\ \A k \in 1..Len(Q[d]) :
             \/ from[k] # 0 /\ Q[d][k].own = R[d][from[k]].own /\ Q[d][k].n = R[d][from[k]].n
             \/ k = 1 /\ from[k] = 0 /\ Q[d][k].own = f
        /\ \A k, l \in 1..Len(Q[d]) : from[k] = from[l] => k = l
  BY <1>9
<1>11. \A k \in 1..Len(Q[d]) : from[k] # 0 => from[k] \in 1..Len(R[d])
  BY <1>2, <1>10
<1>12. ASSUME NEW c \in Device, NEW k \in 1..Len(Q[c])
       PROVE  Behind(Q[c][k], ks, f + 1)
  <2>1. CASE c = d
    <3>1. CASE Q[d][k].own = f
      BY <1>8, <2>1, <3>1 DEF Behind, Prekey
    <3>2. CASE /\ from[k] # 0 /\ Q[d][k].own = R[d][from[k]].own
               /\ Q[d][k].n = R[d][from[k]].n
      <4>1. Behind(R[d][from[k]], ks, f) /\ R[d][from[k]].own \in Nat
        BY <1>7, <1>11, <2>1, <3>2 DEF KeyInv
      <4> QED
        BY <2>1, <3>2, <4>1 DEF Behind
    <3> QED
      BY <1>10, <2>1, <3>1, <3>2
  <2>2. CASE c # d
    <3>1. Behind(R[c][k], ks, f) /\ R[c][k].own \in Nat /\ Q[c][k] = R[c][k]
      BY <1>6, <1>7, <2>2 DEF KeyInv
    <3> QED
      BY <3>1 DEF Behind
  <2> QED
    BY <2>1, <2>2
<1>13. \A key \in ks : key.chain < f + 1
  BY <1>8
<1>14. ASSUME NEW a \in Device, NEW b \in Device, NEW k \in 1..Len(Q[a]),
              NEW l \in 1..Len(Q[b]), Q[a][k].own = Q[b][l].own
       PROVE  a = b /\ k = l
  <2>1. \A c \in Device : \A m \in 1..Len(R[c]) : R[c][m].own # f
    BY <1>7 DEF KeyInv, Behind
  <2>2. CASE a = d /\ b = d
    <3>1. from[k] = from[l]
      <4>1. CASE from[k] = 0
        BY <1>10, <1>11, <1>14, <2>1, <2>2, <4>1
      <4>2. CASE from[k] # 0
        <5>1. from[l] # 0
          BY <1>10, <1>11, <1>14, <2>1, <2>2, <4>2
        <5>2. R[d][from[k]].own = R[d][from[l]].own
          BY <1>10, <1>14, <2>2, <4>2, <5>1
        <5> QED
          BY <1>11, <2>2, <4>2, <5>1, <5>2 DEF KeyInv
      <4> QED
        BY <4>1, <4>2
    <3> QED
      BY <1>10, <2>2, <3>1
  <2>3. CASE a = d /\ b # d
    <3>1. Q[b] = R[b] /\ Q[d][k].own # f
      BY <1>6, <1>14, <2>1, <2>3
    <3>2. from[k] # 0 /\ Q[d][k].own = R[d][from[k]].own
      BY <1>10, <2>3, <3>1
    <3> QED
      BY <1>11, <1>14, <2>3, <3>1, <3>2 DEF KeyInv
  <2>4. CASE a # d /\ b = d
    <3>1. Q[a] = R[a] /\ Q[d][l].own # f
      BY <1>6, <1>14, <2>1, <2>4
    <3>2. from[l] # 0 /\ Q[d][l].own = R[d][from[l]].own
      BY <1>10, <2>4, <3>1
    <3> QED
      BY <1>11, <1>14, <2>4, <3>1, <3>2 DEF KeyInv
  <2>5. CASE a # d /\ b # d
    <3>1. Q[a] = R[a] /\ Q[b] = R[b]
      BY <1>6, <2>5
    <3>2. k \in 1..Len(R[a]) /\ l \in 1..Len(R[b]) /\ R[a][k].own = R[b][l].own
      BY <1>14, <3>1
    <3> QED
      BY <3>2 DEF KeyInv
  <2> QED
    BY <2>2, <2>3, <2>4, <2>5
<1>15. KeyInv(Q, ks, f + 1)
  BY <1>12, <1>13, <1>14 DEF KeyInv
<1> QED
  BY <1>1, <1>15

-----------------------------------------------------------------------------
(* Types, and what an activation has at each of its steps *)

Uses(a) == a.step \in {"send", "reply", "persist"}

Shape(a) ==
  /\ a.step # "none" => a.store \in Store /\ a.op \in {"send", "poll"}
  /\ a.step = "send" => a.batch # <<>>
  /\ a.step = "fetch" => a.op = "poll"
  /\ a.op = "poll" /\ a.step \in {"check", "load", "import"} => a.batch # <<>>

Works ==
  \A d \in Device, t \in Task :
    Shape(act[d][t]) /\ (Uses(act[d][t]) => In(d, t) # NoSession)

TypeInv == TypeOK /\ Works

LEMMA PeerType == \A d \in Device : Peer(d) \in Device
  BY SessionAssumption DEF Peer

LEMMA IdleIs ==
  /\ Idle \in Activation /\ Idle.step = "none" /\ Idle.op = "none" /\ Idle.store = None
  /\ Idle.batch = <<>> /\ Shape(Idle) /\ ~Uses(Idle)
  BY NoSessionType DEF Idle, Activation, Shape, Uses

(* One activation changes, and no store loses its session *)
LEMMA OneChanges ==
  ASSUME TypeInv, NEW d \in Device, NEW t \in Task, NEW a \in Activation, Shape(a),
         act'[d][t] = a,
         \A e \in Device, u \in Task : <<e, u>> # <<d, t>> => act'[e][u] = act[e][u],
         \A e \in Device, q \in Store : store[e][q] # NoSession => store'[e][q] # NoSession,
         Uses(a) => store'[d][a.store] # NoSession
  PROVE  Works'
<1> SUFFICES ASSUME NEW e \in Device, NEW u \in Task
             PROVE  /\ Shape(act'[e][u])
                    /\ Uses(act'[e][u]) => store'[e][act'[e][u].store] # NoSession
  BY DEF Works, In
<1>1. CASE <<e, u>> = <<d, t>>
  BY <1>1
<1>2. CASE <<e, u>> # <<d, t>>
  <2>1. act'[e][u] = act[e][u] /\ Shape(act[e][u])
    BY <1>2 DEF TypeInv, Works
  <2>2. ASSUME Uses(act[e][u]) PROVE store'[e][act[e][u].store] # NoSession
    <3>1. act[e][u].store \in Store /\ store[e][act[e][u].store] # NoSession
      BY <2>1, <2>2 DEF Uses, Shape, TypeInv, Works, In
    <3> QED
      BY <3>1
  <2> QED
    BY <2>1, <2>2
<1> QED
  BY <1>1, <1>2

(* The parts of an activation *)
LEMMA ActParts ==
  ASSUME TypeInv, NEW d \in Device, NEW t \in Task
  PROVE  /\ act[d][t] \in Activation /\ Shape(act[d][t])
         /\ act[d][t].batch \in Seq(Envelopes) /\ act[d][t].bytes \in Record
         /\ act[d][t].store \in Store => In(d, t) \in Record
         /\ act[d][t].batch # <<>> =>
              Head(act[d][t].batch) \in Envelopes /\ Tail(act[d][t].batch) \in Seq(Envelopes)
<1>1. act[d][t] \in Activation /\ Shape(act[d][t]) /\ store \in [Device -> [Store -> Record]]
  BY DEF TypeInv, TypeOK, Works
<1>2. act[d][t].batch \in Seq(Envelopes) /\ act[d][t].bytes \in Record
  BY <1>1 DEF Activation
<1> QED
  BY <1>1, <1>2 DEF In

(* What a persisted session is followed by *)
LEMMA AfterPersistIs ==
  ASSUME NEW b \in Activation, Shape(b), b.step = "persist", NEW a, a = AfterPersist(b)
  PROVE  /\ a \in Activation /\ Shape(a)
         /\ \/ a = Idle /\ b.batch = <<>>
            \/ /\ a.step \in {"check", "reply", "persist"}
               /\ a.store = b.store /\ a.op = b.op /\ a.batch = b.batch
<1>1. b.store \in Store /\ b.op \in {"send", "poll"}
  BY DEF Shape
<1>2. CASE b.receipts > 0
  <2>1. PICK step : step = IF b.receipts > 1 THEN "reply" ELSE "persist"
    OBVIOUS
  <2>2. PICK n : n = b.receipts - 1
    OBVIOUS
  <2>3. a = [b EXCEPT !.receipts = n, !.step = step]
    BY <1>2, <2>1, <2>2 DEF AfterPersist
  <2>4. n \in 0..2
    BY <1>2, <2>2 DEF Activation
  <2>5. a \in Activation /\ a.step = step /\ a.store = b.store /\ a.op = b.op /\ a.batch = b.batch
    BY <2>1, <2>3, <2>4 DEF Activation
  <2> QED
    BY <1>1, <2>1, <2>5 DEF Shape
<1>3. CASE ~(b.receipts > 0) /\ b.batch = <<>>
  BY <1>3, IdleIs DEF AfterPersist
<1>4. CASE ~(b.receipts > 0) /\ b.batch # <<>>
  <2>1. a = [b EXCEPT !.step = "check"]
    BY <1>4 DEF AfterPersist
  <2>2. a \in Activation /\ a.step = "check" /\ a.store = b.store /\ a.op = b.op
        /\ a.batch = b.batch
    BY <2>1 DEF Activation
  <2> QED
    BY <1>1, <1>4, <2>2 DEF Shape
<1> QED
  BY <1>2, <1>3, <1>4

LEMMA FlagTypes ==
  TypeOK => /\ reused \in BOOLEAN /\ rejected \in BOOLEAN /\ raced \in BOOLEAN
            /\ parted \in BOOLEAN /\ cut \in BOOLEAN
  BY DEF TypeOK

(* Encrypting takes an activation to its step "send" *)
Encrypts(d, t, r, f, a) ==
  /\ a \in Activation /\ Shape(a) /\ a.step = "send" /\ a.store = act[d][t].store
  /\ a.op = act[d][t].op /\ a.batch = <<Envelope(r)>> \o act[d][t].batch
  /\ act[d][t].store \in Store
  /\ act' = [act EXCEPT ![d][t] = a]
  /\ store' = [store EXCEPT ![d][act[d][t].store] = Encrypted(r)]
  /\ Encrypted(r) \in Record /\ Encrypted(r) # NoSession
  /\ fresh' = f /\ sends' \in 0..MaxSends /\ keys' \subseteq Key
  /\ keys' = keys \cup {[chain |-> Envelope(r).chain, n |-> Envelope(r).n]}
  /\ reused' = (reused \/ [chain |-> Envelope(r).chain, n |-> Envelope(r).n] \in keys)
  /\ reused' \in BOOLEAN /\ rejected' = rejected

LEMMA EncryptEffect ==
  ASSUME TypeInv, NEW d \in Device, NEW t \in Task, act[d][t].step # "none",
         NEW r \in Record, r # NoSession, NEW f \in Nat, Encrypt(d, t, r, f)
  PROVE  \E a : Encrypts(d, t, r, f, a)
<1>1. PICK e : e = Envelope(r)
  OBVIOUS
<1>2. e \in Envelopes /\ [chain |-> e.chain, n |-> e.n] \in Key
  <2>1. e \in Envelopes
    BY <1>1, EnvelopeType
  <2> QED
    BY <2>1 DEF Envelopes, Key
<1>3. PICK b : b = act[d][t]
  OBVIOUS
<1>4. PICK batch : batch = <<e>> \o b.batch
  OBVIOUS
<1>5. batch \in Seq(Envelopes) /\ batch # <<>>
  <2>1. PICK old : old = b.batch /\ old \in Seq(Envelopes)
    BY <1>3, ActParts
  <2>2. <<e>> \in Seq(Envelopes) /\ Len(<<e>>) = 1
    BY <1>2
  <2>3. batch \in Seq(Envelopes) /\ Len(batch) = 1 + Len(old)
    BY <1>4, <2>1, <2>2, ConcatProperties
  <2>4. Len(old) \in Nat
    BY <2>1
  <2> QED
    BY <2>3, <2>4
<1>6. PICK a : a = [b EXCEPT !.step = "send", !.bytes = NoSession, !.batch = batch]
  OBVIOUS
<1>7. b \in Activation /\ b.store \in Store /\ b.op \in {"send", "poll"}
  BY <1>3, ActParts DEF Shape
<1>8. /\ a \in Activation /\ a.op = b.op /\ a.step = "send"
      /\ a.store = b.store /\ a.bytes = NoSession /\ a.batch = batch
  BY <1>5, <1>6, <1>7, NoSessionType DEF Activation
<1>9. Shape(a)
  BY <1>5, <1>7, <1>8 DEF Shape
<1>10. act' = [act EXCEPT ![d][t] = a]
  <2>1. act' = [act EXCEPT ![d][t] =
          [b EXCEPT !.step = "send", !.bytes = NoSession, !.batch = <<e>> \o b.batch]]
    <3>1. act' = [act EXCEPT ![d][t] =
            [act[d][t] EXCEPT !.step = "send", !.bytes = NoSession,
                              !.batch = <<Envelope(r)>> \o act[d][t].batch]]
      BY DEF Encrypt
    <3> QED
      BY <1>1, <1>3, <3>1
  <2> QED
    BY <1>4, <1>6, <2>1
<1>11. /\ store' = [store EXCEPT ![d][act[d][t].store] = Encrypted(r)] /\ fresh' = f
       /\ keys' = keys \cup {[chain |-> e.chain, n |-> e.n]}
       /\ reused' = (reused \/ [chain |-> e.chain, n |-> e.n] \in keys) /\ rejected' = rejected
  BY <1>1 DEF Encrypt, Keep
<1>12. sends' \in 0..MaxSends
  BY SessionAssumption DEF Encrypt, TypeInv, TypeOK
<1>13. keys' \subseteq Key
  BY <1>2, <1>11 DEF TypeInv, TypeOK
<1>14. reused' \in BOOLEAN
  BY <1>11, FlagTypes DEF TypeInv
<1>15. Encrypted(r) \in Record /\ Encrypted(r) # NoSession
  BY EncryptedIs
<1>16. Encrypts(d, t, r, f, a)
  BY <1>1, <1>3, <1>4, <1>7, <1>8, <1>9, <1>10, <1>11, <1>12, <1>13, <1>14, <1>15 DEF Encrypts
<1> QED
  BY <1>16

(* What follows a restored session, by its outcome *)
Decrypts(d, t, r, a) ==
  /\ a \in Activation /\ Shape(a) /\ a.step \in {"persist", "reply"}
  /\ a.store = act[d][t].store /\ act[d][t].store \in Store
  /\ act[d][t].op = "poll" /\ act[d][t].batch # <<>>
  /\ a.op = "poll" /\ a.batch = Tail(act[d][t].batch)
  /\ act' = [act EXCEPT ![d][t] = a]
  /\ \E e \in Envelopes :
       /\ e = Head(act[d][t].batch) /\ Decryptable(r, e)
       /\ store' = [store EXCEPT ![d][act[d][t].store] = Decrypted(r, e, fresh)]
  /\ fresh' = fresh + 1 /\ UNCHANGED <<sends, keys, reused, rejected>>

Rejects(d, t, r) ==
  /\ act[d][t].op = "poll" /\ act[d][t].batch # <<>>
  /\ ~Decryptable(r, Head(act[d][t].batch))
  /\ act[d][t].store \in Store /\ act' = [act EXCEPT ![d][t] = Idle]
  /\ store' = [store EXCEPT ![d][act[d][t].store] = r]
  /\ rejected' = TRUE /\ UNCHANGED <<fresh, sends, keys, reused>>

Goes(d, t, a) ==
  /\ a \in Activation /\ Shape(a) /\ a.store = act[d][t].store
  /\ a.op = act[d][t].op /\ a.batch = act[d][t].batch
  /\ act[d][t].store \in Store /\ act' = [act EXCEPT ![d][t] = a]
  /\ UNCHANGED <<store, fresh, sends, keys, reused, rejected>>

LEMMA GotoEffect ==
  ASSUME TypeInv, NEW d \in Device, NEW t \in Task,
         act[d][t].step \in {"check", "load", "import"},
         NEW step \in {"load", "bundle"}, Goto(d, t, step),
         UNCHANGED <<store, fresh, sends, keys, reused, rejected>>
  PROVE  \E a : Goes(d, t, a) /\ a.step = step
<1>1. PICK b : b = act[d][t]
  OBVIOUS
<1>2. b \in Activation /\ b.store \in Store /\ Shape(b)
  BY <1>1, ActParts DEF Shape
<1>3. PICK a : a = [b EXCEPT !.step = step]
  OBVIOUS
<1>4. a \in Activation /\ a.step = step /\ a.store = b.store /\ a.op = b.op /\ a.batch = b.batch
  BY <1>2, <1>3 DEF Activation
<1>5. act' = [act EXCEPT ![d][t] = a]
  BY <1>1, <1>3 DEF Goto
<1>6. Shape(a)
  BY <1>1, <1>2, <1>4 DEF Shape
<1>7. Goes(d, t, a)
  BY <1>1, <1>2, <1>4, <1>5, <1>6 DEF Goes
<1> QED
  BY <1>4, <1>7

LEMMA RestoredEffect ==
  ASSUME TypeInv, NEW d \in Device, NEW t \in Task, act[d][t].step \in {"check", "import"},
         NEW r \in Record, Restored(d, t, r)
  PROVE  \/ r # NoSession /\ Encrypt(d, t, r, fresh) /\ \E a : Encrypts(d, t, r, fresh, a)
         \/ \E a : Decrypts(d, t, r, a)
         \/ Rejects(d, t, r)
         \/ r = NoSession /\ \E a : Goes(d, t, a) /\ a.step = "bundle"
<1>1. PICK b : b = act[d][t]
  OBVIOUS
<1>2. b \in Activation /\ b.store \in Store /\ b.op \in {"send", "poll"}
  BY <1>1, ActParts DEF Shape
<1>3. CASE r # NoSession /\ Encrypt(d, t, r, fresh)
  <2>1. fresh \in Nat /\ act[d][t].step # "none"
    BY DEF TypeInv, TypeOK
  <2> QED
    BY <1>3, <2>1, EncryptEffect
<1>4. CASE /\ r = NoSession /\ Goto(d, t, "bundle")
           /\ UNCHANGED <<store, fresh, sends, keys, reused, rejected>>
  BY <1>4, GotoEffect
<1>5. CASE b.op = "poll" /\ Decrypt(d, t, r)
  <2>1. PICK e : e = Head(b.batch)
    OBVIOUS
  <2>2. PICK rest : rest = Tail(b.batch)
    OBVIOUS
  <2>3. e \in Envelopes /\ rest \in Seq(Envelopes)
    BY <1>1, <1>5, <2>1, <2>2, ActParts DEF Shape
  <2>4. CASE ~Decryptable(r, e)
    <3>1. b.batch # <<>> /\ b.op = "poll"
      BY <1>1, <1>5, ActParts DEF Shape
    <3> QED
      BY <1>1, <1>2, <1>5, <2>1, <2>4, <3>1 DEF Decrypt, Keep, Rejects
  <2>5. CASE Decryptable(r, e)
    <3>1. /\ \E n \in {0, 2} :
               act' = [act EXCEPT ![d][t] =
                 [b EXCEPT !.step = IF n = 0 THEN "persist" ELSE "reply", !.receipts = n,
                           !.bytes = NoSession, !.batch = Tail(b.batch)]]
          /\ store' = [store EXCEPT ![d][act[d][t].store] = Decrypted(r, e, fresh)]
          /\ fresh' = fresh + 1 /\ UNCHANGED <<sends, keys, reused, rejected>>
      <4>1. act[d][t].op = "poll" /\ Decryptable(r, Head(act[d][t].batch))
        BY <1>1, <1>5, <2>1, <2>5
      <4>2. \E n \in {0, 2} :
              act' = [act EXCEPT ![d][t] =
                [act[d][t] EXCEPT !.step = IF n = 0 THEN "persist" ELSE "reply", !.receipts = n,
                                  !.bytes = NoSession, !.batch = Tail(act[d][t].batch)]]
        BY <1>5, <4>1 DEF Decrypt
      <4>3. store' = [store EXCEPT ![d][act[d][t].store] = Decrypted(r, e, fresh)]
        BY <1>1, <1>5, <2>1, <4>1 DEF Decrypt, Keep
      <4>4. fresh' = fresh + 1 /\ UNCHANGED <<sends, keys, reused, rejected>>
        BY <1>5, <4>1 DEF Decrypt
      <4> QED
        BY <1>1, <4>2, <4>3, <4>4
    <3>2. PICK n \in {0, 2} :
            act' = [act EXCEPT ![d][t] =
              [b EXCEPT !.step = IF n = 0 THEN "persist" ELSE "reply", !.receipts = n,
                        !.bytes = NoSession, !.batch = Tail(b.batch)]]
      BY <3>1
    <3>3. PICK a : a = [b EXCEPT !.step = IF n = 0 THEN "persist" ELSE "reply",
                                 !.receipts = n, !.bytes = NoSession, !.batch = rest]
      OBVIOUS
    <3>4. /\ a \in Activation /\ a.op = b.op /\ a.step \in {"persist", "reply"}
          /\ a.store = b.store /\ a.batch = rest
      <4>1. PICK step \in {"persist", "reply"} : step = IF n = 0 THEN "persist" ELSE "reply"
        OBVIOUS
      <4>2. a = [b EXCEPT !.step = step, !.receipts = n, !.bytes = NoSession, !.batch = rest]
        BY <3>3, <4>1
      <4>3. n \in 0..2
        BY <3>2
      <4> QED
        BY <1>2, <2>3, <4>1, <4>2, <4>3, NoSessionType DEF Activation
    <3>5. Shape(a)
      BY <1>2, <3>4 DEF Shape
    <3>6. act' = [act EXCEPT ![d][t] = a]
      BY <2>2, <3>2, <3>3
    <3>7. Decrypts(d, t, r, a)
      <4>1. b.batch # <<>> /\ b.op = "poll"
        BY <1>1, <1>5, ActParts DEF Shape
      <4>2. /\ e = Head(act[d][t].batch) /\ Decryptable(r, e)
            /\ store' = [store EXCEPT ![d][act[d][t].store] = Decrypted(r, e, fresh)]
        BY <1>1, <2>1, <2>5, <3>1
      <4> QED
        BY <1>1, <1>2, <2>2, <2>3, <3>1, <3>2, <3>4, <3>5, <3>6, <4>1, <4>2 DEF Decrypts
    <3> QED
      BY <3>7
  <2> QED
    BY <2>4, <2>5
<1> QED
  BY <1>1, <1>3, <1>4, <1>5 DEF Restored

-----------------------------------------------------------------------------
(* While nothing is restored twice, a page has one store and no activation is *)
(* cut short: what the store of a page has, or will have when it is restored, *)
(* is what it has on disk, but while an activation has yet to persist it.     *)

S(d) == store[d][current[d]]
Rec == [d \in Device |-> IF S(d) = NoSession THEN disk[d] ELSE S(d)]

OneStore ==
  \A d \in Device, t \in Task : act[d][t].step # "none" => act[d][t].store = current[d]

OneRestores ==
  \A d \in Device, t \in Task : Restoring(d, t) =>
    S(d) = NoSession /\ \A u \in Task : Restoring(d, u) => u = t

Loaded == \A d \in Device, t \in Task : act[d][t].step = "import" => act[d][t].bytes = disk[d]

Persisted ==
  \A d \in Device :
    (S(d) # NoSession /\ \A t \in Task : ~Uses(act[d][t])) => disk[d] = S(d)

Calm ==
  /\ OneStore /\ OneRestores /\ Loaded /\ Persisted
  /\ KeyInv(Rec, keys, fresh) /\ ~reused /\ fresh # 0

Inv == TypeInv /\ (Undisturbed => Calm)

LEMMA RecType ==
  TypeOK => /\ Rec \in Records
            /\ \A d \in Device : Rec[d] = IF S(d) = NoSession THEN disk[d] ELSE S(d)
  BY DEF Rec, TypeOK, Records, S

(* What an activation becomes, and what its store, while the disk stays *)
Fits(d, t, a, r) ==
  /\ a.step # "none" => a.store = current[d]
  /\ a.step \in {"load", "import", "bundle"} => r = NoSession
  /\ r # NoSession \/ a.step \in {"load", "import", "bundle"} =>
       \A u \in Task \ {t} : ~Restoring(d, u)
  /\ a.step = "import" => a.bytes = disk[d]
  /\ (r # NoSession /\ ~Uses(a) /\ \A u \in Task \ {t} : ~Uses(act[d][u])) => disk[d] = r

LEMMA OneCalm ==
  ASSUME TypeInv, Calm, NEW d \in Device, NEW t \in Task, NEW a, NEW r,
         UNCHANGED <<disk, current>>, Fits(d, t, a, r),
         act'[d][t] = a,
         \A e \in Device, u \in Task : <<e, u>> # <<d, t>> => act'[e][u] = act[e][u],
         store'[d][current[d]] = r,
         \A e \in Device \ {d} : store'[e] = store[e],
         KeyInv([Rec EXCEPT ![d] = IF r = NoSession THEN disk[d] ELSE r], keys', fresh'),
         ~reused', fresh' # 0
  PROVE  Calm'
<1>1. S(d)' = r /\ \A e \in Device \ {d} : S(e)' = S(e)
  BY DEF S
<1>2. Rec' = [Rec EXCEPT ![d] = IF r = NoSession THEN disk[d] ELSE r]
  BY <1>1 DEF Rec
<1>3. OneStore'
  BY DEF OneStore, Calm, Fits
<1>4. OneRestores'
  <2> SUFFICES ASSUME NEW e \in Device, NEW u \in Task, Restoring(e, u)'
               PROVE  S(e)' = NoSession /\ \A v \in Task : Restoring(e, v)' => v = u
    BY DEF OneRestores
  <2>1. CASE e # d
    <3>1. \A v \in Task : Restoring(e, v)' <=> Restoring(e, v)
      BY <2>1 DEF Restoring
    <3> QED
      BY <1>1, <2>1, <3>1 DEF Calm, OneRestores
  <2>2. CASE e = d /\ u = t
    <3>1. r = NoSession /\ \A v \in Task \ {t} : ~Restoring(d, v)
      BY <2>2 DEF Restoring, Fits
    <3>2. \A v \in Task \ {t} : Restoring(d, v)' <=> Restoring(d, v)
      BY DEF Restoring
    <3> QED
      BY <1>1, <2>2, <3>1, <3>2
  <2>3. CASE e = d /\ u # t
    <3>1. Restoring(d, u)
      BY <2>3 DEF Restoring
    <3>2. r = NoSession /\ a.step \notin {"load", "import", "bundle"}
      BY <2>3, <3>1 DEF Fits
    <3>3. ~Restoring(d, t)'
      BY <3>2 DEF Restoring
    <3>4. \A v \in Task \ {t} : Restoring(d, v)' <=> Restoring(d, v)
      BY DEF Restoring
    <3> QED
      BY <1>1, <2>3, <3>1, <3>2, <3>3, <3>4 DEF Calm, OneRestores
  <2> QED
    BY <2>1, <2>2, <2>3
<1>5. Loaded'
  BY DEF Loaded, Calm, Fits
<1>6. Persisted'
  <2> SUFFICES ASSUME NEW e \in Device, S(e)' # NoSession, \A u \in Task : ~Uses(act'[e][u])
               PROVE  disk[e] = S(e)'
    BY DEF Persisted
  <2>1. CASE e # d
    BY <1>1, <2>1 DEF Calm, Persisted
  <2>2. CASE e = d
    <3>1. ~Uses(a) /\ \A u \in Task \ {t} : ~Uses(act[d][u])
      BY <2>2
    <3> QED
      BY <1>1, <2>2, <3>1 DEF Fits
  <2> QED
    BY <2>1, <2>2
<1> QED
  BY <1>2, <1>3, <1>4, <1>5, <1>6 DEF Calm

(* Nothing but an activation changes *)
LEMMA StoreKept ==
  ASSUME TypeInv, Calm, NEW d \in Device, NEW t \in Task, NEW a,
         UNCHANGED <<disk, store, current, keys, reused, fresh>>, Fits(d, t, a, S(d)),
         act'[d][t] = a,
         \A e \in Device, u \in Task : <<e, u>> # <<d, t>> => act'[e][u] = act[e][u]
  PROVE  Calm'
<1>1. Rec \in Records /\ Rec[d] = IF S(d) = NoSession THEN disk[d] ELSE S(d)
  BY RecType DEF TypeInv
<1>2. [Rec EXCEPT ![d] = IF S(d) = NoSession THEN disk[d] ELSE S(d)] = Rec
  BY <1>1 DEF Records
<1> QED
  BY <1>2, OneCalm DEF S, Calm

(* Encrypting with what the page has, or with a session of its own making *)
LEMMA EncryptCalm ==
  ASSUME TypeInv, Calm, NEW d \in Device, NEW t \in Task, act[d][t].step # "none",
         NEW r \in Record, r # NoSession, NEW f \in Nat, NEW a,
         Encrypts(d, t, r, f, a), UNCHANGED <<disk, current>>,
         \/ r = Rec[d] /\ f = fresh
         \/ r = Established(NoSession, fresh) /\ f = fresh + 1,
         \A u \in Task \ {t} : ~Restoring(d, u)
  PROVE  Calm'
<1>1. Rec \in Records /\ KeyInv(Rec, keys, fresh) /\ fresh \in Nat /\ fresh # 0
      /\ keys \in SUBSET Key
  BY RecType DEF TypeInv, TypeOK, Calm
<1>2. PICK R : R = [Rec EXCEPT ![d] = r]
  OBVIOUS
<1>3. R \in Records /\ R[d] = r /\ f # 0 /\ KeyInv(R, keys, f)
  <2>1. CASE r = Rec[d] /\ f = fresh
    <3>1. R = Rec
      BY <1>1, <1>2, <2>1 DEF Records
    <3> QED
      BY <1>1, <2>1, <3>1
  <2>2. CASE r = Established(NoSession, fresh) /\ f = fresh + 1
    <3>1. KeyInv(R, keys, f)
      BY <1>1, <1>2, <2>2, EstablishKeys
    <3>2. R \in Records /\ R[d] = r /\ f # 0
      BY <1>1, <1>2, <2>2 DEF Records
    <3> QED
      BY <3>1, <3>2
  <2> QED
    BY <2>1, <2>2
<1>4. PICK key : key = [chain |-> Envelope(r).chain, n |-> Envelope(r).n]
  OBVIOUS
<1>5. key \notin keys /\ KeyInv([R EXCEPT ![d] = Encrypted(r)], keys \cup {key}, f)
  <2>1. key = [chain |-> Envelope(R[d]).chain, n |-> Envelope(R[d]).n] /\ R[d] # NoSession
    BY <1>3, <1>4
  <2>2. f \in Nat /\ keys \in SUBSET Key
    BY <1>1
  <2>3. key \notin keys /\ KeyInv([R EXCEPT ![d] = Encrypted(R[d])], keys \cup {key}, f)
    BY <1>3, <2>1, <2>2, EncryptKeys
  <2> QED
    BY <1>3, <2>3
<1>6. [R EXCEPT ![d] = Encrypted(r)] = [Rec EXCEPT ![d] = Encrypted(r)]
  BY <1>1, <1>2 DEF Records
<1>7. PICK s \in Store : s = act[d][t].store /\ s = current[d]
  BY DEF Encrypts, Calm, OneStore
<1>8. /\ store' = [store EXCEPT ![d][s] = Encrypted(r)] /\ act' = [act EXCEPT ![d][t] = a]
      /\ Encrypted(r) \in Record /\ Encrypted(r) # NoSession /\ fresh' = f
      /\ keys' = keys \cup {key} /\ reused' = (reused \/ key \in keys)
      /\ a.step = "send" /\ a.store = s
  BY <1>4, <1>7 DEF Encrypts
<1>9. ~reused'
  BY <1>5, <1>8 DEF Calm
<1>10. /\ store'[d][current[d]] = Encrypted(r)
       /\ \A e \in Device \ {d} : store'[e] = store[e]
  BY <1>7, <1>8 DEF TypeInv, TypeOK
<1>11. /\ act'[d][t] = a
       /\ \A e \in Device, u \in Task : <<e, u>> # <<d, t>> => act'[e][u] = act[e][u]
  BY <1>8 DEF TypeInv, TypeOK
<1>12. Fits(d, t, a, Encrypted(r))
  BY <1>7, <1>8 DEF Fits, Uses
<1>13. KeyInv([Rec EXCEPT ![d] = IF Encrypted(r) = NoSession THEN disk[d] ELSE Encrypted(r)],
              keys', fresh')
  BY <1>5, <1>6, <1>8
<1>14. fresh' # 0
  BY <1>3, <1>8
<1> QED
  BY <1>9, <1>10, <1>11, <1>12, <1>13, <1>14, OneCalm

LEMMA RestoredCalm ==
  ASSUME TypeInv, Calm, NEW d \in Device, NEW t \in Task,
         act[d][t].step \in {"check", "import"}, NEW r \in Record, r = Rec[d],
         Restored(d, t, r), UNCHANGED <<disk, current>>,
         \A u \in Task \ {t} : ~Restoring(d, u)
  PROVE  Calm'
<1>1. Rec \in Records /\ Rec[d] = (IF S(d) = NoSession THEN disk[d] ELSE S(d))
      /\ KeyInv(Rec, keys, fresh) /\ fresh \in Nat /\ fresh # 0 /\ keys \in SUBSET Key
  BY RecType DEF TypeInv, TypeOK, Calm
<1>2. ~Uses(act[d][t])
  BY DEF Uses
<1>3. CASE r # NoSession /\ \E a : Encrypts(d, t, r, fresh, a)
  <2>1. PICK a : Encrypts(d, t, r, fresh, a)
    BY <1>3
  <2>2. act[d][t].step # "none"
    OBVIOUS
  <2> QED
    BY <1>1, <1>3, <2>1, <2>2, EncryptCalm
<1>4. CASE \E a : Decrypts(d, t, r, a)
  <2>1. PICK a : Decrypts(d, t, r, a)
    BY <1>4
  <2>2. PICK s \in Store : s = act[d][t].store /\ s = current[d]
    BY <2>1 DEF Decrypts, Calm, OneStore
  <2>3. PICK e \in Envelopes :
          /\ Decryptable(r, e) /\ store' = [store EXCEPT ![d][s] = Decrypted(r, e, fresh)]
    BY <2>1, <2>2 DEF Decrypts
  <2>4. PICK new : new = Decrypted(r, e, fresh)
    OBVIOUS
  <2>5. new \in Record /\ new # NoSession
    BY <1>1, <2>3, <2>4, DecryptedIs
  <2>6. KeyInv([Rec EXCEPT ![d] = new], keys, fresh + 1)
    BY <1>1, <2>3, <2>4, DecryptKeys
  <2>7. /\ a.step \in {"persist", "reply"} /\ a.store = s /\ act' = [act EXCEPT ![d][t] = a]
        /\ fresh' = fresh + 1 /\ keys' = keys /\ reused' = reused
    BY <2>1, <2>2 DEF Decrypts
  <2>8. /\ store'[d][current[d]] = new
        /\ \A c \in Device \ {d} : store'[c] = store[c]
    BY <2>2, <2>3, <2>4, <2>5 DEF TypeInv, TypeOK
  <2>9. /\ act'[d][t] = a
        /\ \A c \in Device, u \in Task : <<c, u>> # <<d, t>> => act'[c][u] = act[c][u]
    BY <2>7 DEF TypeInv, TypeOK
  <2>10. Fits(d, t, a, new)
    BY <2>2, <2>7 DEF Fits, Uses
  <2>11. KeyInv([Rec EXCEPT ![d] = IF new = NoSession THEN disk[d] ELSE new], keys', fresh')
    BY <2>5, <2>6, <2>7
  <2>12. fresh' # 0 /\ ~reused'
    BY <1>1, <2>7 DEF Calm
  <2> QED
    BY <2>8, <2>9, <2>10, <2>11, <2>12, OneCalm
<1>5. CASE Rejects(d, t, r)
  <2>1. PICK s \in Store : s = act[d][t].store /\ s = current[d]
    BY <1>5 DEF Rejects, Calm, OneStore
  <2>2. /\ store' = [store EXCEPT ![d][s] = r] /\ act' = [act EXCEPT ![d][t] = Idle]
        /\ fresh' = fresh /\ keys' = keys /\ reused' = reused
    BY <1>5, <2>1 DEF Rejects
  <2>3. store'[d][current[d]] = r /\ \A c \in Device \ {d} : store'[c] = store[c]
    BY <2>1, <2>2 DEF TypeInv, TypeOK
  <2>4. /\ act'[d][t] = Idle
        /\ \A c \in Device, u \in Task : <<c, u>> # <<d, t>> => act'[c][u] = act[c][u]
    BY <2>2 DEF TypeInv, TypeOK
  <2>5. Fits(d, t, Idle, r)
    <3>1. (\A u \in Task \ {t} : ~Uses(act[d][u])) => disk[d] = r
      BY <1>1, <1>2 DEF Calm, Persisted
    <3> QED
      BY <3>1, IdleIs DEF Fits
  <2>6. [Rec EXCEPT ![d] = IF r = NoSession THEN disk[d] ELSE r] = Rec
    <3>1. r = NoSession => disk[d] = r
      BY <1>1
    <3> QED
      BY <1>1, <3>1 DEF Records
  <2>7. KeyInv([Rec EXCEPT ![d] = IF r = NoSession THEN disk[d] ELSE r], keys', fresh')
    BY <1>1, <2>2, <2>6
  <2>8. fresh' # 0 /\ ~reused'
    BY <1>1, <2>2 DEF Calm
  <2> QED
    BY <2>3, <2>4, <2>5, <2>7, <2>8, OneCalm
<1>6. CASE r = NoSession /\ \E a : Goes(d, t, a) /\ a.step = "bundle"
  <2>1. PICK a : Goes(d, t, a) /\ a.step = "bundle"
    BY <1>6
  <2>2. S(d) = NoSession
    BY <1>1, <1>6
  <2>3. /\ act'[d][t] = a
        /\ \A c \in Device, u \in Task : <<c, u>> # <<d, t>> => act'[c][u] = act[c][u]
    BY <2>1 DEF Goes, TypeInv, TypeOK
  <2>4. a.store = current[d] /\ UNCHANGED <<store, keys, reused, fresh>>
    BY <2>1 DEF Goes, Calm, OneStore
  <2>5. Fits(d, t, a, S(d))
    BY <2>1, <2>2, <2>4 DEF Fits
  <2> QED
    BY <2>3, <2>4, <2>5, StoreKept
<1> QED
  BY <1>3, <1>4, <1>5, <1>6, RestoredEffect

-----------------------------------------------------------------------------
(* Each action preserves the invariant *)

(* The types of what an activation of one page changes *)
Changed ==
  /\ act' \in [Device -> [Task -> Activation]] /\ store' \in [Device -> [Store -> Record]]
  /\ Works'

Becomes(d, t, a) == act' = [act EXCEPT ![d][t] = a]
Stores(d, t, r) == store' = [store EXCEPT ![d][act[d][t].store] = r]

LEMMA BecomesIs ==
  ASSUME TypeInv, NEW d \in Device, NEW t \in Task, NEW a \in Activation, Becomes(d, t, a)
  PROVE  /\ act' \in [Device -> [Task -> Activation]] /\ act'[d][t] = a
         /\ \A e \in Device, u \in Task : <<e, u>> # <<d, t>> => act'[e][u] = act[e][u]
  BY DEF TypeInv, TypeOK, Becomes

(* An activation changes to a, and its store to r *)
LEMMA ChangeTypes ==
  ASSUME TypeInv, NEW d \in Device, NEW t \in Task, NEW a \in Activation, Shape(a),
         act[d][t].store \in Store, NEW r \in Record, Becomes(d, t, a), Stores(d, t, r),
         In(d, t) # NoSession => r # NoSession,
         Uses(a) => a.store = act[d][t].store /\ r # NoSession
  PROVE  Changed
<1>1. store \in [Device -> [Store -> Record]]
  BY DEF TypeInv, TypeOK
<1>2. PICK s \in Store : s = act[d][t].store
  OBVIOUS
<1>3. /\ store' \in [Device -> [Store -> Record]] /\ store'[d][s] = r
      /\ \A e \in Device, q \in Store : <<e, q>> # <<d, s>> => store'[e][q] = store[e][q]
  BY <1>1, <1>2 DEF Stores
<1>4. \A e \in Device, q \in Store : store[e][q] # NoSession => store'[e][q] # NoSession
  BY <1>2, <1>3 DEF In
<1>5. Works'
  BY <1>2, <1>3, <1>4, BecomesIs, OneChanges
<1> QED
  BY <1>3, <1>5, BecomesIs DEF Changed

(* An activation changes to a, and no store *)
LEMMA GoTypes ==
  ASSUME TypeInv, NEW d \in Device, NEW t \in Task, NEW a \in Activation, Shape(a),
         Becomes(d, t, a), store' = store, Uses(a) => store[d][a.store] # NoSession
  PROVE  Changed
<1>1. Works'
  BY BecomesIs, OneChanges
<1> QED
  BY <1>1, BecomesIs DEF Changed, TypeInv, TypeOK

LEMMA EncryptTypes ==
  ASSUME TypeInv, NEW d \in Device, NEW t \in Task, NEW r, NEW f, NEW a, Encrypts(d, t, r, f, a)
  PROVE  Changed
<1>1. PICK new \in Record : new = Encrypted(r) /\ new # NoSession
  BY DEF Encrypts
<1>2. /\ a \in Activation /\ Shape(a) /\ act[d][t].store \in Store
      /\ Becomes(d, t, a) /\ Stores(d, t, new) /\ a.store = act[d][t].store
  BY <1>1 DEF Encrypts, Becomes, Stores
<1> QED
  BY <1>1, <1>2, ChangeTypes

(* Whatever the outcome of a restored session *)
LEMMA RestoredTypes ==
  ASSUME TypeInv, NEW d \in Device, NEW t \in Task, act[d][t].step \in {"check", "import"},
         NEW r \in Record, In(d, t) # NoSession => r # NoSession, Restored(d, t, r)
  PROVE  /\ Changed /\ fresh' \in Nat /\ sends' \in 0..MaxSends /\ keys' \subseteq Key
         /\ reused' \in BOOLEAN /\ rejected' \in BOOLEAN
<1>1. /\ fresh \in Nat /\ sends \in 0..MaxSends /\ keys \subseteq Key
      /\ reused \in BOOLEAN /\ rejected \in BOOLEAN
  BY FlagTypes DEF TypeInv, TypeOK
<1>2. CASE \E a : Encrypts(d, t, r, fresh, a)
  <2>1. PICK a : Encrypts(d, t, r, fresh, a)
    BY <1>2
  <2>2. Changed
    BY <2>1, EncryptTypes
  <2>3. /\ fresh' = fresh /\ sends' \in 0..MaxSends /\ keys' \subseteq Key
        /\ reused' \in BOOLEAN /\ rejected' = rejected
    BY <2>1 DEF Encrypts
  <2> QED
    BY <1>1, <2>2, <2>3
<1>3. CASE \E a : Decrypts(d, t, r, a)
  <2>1. PICK a : Decrypts(d, t, r, a)
    BY <1>3
  <2>2. PICK e \in Envelopes :
          /\ Decryptable(r, e)
          /\ store' = [store EXCEPT ![d][act[d][t].store] = Decrypted(r, e, fresh)]
    BY <2>1 DEF Decrypts
  <2>3. PICK new : new = Decrypted(r, e, fresh)
    OBVIOUS
  <2>4. new \in Record /\ new # NoSession
    BY <1>1, <2>2, <2>3, DecryptedIs
  <2>5. /\ a \in Activation /\ Shape(a) /\ act[d][t].store \in Store
        /\ Becomes(d, t, a) /\ Stores(d, t, new) /\ a.store = act[d][t].store
    BY <2>1, <2>2, <2>3 DEF Decrypts, Becomes, Stores
  <2>6. Changed
    BY <2>4, <2>5, ChangeTypes
  <2>7. fresh' = fresh + 1 /\ UNCHANGED <<sends, keys, reused, rejected>>
    BY <2>1 DEF Decrypts
  <2> QED
    BY <1>1, <2>6, <2>7
<1>4. CASE Rejects(d, t, r)
  <2>1. /\ act[d][t].store \in Store /\ Becomes(d, t, Idle) /\ Stores(d, t, r)
        /\ rejected' = TRUE /\ UNCHANGED <<fresh, sends, keys, reused>>
    BY <1>4 DEF Rejects, Becomes, Stores
  <2>2. Changed
    BY <2>1, IdleIs, ChangeTypes
  <2> QED
    BY <1>1, <2>1, <2>2
<1>5. CASE \E a : Goes(d, t, a) /\ a.step = "bundle"
  <2>1. PICK a : Goes(d, t, a) /\ a.step = "bundle"
    BY <1>5
  <2>2. /\ a \in Activation /\ Shape(a) /\ Becomes(d, t, a) /\ ~Uses(a)
        /\ UNCHANGED <<store, fresh, sends, keys, reused, rejected>>
    BY <2>1 DEF Goes, Becomes, Uses
  <2>3. Changed
    BY <2>2, GoTypes
  <2> QED
    BY <1>1, <2>2, <2>3
<1> QED
  BY <1>2, <1>3, <1>4, <1>5, RestoredEffect

(* What the past records is never taken back *)
LEMMA Undisturbing ==
  ASSUME Undisturbed', raced => raced', parted => parted', cut => cut'
  PROVE  Undisturbed
  BY DEF Undisturbed

LEMMA InvFits ==
  ASSUME Inv, Changed, disk' \in [Device -> Record], queue' \in [Device -> Seq(Envelopes)],
         current' \in [Device -> Store], fresh' \in Nat, sends' \in 0..MaxSends,
         events' \in 0..MaxEvents, keys' \subseteq Key, reused' \in BOOLEAN,
         rejected' \in BOOLEAN, raced' \in BOOLEAN, parted' \in BOOLEAN, cut' \in BOOLEAN,
         raced => raced', parted => parted', cut => cut',
         Undisturbed /\ Undisturbed' => Calm'
  PROVE  Inv'
<1>1. TypeOK'
  BY DEF Changed, TypeOK
<1>2. Undisturbed' => Calm'
  BY Undisturbing
<1> QED
  BY <1>1, <1>2 DEF Inv, TypeInv, Changed

(* An activation goes on without restoring, and what it used it still uses *)
LEMMA FitsNext ==
  ASSUME TypeInv, Calm, NEW d \in Device, NEW t \in Task, NEW a,
         a.step # "none" => a.store = current[d],
         a.step \notin {"load", "import", "bundle"}, Uses(act[d][t]) => Uses(a)
  PROVE  Fits(d, t, a, S(d))
<1>1. S(d) # NoSession => \A u \in Task \ {t} : ~Restoring(d, u)
  BY DEF Calm, OneRestores
<1>2. ASSUME S(d) # NoSession, ~Uses(a), \A u \in Task \ {t} : ~Uses(act[d][u])
      PROVE  disk[d] = S(d)
  BY <1>2 DEF Calm, Persisted
<1> QED
  BY <1>1, <1>2 DEF Fits

LEMMA BeginInv ==
  ASSUME Inv, NEW d \in Device, NEW t \in Task, NEW op \in {"send", "poll"}, Begin(d, t, op)
  PROVE  Inv'
<1>1. TypeInv
  BY DEF Inv
<1>2. PICK a : a = [Idle EXCEPT !.op = op, !.step = IF op = "send" THEN "check" ELSE "fetch",
                                !.store = current[d]]
  OBVIOUS
<1>3. /\ a \in Activation /\ a.op = op /\ a.store = current[d] /\ a.store \in Store
      /\ a.step = IF op = "send" THEN "check" ELSE "fetch"
  <2>1. current[d] \in Store
    BY <1>1 DEF TypeInv, TypeOK
  <2>2. PICK b : b = Idle /\ b \in Activation
    BY IdleIs
  <2>3. PICK step : step = (IF op = "send" THEN "check" ELSE "fetch")
    OBVIOUS
  <2>4. a = [b EXCEPT !.op = op, !.step = step, !.store = current[d]]
    BY <1>2, <2>2, <2>3
  <2>5. step \in {"check", "fetch"}
    BY <2>3
  <2> QED
    BY <2>1, <2>2, <2>3, <2>4, <2>5 DEF Activation
<1>4. Shape(a) /\ ~Uses(a)
  BY <1>3 DEF Shape, Uses
<1>5. Becomes(d, t, a) /\ act[d][t] = Idle
  BY <1>2 DEF Begin, Becomes
<1>6. Changed
  BY <1>1, <1>3, <1>4, <1>5, GoTypes DEF Begin
<1>7. UNCHANGED <<disk, queue, store, current, past>>
  BY DEF Begin
<1>8. ASSUME Undisturbed PROVE Calm'
  <2>1. Calm
    BY <1>8 DEF Inv
  <2>2. Fits(d, t, a, S(d))
    BY <1>1, <1>3, <1>5, <2>1, FitsNext, IdleIs
  <2> QED
    BY <1>1, <1>3, <1>5, <1>7, <2>1, <2>2, BecomesIs, StoreKept DEF past
<1> QED
  BY <1>1, <1>6, <1>7, <1>8, InvFits, FlagTypes DEF TypeInv, TypeOK, past

LEMMA FetchInv ==
  ASSUME Inv, NEW d \in Device, NEW t \in Task, FetchMessages(d, t)
  PROVE  Inv'
<1>1. TypeInv
  BY DEF Inv
<1>2. PICK b : b = act[d][t]
  OBVIOUS
<1>3. b \in Activation /\ Shape(b) /\ b.step = "fetch" /\ b.store \in Store
  BY <1>1, <1>2, ActParts DEF FetchMessages, Shape
<1>4. PICK q : q = queue[d] /\ q \in Seq(Envelopes)
  BY <1>1 DEF TypeInv, TypeOK
<1>5. PICK a : a = IF q = <<>> THEN Idle ELSE [b EXCEPT !.step = "check", !.batch = q]
  OBVIOUS
<1>6. a \in Activation /\ Shape(a) /\ ~Uses(a) /\ a.step \in {"none", "check"}
      /\ (a.step # "none" => a.store = b.store)
  <2>1. CASE q = <<>>
    BY <1>5, <2>1, IdleIs
  <2>2. CASE q # <<>>
    <3>1. /\ a \in Activation /\ a.op = b.op /\ a.step = "check" /\ a.store = b.store
          /\ a.batch = q
      BY <1>3, <1>4, <1>5, <2>2 DEF Activation
    <3> QED
      BY <1>3, <2>2, <3>1 DEF Shape, Uses
  <2> QED
    BY <2>1, <2>2
<1>7. Becomes(d, t, a)
  BY <1>2, <1>4, <1>5 DEF FetchMessages, Becomes
<1>8. UNCHANGED <<disk, store, current, past>>
  BY DEF FetchMessages
<1>9. Changed
  BY <1>1, <1>6, <1>7, <1>8, GoTypes
<1>10. queue' \in [Device -> Seq(Envelopes)]
  BY <1>1 DEF FetchMessages, TypeInv, TypeOK
<1>11. ASSUME Undisturbed PROVE Calm'
  <2>1. Calm
    BY <1>11 DEF Inv
  <2>2. a.step # "none" => a.store = current[d]
    BY <1>2, <1>3, <1>6, <2>1 DEF Calm, OneStore
  <2>3. Fits(d, t, a, S(d))
    BY <1>1, <1>2, <1>3, <1>6, <2>1, <2>2, FitsNext DEF Uses
  <2> QED
    BY <1>1, <1>6, <1>7, <1>8, <2>1, <2>3, BecomesIs, StoreKept DEF past
<1> QED
  BY <1>1, <1>8, <1>9, <1>10, <1>11, InvFits, FlagTypes DEF TypeInv, TypeOK, past

LEMMA SendInv ==
  ASSUME Inv, NEW d \in Device, NEW t \in Task, SendMessage(d, t)
  PROVE  Inv'
<1>1. TypeInv
  BY DEF Inv
<1>2. PICK b : b = act[d][t]
  OBVIOUS
<1>3. b \in Activation /\ Shape(b) /\ b.step = "send" /\ b.store \in Store /\ b.batch # <<>>
  BY <1>1, <1>2, ActParts DEF SendMessage, Shape
<1>4. PICK rest : rest = Tail(b.batch) /\ rest \in Seq(Envelopes)
  BY <1>1, <1>2, <1>3, ActParts
<1>5. PICK a : a = [b EXCEPT !.step = "persist", !.batch = rest]
  OBVIOUS
<1>6. a \in Activation /\ a.step = "persist" /\ a.store = b.store /\ a.op = b.op
  BY <1>3, <1>4, <1>5 DEF Activation
<1>7. Shape(a) /\ Uses(a)
  BY <1>3, <1>6 DEF Shape, Uses
<1>8. Becomes(d, t, a)
  BY <1>2, <1>4, <1>5 DEF SendMessage, Becomes
<1>9. UNCHANGED <<disk, store, current, past>>
  BY DEF SendMessage
<1>10. store[d][a.store] # NoSession
  BY <1>1, <1>2, <1>3, <1>6 DEF TypeInv, Works, Uses, In
<1>11. Changed
  BY <1>1, <1>6, <1>7, <1>8, <1>9, <1>10, GoTypes
<1>12. queue' \in [Device -> Seq(Envelopes)]
  <2>1. PICK e : e = Head(b.batch) /\ e \in Envelopes
    BY <1>1, <1>2, <1>3, ActParts
  <2>2. queue' = [queue EXCEPT ![Peer(d)] = Append(queue[Peer(d)], e)]
    BY <1>2, <2>1 DEF SendMessage
  <2>3. queue \in [Device -> Seq(Envelopes)] /\ Append(queue[Peer(d)], e) \in Seq(Envelopes)
    BY <1>1, <2>1, PeerType DEF TypeInv, TypeOK
  <2> QED
    BY <2>2, <2>3
<1>13. ASSUME Undisturbed PROVE Calm'
  <2>1. Calm
    BY <1>13 DEF Inv
  <2>2. a.store = current[d]
    BY <1>2, <1>3, <1>6, <2>1 DEF Calm, OneStore
  <2>3. Fits(d, t, a, S(d))
    BY <1>1, <1>6, <1>7, <2>1, <2>2, FitsNext
  <2> QED
    BY <1>1, <1>6, <1>8, <1>9, <2>1, <2>3, BecomesIs, StoreKept DEF past
<1> QED
  BY <1>1, <1>9, <1>11, <1>12, <1>13, InvFits, FlagTypes DEF TypeInv, TypeOK, past

LEMMA LoadInv ==
  ASSUME Inv, NEW d \in Device, NEW t \in Task, LoadSession(d, t)
  PROVE  Inv'
<1>1. TypeInv
  BY DEF Inv
<1>2. PICK b : b = act[d][t]
  OBVIOUS
<1>3. b \in Activation /\ Shape(b) /\ b.step = "load" /\ b.store \in Store
  BY <1>1, <1>2, ActParts DEF LoadSession, Shape
<1>4. PICK bytes : bytes = disk[d] /\ bytes \in Record
  BY <1>1 DEF TypeInv, TypeOK
<1>5. PICK a : a = [b EXCEPT !.step = "import", !.bytes = bytes]
  OBVIOUS
<1>6. /\ a \in Activation /\ a.step = "import" /\ a.store = b.store /\ a.op = b.op
      /\ a.bytes = bytes /\ a.batch = b.batch
  BY <1>3, <1>4, <1>5 DEF Activation
<1>7. Shape(a) /\ ~Uses(a)
  BY <1>3, <1>6 DEF Shape, Uses
<1>8. Becomes(d, t, a)
  BY <1>2, <1>4, <1>5 DEF LoadSession, Becomes
<1>9. UNCHANGED <<disk, queue, store, current, past>>
  BY DEF LoadSession
<1>10. Changed
  BY <1>1, <1>6, <1>7, <1>8, <1>9, GoTypes
<1>11. ASSUME Undisturbed PROVE Calm'
  <2>1. Calm
    BY <1>11 DEF Inv
  <2>2. a.store = current[d]
    BY <1>2, <1>3, <1>6, <2>1 DEF Calm, OneStore
  <2>3. S(d) = NoSession /\ \A u \in Task \ {t} : ~Restoring(d, u)
    BY <1>2, <1>3, <2>1 DEF Restoring, Calm, OneRestores
  <2>4. Fits(d, t, a, S(d))
    BY <1>4, <1>6, <2>2, <2>3 DEF Fits
  <2> QED
    BY <1>1, <1>6, <1>8, <1>9, <2>1, <2>4, BecomesIs, StoreKept DEF past
<1> QED
  BY <1>1, <1>9, <1>10, <1>11, InvFits, FlagTypes DEF TypeInv, TypeOK, past

LEMMA CheckInv ==
  ASSUME Inv, NEW d \in Device, NEW t \in Task, Check(d, t)
  PROVE  Inv'
<1>1. TypeInv
  BY DEF Inv
<1>2. /\ act[d][t].step = "check" /\ act[d][t].store \in Store /\ In(d, t) \in Record
  BY <1>1, ActParts DEF Check, Shape
<1>3. UNCHANGED <<disk, queue, current, events, parted, cut>>
  BY DEF Check
<1>4. raced' \in BOOLEAN /\ (raced => raced')
  BY <1>1, FlagTypes DEF Check, TypeInv
<1>5. CASE In(d, t) # NoSession /\ Restored(d, t, In(d, t))
  <2>1. /\ Changed /\ fresh' \in Nat /\ sends' \in 0..MaxSends /\ keys' \subseteq Key
        /\ reused' \in BOOLEAN /\ rejected' \in BOOLEAN
    BY <1>1, <1>2, <1>5, RestoredTypes
  <2>2. ASSUME Undisturbed PROVE Calm'
    <3>1. Calm
      BY <2>2 DEF Inv
    <3>2. In(d, t) = S(d)
      BY <1>2, <3>1 DEF In, S, Calm, OneStore
    <3>3. In(d, t) = Rec[d]
      BY <1>1, <1>5, <3>2, RecType DEF TypeInv
    <3>4. \A u \in Task \ {t} : ~Restoring(d, u)
      BY <1>5, <3>1, <3>2 DEF Calm, OneRestores
    <3> QED
      BY <1>1, <1>2, <1>3, <1>5, <3>1, <3>3, <3>4, RestoredCalm
  <2> QED
    BY <1>1, <1>3, <1>4, <2>1, <2>2, InvFits, FlagTypes DEF TypeInv, TypeOK
<1>6. CASE /\ In(d, t) = NoSession /\ Goto(d, t, "load")
           /\ UNCHANGED <<store, fresh, sends, keys, reused, rejected>>
  <2>1. PICK a : Goes(d, t, a) /\ a.step = "load"
    BY <1>1, <1>2, <1>6, GotoEffect
  <2>2. /\ a \in Activation /\ Shape(a) /\ ~Uses(a) /\ Becomes(d, t, a)
        /\ a.store = act[d][t].store
    BY <2>1 DEF Goes, Becomes, Uses
  <2>3. Changed
    BY <1>1, <1>6, <2>2, GoTypes
  <2>4. ASSUME Undisturbed, Undisturbed' PROVE Calm'
    <3>1. Calm
      BY <2>4 DEF Inv
    <3>2. a.store = current[d] /\ S(d) = NoSession
      BY <1>2, <1>6, <2>2, <3>1 DEF In, S, Calm, OneStore
    <3>3. \A u \in Task : ~Restoring(d, u)
      BY <1>6, <2>4 DEF Check, Undisturbed
    <3>4. Fits(d, t, a, S(d))
      BY <2>1, <3>2, <3>3 DEF Fits
    <3> QED
      BY <1>1, <1>3, <1>6, <2>2, <3>1, <3>4, BecomesIs, StoreKept
  <2> QED
    BY <1>1, <1>3, <1>4, <1>6, <2>3, <2>4, InvFits, FlagTypes DEF TypeInv, TypeOK
<1> QED
  BY <1>5, <1>6 DEF Check

LEMMA ImportInv ==
  ASSUME Inv, NEW d \in Device, NEW t \in Task, Import(d, t)
  PROVE  Inv'
<1>1. TypeInv
  BY DEF Inv
<1>2. PICK bytes : bytes = act[d][t].bytes
  OBVIOUS
<1>3. PICK r : r = IF bytes = NoSession THEN In(d, t) ELSE bytes
  OBVIOUS
<1>4. /\ act[d][t].step = "import" /\ act[d][t].store \in Store /\ Restored(d, t, r)
      /\ UNCHANGED <<disk, queue, current, events, raced, parted, cut>>
  BY <1>1, <1>2, <1>3, ActParts DEF Import, Shape
<1>5. r \in Record /\ (In(d, t) # NoSession => r # NoSession)
  BY <1>1, <1>2, <1>3, <1>4, ActParts
<1>6. /\ Changed /\ fresh' \in Nat /\ sends' \in 0..MaxSends /\ keys' \subseteq Key
      /\ reused' \in BOOLEAN /\ rejected' \in BOOLEAN
  BY <1>1, <1>4, <1>5, RestoredTypes
<1>7. ASSUME Undisturbed PROVE Calm'
  <2>1. Calm
    BY <1>7 DEF Inv
  <2>2. S(d) = NoSession /\ \A u \in Task \ {t} : ~Restoring(d, u)
    BY <1>4, <2>1 DEF Restoring, Calm, OneRestores
  <2>3. In(d, t) = NoSession /\ bytes = disk[d]
    BY <1>2, <1>4, <2>1, <2>2 DEF In, S, Calm, OneStore, Loaded
  <2>4. r = Rec[d]
    BY <1>1, <1>3, <2>2, <2>3, RecType DEF TypeInv
  <2> QED
    BY <1>1, <1>4, <1>5, <2>1, <2>2, <2>4, RestoredCalm
<1> QED
  BY <1>1, <1>4, <1>6, <1>7, InvFits, FlagTypes DEF TypeInv, TypeOK

(* Reply, or Establish *)
LEMMA EncryptInv ==
  ASSUME Inv, NEW d \in Device, NEW t \in Task, act[d][t].step # "none",
         NEW r \in Record, r # NoSession, NEW f \in Nat, Encrypt(d, t, r, f),
         UNCHANGED <<disk, queue, current, events, raced, parted, cut>>,
         Calm => /\ \/ r = Rec[d] /\ f = fresh
                    \/ r = Established(NoSession, fresh) /\ f = fresh + 1
                 /\ \A u \in Task \ {t} : ~Restoring(d, u)
  PROVE  Inv'
<1>1. TypeInv
  BY DEF Inv
<1>2. PICK a : Encrypts(d, t, r, f, a)
  BY <1>1, EncryptEffect
<1>3. Changed
  BY <1>1, <1>2, EncryptTypes
<1>4. /\ fresh' = f /\ sends' \in 0..MaxSends /\ keys' \subseteq Key
      /\ reused' \in BOOLEAN /\ rejected' = rejected
  BY <1>2 DEF Encrypts
<1>5. ASSUME Undisturbed PROVE Calm'
  <2>1. Calm
    BY <1>5 DEF Inv
  <2>2. /\ \/ r = Rec[d] /\ f = fresh
           \/ r = Established(NoSession, fresh) /\ f = fresh + 1
        /\ \A u \in Task \ {t} : ~Restoring(d, u)
    BY <2>1
  <2>3. UNCHANGED <<disk, current>>
    OBVIOUS
  <2> QED
    BY <1>1, <1>2, <2>1, <2>2, <2>3, EncryptCalm
<1> QED
  BY <1>1, <1>3, <1>4, <1>5, InvFits, FlagTypes DEF TypeInv, TypeOK

LEMMA EstablishInv ==
  ASSUME Inv, NEW d \in Device, NEW t \in Task, Establish(d, t)
  PROVE  Inv'
<1>1. TypeInv /\ fresh \in Nat
  BY DEF Inv, TypeInv, TypeOK
<1>2. act[d][t].step = "bundle" /\ In(d, t) \in Record
  BY <1>1, ActParts DEF Establish, Shape
<1>3. PICK r : r = Established(In(d, t), fresh) /\ r \in Record /\ r # NoSession
  BY <1>1, <1>2, EstablishedIs
<1>4. ASSUME Calm
      PROVE  r = Established(NoSession, fresh) /\ \A u \in Task \ {t} : ~Restoring(d, u)
  <2>1. S(d) = NoSession /\ \A u \in Task \ {t} : ~Restoring(d, u)
    BY <1>2, <1>4 DEF Restoring, Calm, OneRestores
  <2>2. In(d, t) = S(d)
    BY <1>2, <1>4 DEF In, S, Calm, OneStore
  <2> QED
    BY <1>3, <2>1, <2>2
<1>5. /\ Encrypt(d, t, r, fresh + 1)
      /\ UNCHANGED <<disk, queue, current, events, raced, parted, cut>>
  BY <1>3 DEF Establish
<1>6. fresh + 1 \in Nat /\ act[d][t].step # "none"
  BY <1>1, <1>2
<1> QED
  BY <1>3, <1>4, <1>5, <1>6, EncryptInv

LEMMA ReplyInv ==
  ASSUME Inv, NEW d \in Device, NEW t \in Task, Reply(d, t)
  PROVE  Inv'
<1>1. TypeInv /\ fresh \in Nat
  BY DEF Inv, TypeInv, TypeOK
<1>2. act[d][t].step = "reply" /\ In(d, t) \in Record
  BY <1>1, ActParts DEF Reply, Shape
<1>3. PICK r : r = In(d, t) /\ r \in Record /\ r # NoSession
  BY <1>1, <1>2 DEF TypeInv, Works, Uses
<1>4. ASSUME Calm
      PROVE  r = Rec[d] /\ \A u \in Task \ {t} : ~Restoring(d, u)
  <2>1. r = S(d)
    BY <1>2, <1>3, <1>4 DEF In, S, Calm, OneStore
  <2>2. r = Rec[d]
    BY <1>1, <1>3, <2>1, RecType DEF TypeInv
  <2> QED
    BY <1>3, <1>4, <2>1, <2>2 DEF Calm, OneRestores
<1>5. /\ Encrypt(d, t, r, fresh)
      /\ UNCHANGED <<disk, queue, current, events, raced, parted, cut>>
  BY <1>3 DEF Reply
<1>6. act[d][t].step # "none"
  BY <1>2
<1> QED
  BY <1>1, <1>3, <1>4, <1>5, <1>6, EncryptInv

LEMMA PersistInv ==
  ASSUME Inv, NEW d \in Device, NEW t \in Task, Persist(d, t)
  PROVE  Inv'
<1>1. TypeInv
  BY DEF Inv
<1>2. PICK b : b = act[d][t]
  OBVIOUS
<1>3. b \in Activation /\ Shape(b) /\ b.step = "persist" /\ b.store \in Store
      /\ b.op \in {"send", "poll"}
  BY <1>1, <1>2, ActParts DEF Persist, Shape
<1>4. PICK r : r = In(d, t) /\ r \in Record /\ r # NoSession
  BY <1>1, <1>2, <1>3, ActParts DEF TypeInv, Works, Uses
<1>5. PICK a : a = AfterPersist(b)
  OBVIOUS
<1>6. a \in Activation /\ Shape(a) /\ a.step \in {"none", "check", "reply", "persist"}
      /\ (a.step # "none" => a.store = b.store)
  BY <1>3, <1>5, AfterPersistIs, IdleIs
<1>7. Becomes(d, t, a)
  BY <1>2, <1>5 DEF Persist, Becomes
<1>8. UNCHANGED <<queue, store, current, past>> /\ disk' = [disk EXCEPT ![d] = r]
  BY <1>4 DEF Persist
<1>9. Changed
  <2>1. Uses(a) => store[d][a.store] # NoSession
    BY <1>2, <1>4, <1>6 DEF Uses, In
  <2> QED
    BY <1>1, <1>6, <1>7, <1>8, <2>1, GoTypes
<1>10. disk' \in [Device -> Record]
  BY <1>1, <1>4, <1>8 DEF TypeInv, TypeOK
<1>11. ASSUME Undisturbed PROVE Calm'
  <2>1. Calm
    BY <1>11 DEF Inv
  <2>2. r = S(d)
    BY <1>2, <1>3, <1>4, <2>1 DEF In, S, Calm, OneStore
  <2>3. \A e \in Device : S(e)' = S(e)
    BY <1>8 DEF S
  <2>4. disk'[d] = r /\ \A e \in Device \ {d} : disk'[e] = disk[e]
    BY <1>1, <1>8 DEF TypeInv, TypeOK
  <2>5. Rec' = Rec
    <3>1. \A e \in Device : (IF S(e)' = NoSession THEN disk'[e] ELSE S(e)')
                            = (IF S(e) = NoSession THEN disk[e] ELSE S(e))
      BY <1>4, <2>2, <2>3, <2>4
    <3> QED
      BY <3>1 DEF Rec
  <2>6. /\ act'[d][t] = a
        /\ \A e \in Device, u \in Task : <<e, u>> # <<d, t>> => act'[e][u] = act[e][u]
    BY <1>1, <1>6, <1>7, BecomesIs
  <2>7. OneStore'
    BY <1>2, <1>3, <1>6, <1>8, <2>1, <2>6 DEF OneStore, Calm
  <2>8. \A e \in Device, u \in Task : Restoring(e, u)' => Restoring(e, u)
    BY <1>6, <2>6 DEF Restoring
  <2>9. OneRestores'
    BY <2>1, <2>3, <2>8 DEF OneRestores, Calm
  <2>10. Loaded'
    <3> SUFFICES ASSUME NEW e \in Device, NEW u \in Task, act'[e][u].step = "import"
                 PROVE  act'[e][u].bytes = disk'[e]
      BY DEF Loaded
    <3>1. <<e, u>> # <<d, t>>
      BY <1>6, <2>6
    <3>2. act'[e][u] = act[e][u] /\ Restoring(e, u)
      BY <2>6, <3>1 DEF Restoring
    <3>3. e # d
      BY <1>4, <2>1, <2>2, <3>2 DEF Calm, OneRestores
    <3> QED
      BY <2>1, <2>4, <3>2, <3>3 DEF Calm, Loaded
  <2>11. Persisted'
    <3> SUFFICES ASSUME NEW e \in Device, S(e)' # NoSession, \A u \in Task : ~Uses(act'[e][u])
                 PROVE  disk'[e] = S(e)'
      BY DEF Persisted
    <3>1. CASE e = d
      BY <2>2, <2>3, <2>4, <3>1
    <3>2. CASE e # d
      BY <2>1, <2>3, <2>4, <2>6, <3>2 DEF Calm, Persisted
    <3> QED
      BY <3>1, <3>2
  <2> QED
    BY <1>8, <2>1, <2>5, <2>7, <2>9, <2>10, <2>11 DEF Calm, past
<1> QED
  BY <1>1, <1>8, <1>9, <1>10, <1>11, InvFits, FlagTypes DEF TypeInv, TypeOK, past

LEMMA FailInv ==
  ASSUME Inv, NEW d \in Device, NEW t \in Task, Fail(d, t)
  PROVE  Inv'
<1>1. TypeInv
  BY DEF Inv
<1>2. Changed
  <2>1. Becomes(d, t, Idle) /\ store' = store
    BY DEF Fail, Becomes
  <2> QED
    BY <1>1, <2>1, IdleIs, GoTypes
<1>3. events' \in 0..MaxEvents
  BY <1>1, SessionAssumption DEF Fail, Event, TypeInv, TypeOK
<1> QED
  BY <1>1, <1>2, <1>3, InvFits, FlagTypes DEF Fail, Undisturbed, TypeInv, TypeOK

(* A page whose activations are none has no store, and restores what is on disk *)
LEMMA PageOpens ==
  ASSUME TypeInv, Calm, NEW d \in Device, \A t \in Task : act[d][t].step = "none",
         S(d)' = NoSession, \A t \in Task : act'[d][t].step = "none",
         \A e \in Device \ {d} :
           S(e)' = S(e) /\ act'[e] = act[e] /\ current'[e] = current[e],
         UNCHANGED <<disk, keys, reused, fresh>>
  PROVE  Calm'
<1>1. S(d) # NoSession => disk[d] = S(d)
  BY DEF Calm, Persisted, Uses
<1>2. Rec' = Rec
  <2>1. \A e \in Device : (IF S(e)' = NoSession THEN disk'[e] ELSE S(e)')
                          = (IF S(e) = NoSession THEN disk[e] ELSE S(e))
    BY <1>1
  <2> QED
    BY <2>1 DEF Rec
<1>3. OneStore'
  BY DEF Calm, OneStore
<1>4. \A e \in Device, t \in Task : Restoring(e, t)' => e # d /\ Restoring(e, t)
  BY DEF Restoring
<1>5. OneRestores'
  BY <1>4 DEF Calm, OneRestores
<1>6. Loaded'
  BY DEF Calm, Loaded
<1>7. Persisted'
  BY DEF Calm, Persisted
<1> QED
  BY <1>2, <1>3, <1>5, <1>6, <1>7 DEF Calm

(* A page that has no activation has none that is at a step *)
LEMMA Inactive ==
  ASSUME TypeInv, NEW d \in Device, ~Active(d)
  PROVE  \A t \in Task : act[d][t].step = "none"
<1> SUFFICES ASSUME NEW t \in Task PROVE act[d][t].step = "none"
  OBVIOUS
<1>1. act[d][t].store = None
  BY DEF Active, InUse
<1> QED
  BY <1>1, ActParts, SessionAssumption DEF Shape

(* A store that an activation uses is in use *)
LEMMA UsedIn ==
  ASSUME TypeInv, NEW d \in Device, NEW t \in Task, Uses(act[d][t])
  PROVE  act[d][t].store \in InUse(d) /\ act[d][t].store \in Store
<1>1. act[d][t].store \in Store
  BY ActParts DEF Shape, Uses
<1> QED
  BY <1>1, SessionAssumption DEF InUse

LEMMA CreateInv ==
  ASSUME Inv, NEW d \in Device, NEW t \in Task, CreateGroup(d, t)
  PROVE  Inv'
<1>1. TypeInv
  BY DEF Inv
<1>2. PICK s \in Store :
        /\ s \notin InUse(d) /\ store' = [store EXCEPT ![d][s] = NoSession]
        /\ act' = [act EXCEPT ![d][t] =
             [Idle EXCEPT !.op = "send", !.step = "check", !.store = s]]
  BY DEF CreateGroup, Free
<1>3. PICK a : a = [Idle EXCEPT !.op = "send", !.step = "check", !.store = s]
  OBVIOUS
<1>4. a \in Activation /\ a.op = "send" /\ a.step = "check" /\ a.store = s
  <2>1. PICK b : b = Idle /\ b \in Activation
    BY IdleIs
  <2>2. a = [b EXCEPT !.op = "send", !.step = "check", !.store = s]
    BY <1>3, <2>1
  <2> QED
    BY <2>1, <2>2 DEF Activation
<1>5. Shape(a) /\ ~Uses(a)
  BY <1>4 DEF Shape, Uses
<1>6. Becomes(d, t, a)
  BY <1>2, <1>3 DEF Becomes
<1>7. /\ act' \in [Device -> [Task -> Activation]] /\ act'[d][t] = a
      /\ \A e \in Device, u \in Task : <<e, u>> # <<d, t>> => act'[e][u] = act[e][u]
  BY <1>1, <1>4, <1>6, BecomesIs
<1>8. /\ store' \in [Device -> [Store -> Record]]
      /\ \A e \in Device, q \in Store : <<e, q>> # <<d, s>> => store'[e][q] = store[e][q]
  BY <1>1, <1>2, NoSessionType DEF TypeInv, TypeOK
<1>9. Works'
  <2> SUFFICES ASSUME NEW e \in Device, NEW u \in Task
               PROVE  /\ Shape(act'[e][u])
                      /\ Uses(act'[e][u]) => store'[e][act'[e][u].store] # NoSession
    BY DEF Works, In
  <2>1. CASE <<e, u>> = <<d, t>>
    BY <1>5, <1>7, <2>1
  <2>2. CASE <<e, u>> # <<d, t>>
    <3>1. act'[e][u] = act[e][u] /\ Shape(act[e][u])
      BY <1>1, <1>7, <2>2 DEF TypeInv, Works
    <3>2. ASSUME Uses(act[e][u]) PROVE store'[e][act[e][u].store] # NoSession
      <4>1. act[e][u].store \in InUse(e) /\ act[e][u].store \in Store
        BY <1>1, <3>2, UsedIn
      <4>2. <<e, act[e][u].store>> # <<d, s>>
        BY <1>2, <4>1
      <4>3. store[e][act[e][u].store] # NoSession
        BY <1>1, <3>2 DEF TypeInv, Works, In
      <4> QED
        BY <1>8, <4>1, <4>2, <4>3
    <3> QED
      BY <3>1, <3>2
  <2> QED
    BY <2>1, <2>2
<1>10. Changed
  BY <1>7, <1>8, <1>9 DEF Changed
<1>11. events' \in 0..MaxEvents
  BY <1>1, SessionAssumption DEF CreateGroup, Event, TypeInv, TypeOK
<1> QED
  BY <1>1, <1>10, <1>11, InvFits, FlagTypes DEF CreateGroup, Undisturbed, TypeInv, TypeOK

LEMMA EnterInv ==
  ASSUME Inv, NEW d \in Device, EnterScreen(d)
  PROVE  Inv'
<1>1. TypeInv
  BY DEF Inv
<1>2. UNCHANGED <<disk, queue, act, fresh, sends, keys, reused, rejected, raced, cut>>
  BY DEF EnterScreen
<1>3. PICK s \in Store : s \notin InUse(d) /\ current' = [current EXCEPT ![d] = s]
  BY DEF EnterScreen, Free
<1>4. store' = [store EXCEPT ![d] =
                  [r \in Store |-> IF r \in InUse(d) THEN store[d][r] ELSE NoSession]]
  BY DEF EnterScreen
<1>5. /\ store' \in [Device -> [Store -> Record]]
      /\ \A r \in Store : store'[d][r] = IF r \in InUse(d) THEN store[d][r] ELSE NoSession
      /\ \A e \in Device \ {d} : store'[e] = store[e]
  BY <1>1, <1>4, NoSessionType DEF TypeInv, TypeOK
<1>6. /\ current' \in [Device -> Store] /\ current'[d] = s
      /\ \A e \in Device \ {d} : current'[e] = current[e]
  BY <1>1, <1>3 DEF TypeInv, TypeOK
<1>7. Works'
  <2> SUFFICES ASSUME NEW e \in Device, NEW u \in Task
               PROVE  /\ Shape(act[e][u])
                      /\ Uses(act[e][u]) => store'[e][act[e][u].store] # NoSession
    BY <1>2 DEF Works, In
  <2>1. Shape(act[e][u]) /\ (Uses(act[e][u]) => store[e][act[e][u].store] # NoSession)
    BY <1>1 DEF TypeInv, Works, In
  <2>2. ASSUME Uses(act[e][u])
        PROVE  store'[e][act[e][u].store] = store[e][act[e][u].store]
    <3>1. act[e][u].store \in InUse(e) /\ act[e][u].store \in Store
      BY <1>1, <2>2, UsedIn
    <3> QED
      BY <1>5, <3>1
  <2> QED
    BY <2>1, <2>2
<1>8. Changed
  BY <1>1, <1>2, <1>5, <1>7 DEF Changed, TypeInv, TypeOK
<1>9. events' \in 0..MaxEvents
  BY <1>1, SessionAssumption DEF EnterScreen, Event, TypeInv, TypeOK
<1>10. parted' \in BOOLEAN /\ (parted => parted') /\ (~parted' => ~Active(d))
  BY <1>1, FlagTypes DEF EnterScreen, TypeInv
<1>11. ASSUME Undisturbed, Undisturbed' PROVE Calm'
  <2>1. Calm
    BY <1>11 DEF Inv
  <2>2. \A t \in Task : act[d][t].step = "none"
    BY <1>1, <1>10, <1>11, Inactive DEF Undisturbed
  <2>3. S(d)' = NoSession /\ \A e \in Device \ {d} : S(e)' = S(e)
    BY <1>3, <1>5, <1>6 DEF S
  <2> QED
    BY <1>1, <1>2, <1>6, <2>1, <2>2, <2>3, PageOpens
<1> QED
  BY <1>1, <1>2, <1>6, <1>8, <1>9, <1>10, <1>11, InvFits, FlagTypes DEF TypeInv, TypeOK

LEMMA ReloadInv ==
  ASSUME Inv, NEW d \in Device, Reload(d)
  PROVE  Inv'
<1>1. TypeInv
  BY DEF Inv
<1>2. UNCHANGED <<disk, queue, current, fresh, sends, keys, reused, rejected, raced, parted>>
  BY DEF Reload
<1>3. /\ store' = [store EXCEPT ![d] = [s \in Store |-> NoSession]]
      /\ act' = [act EXCEPT ![d] = [t \in Task |-> Idle]]
  BY DEF Reload
<1>4. /\ store' \in [Device -> [Store -> Record]]
      /\ \A s \in Store : store'[d][s] = NoSession
      /\ \A e \in Device \ {d} : store'[e] = store[e]
  BY <1>1, <1>3, NoSessionType DEF TypeInv, TypeOK
<1>5. /\ act' \in [Device -> [Task -> Activation]]
      /\ \A t \in Task : act'[d][t] = Idle
      /\ \A e \in Device \ {d} : act'[e] = act[e]
  BY <1>1, <1>3, IdleIs DEF TypeInv, TypeOK
<1>6. Works'
  <2> SUFFICES ASSUME NEW e \in Device, NEW u \in Task
               PROVE  /\ Shape(act'[e][u])
                      /\ Uses(act'[e][u]) => store'[e][act'[e][u].store] # NoSession
    BY DEF Works, In
  <2>1. CASE e = d
    BY <1>5, <2>1, IdleIs
  <2>2. CASE e # d
    BY <1>1, <1>4, <1>5, <2>2 DEF TypeInv, Works, In
  <2> QED
    BY <2>1, <2>2
<1>7. Changed
  BY <1>4, <1>5, <1>6 DEF Changed
<1>8. events' \in 0..MaxEvents
  BY <1>1, SessionAssumption DEF Reload, Event, TypeInv, TypeOK
<1>9. cut' \in BOOLEAN /\ (cut => cut') /\ (~cut' => ~Active(d))
  BY <1>1, FlagTypes DEF Reload, TypeInv
<1>10. ASSUME Undisturbed, Undisturbed' PROVE Calm'
  <2>1. Calm
    BY <1>10 DEF Inv
  <2>2. \A t \in Task : act[d][t].step = "none"
    BY <1>1, <1>9, <1>10, Inactive DEF Undisturbed
  <2>3. S(d)' = NoSession /\ \A e \in Device \ {d} : S(e)' = S(e)
    BY <1>1, <1>2, <1>4 DEF S, TypeInv, TypeOK
  <2> QED
    BY <1>1, <1>2, <1>5, <2>1, <2>2, <2>3, PageOpens, IdleIs
<1> QED
  BY <1>1, <1>2, <1>7, <1>8, <1>9, <1>10, InvFits, FlagTypes DEF TypeInv, TypeOK

LEMMA NextInv ==
  ASSUME Inv, [Next]_vars
  PROVE  Inv'
<1>1. CASE UNCHANGED vars
  <2>1. TypeInv'
    BY <1>1 DEF vars, past, Inv, TypeInv, TypeOK, Works, In
  <2>2. Undisturbed' = Undisturbed /\ Calm' = Calm
    BY <1>1 DEF vars, past, Undisturbed, Calm, OneStore, OneRestores, Loaded, Persisted, S, Rec,
                Restoring
  <2> QED
    BY <2>1, <2>2 DEF Inv
<1>2. ASSUME NEW d \in Device, EnterScreen(d) PROVE Inv'
  BY <1>2, EnterInv
<1>3. ASSUME NEW d \in Device, Reload(d) PROVE Inv'
  BY <1>3, ReloadInv
<1>4. ASSUME NEW d \in Device, NEW t \in Task, Begin(d, t, "send") \/ Begin(d, t, "poll")
      PROVE  Inv'
  BY <1>4, BeginInv
<1>5. ASSUME NEW d \in Device, NEW t \in Task,
             CreateGroup(d, t) \/ Check(d, t) \/ LoadSession(d, t) \/ Import(d, t)
      PROVE  Inv'
  BY <1>5, CreateInv, CheckInv, LoadInv, ImportInv
<1>6. ASSUME NEW d \in Device, NEW t \in Task,
             \/ Establish(d, t) \/ Reply(d, t) \/ SendMessage(d, t) \/ Persist(d, t)
             \/ FetchMessages(d, t) \/ Fail(d, t)
      PROVE  Inv'
  BY <1>6, EstablishInv, ReplyInv, SendInv, PersistInv, FetchInv, FailInv
<1> QED
  BY <1>1, <1>2, <1>3, <1>4, <1>5, <1>6 DEF Next

-----------------------------------------------------------------------------
(* The initial states *)

LEMMA FirstIs ==
  /\ First \in Envelopes /\ First.chain = 1 /\ First.n = 0 /\ Decryptable(NoSession, First)
<1>1. PICK s : s = [sid |-> 1, own |-> 1, on |-> Prekey, n |-> 0, acked |-> FALSE, seen |-> {}]
  OBVIOUS
<1>2. Established(NoSession, 1) = <<s>> \o NoSession
  BY <1>1 DEF Established
<1>3. Head(Established(NoSession, 1)) = s
  <2>1. s \in SessionState
    BY <1>1 DEF SessionState, Prekey
  <2>2. PICK q : q = NoSession /\ q \in Record
    BY NoSessionType
  <2>3. PICK r : r = <<s>> \o q
    OBVIOUS
  <2>4. r \in Record /\ r # NoSession /\ r[1] = s
    BY ONLY <2>1, <2>2, <2>3, ConsType
  <2>5. Head(r) = r[1]
    BY <2>4, RecordParts
  <2> QED
    BY <1>2, <2>2, <2>3, <2>4, <2>5
<1>4. PICK e : e = First /\ e = [sid |-> 1, chain |-> 1, on |-> Prekey, n |-> 0, prekey |-> TRUE]
  <2>1. First = [sid |-> s.sid, chain |-> s.own, on |-> s.on, n |-> s.n, prekey |-> ~s.acked]
    BY <1>3 DEF First, Envelope
  <2> QED
    BY <1>1, <2>1
<1>5. e \in Envelopes /\ e.chain = 1 /\ e.n = 0
  BY <1>4 DEF Envelopes, Prekey
<1>6. PICK a : a = Answer(e) /\ a \in SessionState
  BY <1>5, AnswerIs
<1>7. PICK tried : tried = Tried(NoSession, e)
  OBVIOUS
<1>8. tried = <<a>> \o NoSession
  <2>1. ~Knows(NoSession, e)
    BY RecordParts, NoSessionType DEF Knows
  <2> QED
    BY <1>4, <1>6, <1>7, <2>1 DEF Tried
<1>9. tried \in Record /\ Len(tried) = 1 /\ tried[1] = a
  <2>1. PICK r \in Record : r = NoSession /\ Len(r) = 0
    BY NoSessionType
  <2>2. tried = <<a>> \o r
    BY <1>8, <2>1
  <2>3. <<a>> \o r \in Record /\ Len(<<a>> \o r) = Len(r) + 1 /\ (<<a>> \o r)[1] = a
    BY <1>6, ConsType
  <2> QED
    BY <2>1, <2>2, <2>3
<1>10. 1 \in DOMAIN tried
  BY <1>9, RecordParts
<1>11. Opens(a, e)
  BY <1>4, <1>6 DEF Opens, Follows, Answer
<1>12. Decryptable(NoSession, e)
  BY <1>7, <1>9, <1>10, <1>11 DEF Decryptable
<1> QED
  BY <1>4, <1>5, <1>12

LEMMA NoKeys == KeyInv([e \in Device |-> NoSession], {}, 1)
  BY NoSessionType DEF KeyInv

LEMMA InTouchKeys ==
  ASSUME NEW d \in Device
  PROVE  InTouch(d) \in Records /\ KeyInv(InTouch(d), {[chain |-> 1, n |-> 0]}, 3)
<1>1. PICK p \in Device \ {d} : Device = {d, p}
  BY SessionAssumption
<1>2. PICK key : key \in Key /\ key = [chain |-> 1, n |-> 0]
  <2>1. [chain |-> 1, n |-> 0] \in Key
    BY DEF Key
  <2> QED
    BY <2>1
<1>3. PICK P : P \in Records /\ P = [e \in Device |-> NoSession]
  <2>1. [e \in Device |-> NoSession] \in Records
    BY NoSessionType DEF Records
  <2> QED
    BY <2>1
<1>4. PICK r : r = Established(NoSession, 1) /\ r \in Record /\ r # NoSession
  BY NoSessionType, EstablishedIs
<1>5. PICK Q : Q = [P EXCEPT ![d] = r] /\ Q \in Records /\ Q[d] = r
  <2>1. [P EXCEPT ![d] = r] \in Records /\ [P EXCEPT ![d] = r][d] = r
    BY <1>3, <1>4 DEF Records
  <2> QED
    BY <2>1
<1>6. KeyInv(Q, {}, 2)
  <2>1. KeyInv(P, {}, 1) /\ {} \in SUBSET Key /\ 1 \in Nat /\ 1 # 0
    BY <1>3, NoKeys
  <2>2. KeyInv([P EXCEPT ![d] = Established(NoSession, 1)], {}, 1 + 1)
    BY ONLY <1>3, <2>1, EstablishKeys
  <2> QED
    BY <1>4, <1>5, <2>2
<1>7. PICK R : R = [Q EXCEPT ![d] = Encrypted(r)] /\ R \in Records
  <2>1. [Q EXCEPT ![d] = Encrypted(r)] \in Records
    BY <1>4, <1>5, EncryptedIs DEF Records
  <2> QED
    BY <2>1
<1>8. key = [chain |-> Envelope(Q[d]).chain, n |-> Envelope(Q[d]).n]
  BY <1>2, <1>4, <1>5, FirstIs DEF First
<1>9. KeyInv(R, {key}, 2)
  <2>1. KeyInv([Q EXCEPT ![d] = Encrypted(Q[d])], {} \cup {key}, 2)
    <3>1. PICK ks, f : ks = {} /\ f = 2
      OBVIOUS
    <3>2. Q \in Records /\ ks \in SUBSET Key /\ f \in Nat /\ Q[d] # NoSession
          /\ KeyInv(Q, ks, f)
      BY <1>4, <1>5, <1>6, <3>1
    <3>3. KeyInv([Q EXCEPT ![d] = Encrypted(Q[d])], ks \cup {key}, f)
      BY <1>8, <3>2, EncryptKeys
    <3> QED
      BY <3>1, <3>3
  <2> QED
    BY <1>5, <1>7, <2>1
<1>10. R[p] = NoSession
  BY <1>1, <1>3, <1>5, <1>7 DEF Records
<1>11. PICK T : T = [R EXCEPT ![p] = Decrypted(NoSession, First, 2)]
  OBVIOUS
<1>12. T \in Records
  <2>1. Decrypted(NoSession, First, 2) \in Record
    BY FirstIs, NoSessionType, DecryptedIs
  <2> QED
    BY <1>7, <1>11, <2>1 DEF Records
<1>13. KeyInv(T, {key}, 3)
  <2>1. KeyInv([R EXCEPT ![p] = Decrypted(R[p], First, 2)], {key}, 2 + 1)
    <3>1. R \in Records /\ {key} \in SUBSET Key /\ 2 \in Nat /\ 2 # 0 /\ p \in Device
          /\ First \in Envelopes /\ Decryptable(R[p], First)
      BY <1>2, <1>7, <1>10, FirstIs
    <3> QED
      BY ONLY <1>9, <3>1, DecryptKeys
  <2> QED
    BY <1>10, <1>11, <2>1
<1>14. T = InTouch(d)
  <2>1. T = [e \in Device |-> IF e = d THEN Encrypted(r) ELSE Decrypted(NoSession, First, 2)]
    BY <1>1, <1>5, <1>7, <1>11, <1>12 DEF Records
  <2> QED
    BY <1>4, <2>1 DEF InTouch
<1> QED
  BY <1>2, <1>12, <1>13, <1>14

LEMMA InitInv == Init => Inv
<1> SUFFICES ASSUME Init PROVE Inv
  OBVIOUS
<1>1. PICK s \in Store : current = [d \in Device |-> s]
  BY DEF Init
<1>2. \A d \in Device : S(d) = NoSession
  BY <1>1 DEF Init, S, Pages
<1>3. /\ disk \in Records /\ KeyInv(disk, keys, fresh) /\ fresh \in Nat /\ fresh # 0
      /\ keys \in SUBSET Key
  <2>1. CASE disk = [d \in Device |-> NoSession] /\ keys = {} /\ fresh = 1
    BY <2>1, NoKeys, NoSessionType DEF Records
  <2>2. CASE \E d \in Device :
               disk = InTouch(d) /\ keys = {[chain |-> 1, n |-> 0]} /\ fresh = 3
    <3>1. PICK d \in Device : disk = InTouch(d) /\ keys = {[chain |-> 1, n |-> 0]} /\ fresh = 3
      BY <2>2
    <3>2. keys \in SUBSET Key
      BY <3>1 DEF Key
    <3> QED
      BY <3>1, <3>2, InTouchKeys
  <2> QED
    BY <2>1, <2>2 DEF Init
<1>4. \A d \in Device, t \in Task : act[d][t] = Idle
  BY DEF Init
<1>5. TypeOK
  <2>1. act \in [Device -> [Task -> Activation]]
    BY IdleIs DEF Init
  <2>2. store \in [Device -> [Store -> Record]]
    BY NoSessionType DEF Init, Pages
  <2>3. current \in [Device -> Store] /\ queue \in [Device -> Seq(Envelopes)]
    BY <1>1 DEF Init
  <2>4. sends \in 0..MaxSends /\ events \in 0..MaxEvents
    <3>1. sends = 0 /\ events = 0
      BY DEF Init
    <3>2. MaxSends \in Nat /\ MaxEvents \in Nat
      BY SessionAssumption
    <3> QED
      BY ONLY <3>1, <3>2
  <2>5. {reused, rejected, raced, parted, cut} \subseteq BOOLEAN
    <3>1. reused = FALSE /\ rejected = FALSE /\ raced = FALSE /\ parted = FALSE /\ cut = FALSE
      BY DEF Init
    <3> QED
      BY ONLY <3>1
  <2> QED
    BY <1>3, <2>1, <2>2, <2>3, <2>4, <2>5 DEF TypeOK, Records
<1>6. Works
  BY <1>4, IdleIs DEF Works
<1>7. Rec = disk
  BY <1>2, <1>3 DEF Rec, Records
<1>8. Calm
  <2>1. OneStore /\ OneRestores /\ Loaded
    BY <1>4, IdleIs DEF OneStore, OneRestores, Loaded, Restoring
  <2>2. Persisted
    BY <1>2 DEF Persisted
  <2> QED
    BY <1>3, <1>7, <2>1, <2>2 DEF Calm, Init
<1> QED
  BY <1>5, <1>6, <1>8 DEF Inv, TypeInv

LEMMA Invariant == Spec => []Inv
  BY InitInv, NextInv, PTL DEF Spec

-----------------------------------------------------------------------------
(* TypeCorrect: every variable of a session's two ends always holds a value   *)
(* of its type, and an activation that sends, replies or persists has a       *)
(* session in its store, whatever screens, reloads and failures come between. *)
THEOREM TypeCorrect == Spec => [](TypeOK /\ TypeInv)
<1>1. Inv => TypeOK /\ TypeInv
  BY DEF Inv, TypeInv
<1> QED
  BY <1>1, Invariant, PTL

(* KeysOnce: however many activations, stores and envelopes there are, no key *)
(* ever encrypts two envelopes, unless two activations of a page restored or  *)
(* established their session at once, a page used two stores, or an           *)
(* activation was cut short.                                                  *)
THEOREM KeysOnce == Spec => []KeyOnce
<1>1. Inv => KeyOnce
  BY DEF Inv, Calm, KeyOnce
<1> QED
  BY <1>1, Invariant, PTL

-----------------------------------------------------------------------------
(* What an end of a session has, but for the key that it uses next.  The ends *)
(* of one device are a set D, those of the other a set E; F are the envelopes *)
(* on their way from D to E and G those from E to D.                          *)

End(s) == [sid |-> s.sid, own |-> s.own, on |-> s.on, acked |-> s.acked, seen |-> s.seen]
EndState == [sid : Nat, own : Nat, on : Nat, acked : BOOLEAN, seen : SUBSET Key]
KeyOf(e) == [chain |-> e.chain, n |-> e.n]

(* The end has received from the chain *)
Trails(s, chain) == \E key \in s.seen : key.chain = chain

(* An envelope on the chain, made for the chain "on", can be followed by E: it *)
(* follows the chain already, or has the end it was made for, or will have it  *)
(* when it answers the envelope that opens the session.                        *)
Meets(sid, chain, on, first, E) ==
  \/ \E s \in E : s.sid = sid /\ (Trails(s, chain) \/ on = s.own)
  \/ (\A s \in E : s.sid # sid) /\ first /\ on = Prekey

EndInv(s, E, ks, f) ==
  /\ s.own # Prekey /\ s.sid < f /\ s.seen \subseteq ks
  /\ s.on = Prekey \/ Trails(s, s.on)
  /\ Meets(s.sid, s.own, s.on, ~s.acked, E)

(* An envelope e on its way from s to E: it is on the chain that s has, or on *)
(* one that E follows; a chain is made for one chain of the other end only.   *)
Sent(e, s, E) ==
  /\ e.on = Prekey \/ Trails(s, e.on)
  /\ e.on = s.on => e.chain = s.own
  /\ e.chain = s.own \/ \E t \in E : t.sid = e.sid /\ Trails(t, e.chain)

FlightInv(e, D, E, F, ks) ==
  /\ KeyOf(e) \in ks /\ e.chain # Prekey
  /\ \E s \in D : s.sid = e.sid
  /\ \A s \in D : s.sid = e.sid => Sent(e, s, E)
  /\ \A g \in F : g.sid = e.sid /\ g.on = e.on => g.chain = e.chain
  /\ Meets(e.sid, e.chain, e.on, e.prekey, E)
  /\ \A t \in E : t.sid = e.sid => KeyOf(e) \notin t.seen

Half(D, E, F, ks, f) ==
  /\ \A s, t \in D : s.sid = t.sid => s = t
  /\ \A s \in D : EndInv(s, E, ks, f)
  /\ \A e \in F : FlightInv(e, D, E, F, ks)

Link(D, E, F, G, ks, f) == Half(D, E, F, ks, f) /\ Half(E, D, G, ks, f)

LinkTypes(D, E, F, G, ks, f) ==
  /\ D \in SUBSET EndState /\ E \in SUBSET EndState
  /\ F \in SUBSET Envelopes /\ G \in SUBSET Envelopes
  /\ ks \in SUBSET Key /\ f \in Nat /\ f # 0

LEMMA LinkSwaps ==
  ASSUME NEW D, NEW E, NEW F, NEW G, NEW ks, NEW f, Link(D, E, F, G, ks, f)
  PROVE  Link(E, D, G, F, ks, f)
  BY DEF Link

(* Envelopes are delivered or lost *)
LEMMA HalfLess ==
  ASSUME NEW D, NEW E, NEW F, NEW ks, NEW f, Half(D, E, F, ks, f), NEW H \in SUBSET F
  PROVE  Half(D, E, H, ks, f)
  BY DEF Half, FlightInv

(* More keys were used, more numbers handed out *)
LEMMA HalfMore ==
  ASSUME NEW D \in SUBSET EndState, NEW E, NEW F, NEW ks, NEW f \in Nat, Half(D, E, F, ks, f),
         NEW js, ks \subseteq js, NEW h \in Nat, f <= h
  PROVE  Half(D, E, F, js, h)
<1>1. \A s \in D : EndInv(s, E, js, h)
  <2> SUFFICES ASSUME NEW s \in D PROVE EndInv(s, E, js, h)
    OBVIOUS
  <2>1. EndInv(s, E, ks, f)
    BY DEF Half
  <2>2. s.sid \in Nat
    BY DEF EndState
  <2>3. s.sid < h
    BY <2>1, <2>2 DEF EndInv
  <2> QED
    BY <2>1, <2>3 DEF EndInv
<1>2. \A e \in F : FlightInv(e, D, E, F, js)
  BY DEF Half, FlightInv
<1> QED
  BY <1>1, <1>2 DEF Half

(* s encrypts *)
LEMMA LinkEncrypts ==
  ASSUME NEW D, NEW E, NEW F, NEW G, NEW ks, NEW f, LinkTypes(D, E, F, G, ks, f),
         Link(D, E, F, G, ks, f), NEW s \in D, NEW e \in Envelopes,
         e.sid = s.sid, e.chain = s.own, e.on = s.on, e.prekey = ~s.acked,
         KeyOf(e) \notin ks
  PROVE  Link(D, E, F \cup {e}, G, ks \cup {KeyOf(e)}, f)
<1> DEFINE js == ks \cup {KeyOf(e)}
           H == F \cup {e}
<1>1. Half(D, E, F, js, f) /\ Half(E, D, G, js, f)
  BY HalfMore DEF LinkTypes, Link
<1>2. EndInv(s, E, ks, f) /\ \A t \in D : t.sid = s.sid => t = s
  BY DEF Link, Half
<1>3. \A t \in E : EndInv(t, D, ks, f)
  BY DEF Link, Half
<1>4. \A g \in F : g.sid = e.sid /\ g.on = e.on => g.chain = e.chain
  BY <1>1 DEF Half, FlightInv, Sent
<1>5. FlightInv(e, D, E, H, js)
  <2>1. KeyOf(e) \in js /\ e.chain # Prekey
    BY <1>2 DEF EndInv
  <2>2. \A t \in D : t.sid = e.sid => Sent(e, t, E)
    BY <1>2 DEF EndInv, Sent
  <2>3. \A g \in H : g.sid = e.sid /\ g.on = e.on => g.chain = e.chain
    BY <1>4
  <2>4. Meets(e.sid, e.chain, e.on, e.prekey, E)
    BY <1>2 DEF EndInv
  <2>5. \A t \in E : t.sid = e.sid => KeyOf(e) \notin t.seen
    BY <1>3 DEF EndInv
  <2> QED
    BY <2>1, <2>2, <2>3, <2>4, <2>5 DEF FlightInv
<1>6. \A g \in F : FlightInv(g, D, E, H, js)
  <2> SUFFICES ASSUME NEW g \in F PROVE FlightInv(g, D, E, H, js)
    OBVIOUS
  <2>1. FlightInv(g, D, E, F, js)
    BY <1>1 DEF Half
  <2>2. \A h \in H : h.sid = g.sid /\ h.on = g.on => h.chain = g.chain
    BY <1>4, <2>1 DEF FlightInv
  <2> QED
    BY <2>1, <2>2 DEF FlightInv
<1>7. Half(D, E, H, js, f)
  BY <1>1, <1>5, <1>6 DEF Half
<1> QED
  BY <1>1, <1>7 DEF Link

(* A new session *)
LEMMA LinkEstablishes ==
  ASSUME NEW D, NEW E, NEW F, NEW G, NEW ks, NEW f, LinkTypes(D, E, F, G, ks, f),
         Link(D, E, F, G, ks, f), NEW s \in EndState,
         s.sid = f, s.own = f, s.on = Prekey, s.acked = FALSE, s.seen = {}
  PROVE  Link(D \cup {s}, E, F, G, ks, f + 1)
<1> DEFINE C == D \cup {s}
<1>0. /\ D \in SUBSET EndState /\ E \in SUBSET EndState /\ F \in SUBSET Envelopes
      /\ G \in SUBSET Envelopes /\ f \in Nat /\ f # 0
  BY DEF LinkTypes
<1>1. Half(D, E, F, ks, f + 1) /\ Half(E, D, G, ks, f + 1)
  BY <1>0, HalfMore DEF Link
<1>2. (\A t \in D : t.sid # f) /\ \A t \in E : t.sid # f
  <2>1. \A t \in D \cup E : t.sid \in Nat /\ t.sid < f
    BY <1>0 DEF Link, Half, EndInv, EndState
  <2> QED
    BY <2>1, <1>0
<1>3. (\A e \in F : e.sid # f) /\ \A g \in G : g.sid # f
  BY <1>2 DEF Link, Half, FlightInv
<1>4. EndInv(s, E, ks, f + 1)
  <2>1. s.own # Prekey /\ s.sid < f + 1 /\ s.seen \subseteq ks
    BY <1>0 DEF Prekey
  <2>2. Meets(s.sid, s.own, s.on, ~s.acked, E)
    BY <1>2 DEF Meets
  <2> QED
    BY <2>1, <2>2 DEF EndInv
<1>5. Half(C, E, F, ks, f + 1)
  <2>1. \A t, r \in C : t.sid = r.sid => t = r
    BY <1>1, <1>2 DEF Half
  <2>2. \A t \in C : EndInv(t, E, ks, f + 1)
    BY <1>1, <1>4 DEF Half
  <2>3. \A e \in F : FlightInv(e, C, E, F, ks)
    BY <1>1, <1>3 DEF Half, FlightInv
  <2> QED
    BY <2>1, <2>2, <2>3 DEF Half
<1>6. \A sid, chain, on, first : sid # f /\ Meets(sid, chain, on, first, D) => Meets(sid, chain, on, first, C)
  BY DEF Meets
<1>7. Half(E, C, G, ks, f + 1)
  <2>1. \A t \in E : EndInv(t, C, ks, f + 1)
    BY <1>1, <1>2, <1>6 DEF Half, EndInv
  <2>2. ASSUME NEW g \in G PROVE FlightInv(g, E, C, G, ks)
    <3>1. FlightInv(g, E, D, G, ks) /\ g.sid # f
      BY <1>1, <1>3 DEF Half
    <3>2. \A t \in E : t.sid = g.sid => Sent(g, t, C)
      BY <3>1 DEF FlightInv, Sent
    <3>3. Meets(g.sid, g.chain, g.on, g.prekey, C)
      BY <1>6, <3>1 DEF FlightInv
    <3>4. \A t \in C : t.sid = g.sid => KeyOf(g) \notin t.seen
      BY <3>1 DEF FlightInv
    <3> QED
      BY <3>1, <3>2, <3>3, <3>4 DEF FlightInv
  <2> QED
    BY <1>1, <2>1, <2>2 DEF Half
<1> QED
  BY <1>5, <1>7 DEF Link

(* An envelope is received *)

(* All of the other sessions, and whether E knows a session, stay as they are *)
LEMMA Replaces ==
  ASSUME NEW D, NEW s \in D, NEW r, r.sid = s.sid, \A t, u \in D : t.sid = u.sid => t = u,
         NEW C, C = (D \ {s}) \cup {r}
  PROVE  /\ \A t, u \in C : t.sid = u.sid => t = u
         /\ r \in C /\ \A t \in C : t.sid = s.sid => t = r
         /\ \A t \in C : t.sid # s.sid => t \in D
         /\ \A t \in D : t.sid # s.sid => t \in C
  OBVIOUS

(* What E needs of the envelopes and the ends of D: other sessions *)
LEMMA MeetsElse ==
  ASSUME NEW D, NEW C, NEW sid,
         \A t \in C : t.sid = sid => t \in D,
         \A t \in D : t.sid = sid => t \in C,
         NEW chain, NEW on, NEW first, Meets(sid, chain, on, first, D)
  PROVE  Meets(sid, chain, on, first, C)
  BY DEF Meets

(* An end receives from a chain that it follows *)
LEMMA LinkReads ==
  ASSUME NEW D, NEW E, NEW F, NEW G, NEW ks, NEW f, LinkTypes(D, E, F, G, ks, f),
         Link(D, E, F, G, ks, f), NEW e \in G, NEW s \in D, s.sid = e.sid, Trails(s, e.chain),
         NEW r \in EndState, r.sid = s.sid, r.own = s.own, r.on = s.on, r.acked = TRUE,
         r.seen = s.seen \cup {KeyOf(e)},
         NEW H \in SUBSET G, \A g \in H : KeyOf(g) # KeyOf(e)
  PROVE  Link((D \ {s}) \cup {r}, E, F, H, ks, f)
<1> DEFINE C == (D \ {s}) \cup {r}
<1>0. Half(D, E, F, ks, f) /\ Half(E, D, G, ks, f) /\ Half(E, D, H, ks, f)
  BY HalfLess DEF Link
<1>1. /\ \A t, u \in C : t.sid = u.sid => t = u
      /\ r \in C /\ \A t \in C : t.sid = s.sid => t = r
      /\ \A t \in C : t.sid # s.sid => t \in D
      /\ \A t \in D : t.sid # s.sid => t \in C
  BY <1>0, Replaces DEF Half
<1>2. FlightInv(e, E, D, G, ks) /\ EndInv(s, E, ks, f)
  BY <1>0 DEF Half
<1>3. \A chain : Trails(s, chain) <=> Trails(r, chain)
  <2>1. KeyOf(e).chain = e.chain
    BY DEF KeyOf
  <2> QED
    BY <2>1 DEF Trails
<1> HIDE DEF C
<1>4. EndInv(r, E, ks, f)
  <2>1. r.seen \subseteq ks
    BY <1>2 DEF EndInv, FlightInv
  <2>2. Meets(r.sid, r.own, r.on, ~r.acked, E)
    BY <1>2 DEF EndInv, FlightInv, Meets
  <2> QED
    BY <1>2, <1>3, <2>1, <2>2 DEF EndInv
<1>5. \A sid, chain, on, first : Meets(sid, chain, on, first, D) => Meets(sid, chain, on, first, C)
  <2> SUFFICES ASSUME NEW sid, NEW chain, NEW on, NEW first, Meets(sid, chain, on, first, D)
               PROVE  Meets(sid, chain, on, first, C)
    OBVIOUS
  <2>1. CASE sid # s.sid
    BY <1>1, <2>1, MeetsElse
  <2>2. CASE sid = s.sid
    <3>1. Trails(s, chain) \/ on = s.own
      BY <1>0, <2>2 DEF Meets, Half
    <3> QED
      BY <1>1, <1>3, <2>2, <3>1 DEF Meets
  <2> QED
    BY <2>1, <2>2
<1>6. Half(C, E, F, ks, f)
  <2>1. \A t \in C : EndInv(t, E, ks, f)
    BY <1>0, <1>1, <1>4 DEF Half
  <2>2. ASSUME NEW g \in F PROVE FlightInv(g, C, E, F, ks)
    <3>1. FlightInv(g, D, E, F, ks)
      BY <1>0 DEF Half
    <3>2. \E t \in C : t.sid = g.sid
      BY <1>1, <3>1 DEF FlightInv
    <3>3. ASSUME NEW t \in C, t.sid = g.sid PROVE Sent(g, t, E)
      <4>1. CASE t.sid # s.sid
        BY <1>1, <3>1, <3>3, <4>1 DEF FlightInv
      <4>2. CASE t.sid = s.sid
        <5>1. Sent(g, s, E) /\ t = r
          BY <1>1, <3>1, <3>3, <4>2 DEF FlightInv
        <5> QED
          BY <1>3, <5>1 DEF Sent
      <4> QED
        BY <4>1, <4>2
    <3> QED
      BY <3>1, <3>2, <3>3 DEF FlightInv
  <2> QED
    BY <1>0, <1>1, <2>1, <2>2 DEF Half
<1>7. Half(E, C, H, ks, f)
  <2>1. \A t \in E : EndInv(t, C, ks, f)
    BY <1>0, <1>5 DEF Half, EndInv
  <2>2. ASSUME NEW g \in H PROVE FlightInv(g, E, C, H, ks)
    <3>1. FlightInv(g, E, D, H, ks)
      BY <1>0 DEF Half
    <3>2. ASSUME NEW t \in E, t.sid = g.sid PROVE Sent(g, t, C)
      <4>1. Sent(g, t, D)
        BY <3>1, <3>2 DEF FlightInv
      <4>2. ASSUME NEW u \in D, u.sid = g.sid, Trails(u, g.chain)
            PROVE  \E v \in C : v.sid = g.sid /\ Trails(v, g.chain)
        <5>1. CASE u.sid # s.sid
          BY <1>1, <4>2, <5>1
        <5>2. CASE u.sid = s.sid
          <6>1. u = s
            BY <1>0, <5>2 DEF Half
          <6> QED
            BY <1>1, <1>3, <4>2, <6>1
        <5> QED
          BY <5>1, <5>2
      <4> QED
        BY <4>1, <4>2 DEF Sent
    <3>3. Meets(g.sid, g.chain, g.on, g.prekey, C)
      BY <1>5, <3>1 DEF FlightInv
    <3>4. ASSUME NEW t \in C, t.sid = g.sid PROVE KeyOf(g) \notin t.seen
      <4>1. CASE t.sid # s.sid
        BY <1>1, <3>1, <3>4, <4>1 DEF FlightInv
      <4>2. CASE t.sid = s.sid
        BY <1>1, <3>1, <3>4, <4>2 DEF FlightInv
      <4> QED
        BY <4>1, <4>2
    <3> QED
      BY <3>1, <3>2, <3>3, <3>4 DEF FlightInv
  <2> QED
    BY <1>0, <2>1, <2>2 DEF Half
<1> QED
  BY <1>6, <1>7 DEF Link, C

(* An end receives from a new chain of the other, and starts one itself *)
LEMMA LinkTurns ==
  ASSUME NEW D, NEW E, NEW F, NEW G, NEW ks, NEW f, LinkTypes(D, E, F, G, ks, f),
         Link(D, E, F, G, ks, f), NEW e \in G, NEW s \in D, s.sid = e.sid,
         ~Trails(s, e.chain), e.on = s.own,
         NEW r \in EndState, r.sid = s.sid, r.own = f, r.on = e.chain, r.acked = TRUE,
         r.seen = s.seen \cup {KeyOf(e)},
         NEW H \in SUBSET G, \A g \in H : KeyOf(g) # KeyOf(e)
  PROVE  Link((D \ {s}) \cup {r}, E, F, H, ks, f + 1)
<1> DEFINE C == (D \ {s}) \cup {r}
<1>0. Half(D, E, F, ks, f + 1) /\ Half(E, D, G, ks, f + 1) /\ Half(E, D, H, ks, f + 1)
  BY HalfMore, HalfLess DEF Link, LinkTypes
<1>1. /\ \A t, u \in C : t.sid = u.sid => t = u
      /\ r \in C /\ \A t \in C : t.sid = s.sid => t = r
      /\ \A t \in C : t.sid # s.sid => t \in D
      /\ \A t \in D : t.sid # s.sid => t \in C
  BY <1>0, Replaces DEF Half
<1>2. FlightInv(e, E, D, G, ks) /\ EndInv(s, E, ks, f + 1)
  BY <1>0 DEF Half
<1>3. Trails(r, e.chain) /\ \A chain : Trails(s, chain) => Trails(r, chain)
  <2>1. KeyOf(e).chain = e.chain
    BY DEF KeyOf
  <2> QED
    BY <2>1 DEF Trails
<1> HIDE DEF C
<1>11. PICK p \in E : p.sid = e.sid /\ Sent(e, p, D) /\ \A t \in E : t.sid = e.sid => t = p
  BY <1>0, <1>2 DEF Half, FlightInv
<1>12. p.own = e.chain
  BY <1>0, <1>11 DEF Sent, Half
<1>13. Trails(p, s.own)
  BY <1>2, <1>11 DEF Sent, EndInv
<1>4. EndInv(r, E, ks, f + 1)
  <2>1. r.seen \subseteq ks
    BY <1>2 DEF EndInv, FlightInv
  <2>2. Meets(r.sid, r.own, r.on, ~r.acked, E)
    BY <1>11, <1>12 DEF Meets
  <2>3. r.own # Prekey /\ r.sid < f + 1
    BY <1>2 DEF EndInv, LinkTypes, Prekey
  <2>4. Trails(r, r.on)
    BY <1>3
  <2> QED
    BY <2>1, <2>2, <2>3, <2>4 DEF EndInv
<1>5. ASSUME NEW sid, NEW chain, NEW on, NEW first, Meets(sid, chain, on, first, D),
             sid = s.sid /\ on = s.own => chain = e.chain
      PROVE  Meets(sid, chain, on, first, C)
  <2>1. CASE sid # s.sid
    BY <1>1, <1>5, <2>1, MeetsElse
  <2>2. CASE sid = s.sid
    <3>1. Trails(s, chain) \/ on = s.own
      BY <1>0, <1>5, <2>2 DEF Meets, Half
    <3>2. Trails(r, chain)
      BY <1>3, <1>5, <2>2, <3>1
    <3> QED
      BY <1>1, <2>2, <3>2 DEF Meets
  <2> QED
    BY <2>1, <2>2
<1>6. Half(C, E, F, ks, f + 1)
  <2>1. \A t \in C : EndInv(t, E, ks, f + 1)
    BY <1>0, <1>1, <1>4 DEF Half
  <2>2. ASSUME NEW g \in F PROVE FlightInv(g, C, E, F, ks)
    <3>1. FlightInv(g, D, E, F, ks)
      BY <1>0 DEF Half
    <3>2. \E t \in C : t.sid = g.sid
      BY <1>1, <3>1 DEF FlightInv
    <3>3. ASSUME NEW t \in C, t.sid = g.sid PROVE Sent(g, t, E)
      <4>1. CASE t.sid # s.sid
        BY <1>1, <3>1, <3>3, <4>1 DEF FlightInv
      <4>2. CASE t.sid = s.sid
        <5>1. Sent(g, s, E) /\ t = r
          BY <1>1, <3>1, <3>3, <4>2 DEF FlightInv
        <5>2. (g.on = Prekey \/ Trails(r, g.on)) /\ g.on # r.on
          BY <1>2, <1>3, <5>1 DEF Sent, FlightInv
        <5>3. \E u \in E : u.sid = g.sid /\ Trails(u, g.chain)
          BY <1>11, <1>13, <3>3, <4>2, <5>1 DEF Sent
        <5> QED
          BY <5>1, <5>2, <5>3 DEF Sent
      <4> QED
        BY <4>1, <4>2
    <3> QED
      BY <3>1, <3>2, <3>3 DEF FlightInv
  <2> QED
    BY <1>0, <1>1, <2>1, <2>2 DEF Half
<1>7. Half(E, C, H, ks, f + 1)
  <2>1. ASSUME NEW t \in E PROVE EndInv(t, C, ks, f + 1)
    <3>1. EndInv(t, D, ks, f + 1)
      BY <1>0 DEF Half
    <3>2. t.sid = s.sid /\ t.on = s.own => t.own = e.chain
      BY <1>11, <1>12
    <3>3. Meets(t.sid, t.own, t.on, ~t.acked, C)
      BY <1>5, <3>1, <3>2 DEF EndInv
    <3> QED
      BY <3>1, <3>3 DEF EndInv
  <2>2. ASSUME NEW g \in H PROVE FlightInv(g, E, C, H, ks)
    <3>1. FlightInv(g, E, D, H, ks)
      BY <1>0 DEF Half
    <3>2. ASSUME NEW t \in E, t.sid = g.sid PROVE Sent(g, t, C)
      <4>1. Sent(g, t, D)
        BY <3>1, <3>2 DEF FlightInv
      <4>2. ASSUME NEW u \in D, u.sid = g.sid, Trails(u, g.chain)
            PROVE  \E v \in C : v.sid = g.sid /\ Trails(v, g.chain)
        <5>1. CASE u.sid # s.sid
          BY <1>1, <4>2, <5>1
        <5>2. CASE u.sid = s.sid
          <6>1. u = s
            BY <1>0, <5>2 DEF Half
          <6> QED
            BY <1>1, <1>3, <4>2, <6>1
        <5> QED
          BY <5>1, <5>2
      <4> QED
        BY <4>1, <4>2 DEF Sent
    <3>3. Meets(g.sid, g.chain, g.on, g.prekey, C)
      <4>1. g.sid = s.sid /\ g.on = s.own => g.chain = e.chain
        BY <1>2 DEF FlightInv
      <4> QED
        BY <1>5, <3>1, <4>1 DEF FlightInv
    <3>4. ASSUME NEW t \in C, t.sid = g.sid PROVE KeyOf(g) \notin t.seen
      <4>1. CASE t.sid # s.sid
        BY <1>1, <3>1, <3>4, <4>1 DEF FlightInv
      <4>2. CASE t.sid = s.sid
        BY <1>1, <3>1, <3>4, <4>2 DEF FlightInv
      <4> QED
        BY <4>1, <4>2
    <3> QED
      BY <3>1, <3>2, <3>3, <3>4 DEF FlightInv
  <2> QED
    BY <1>0, <2>1, <2>2 DEF Half
<1> QED
  BY <1>6, <1>7 DEF Link, C

(* A device receives the first envelope of a session and answers it *)
LEMMA LinkAnswers ==
  ASSUME NEW D, NEW E, NEW F, NEW G, NEW ks, NEW f, LinkTypes(D, E, F, G, ks, f),
         Link(D, E, F, G, ks, f), NEW e \in G, \A t \in D : t.sid # e.sid, e.on = Prekey,
         NEW r \in EndState, r.sid = e.sid, r.own = f, r.on = e.chain, r.acked = TRUE,
         r.seen = {KeyOf(e)},
         NEW H \in SUBSET G, \A g \in H : KeyOf(g) # KeyOf(e)
  PROVE  Link(D \cup {r}, E, F, H, ks, f + 1)
<1> DEFINE C == D \cup {r}
<1>0. Half(D, E, F, ks, f + 1) /\ Half(E, D, G, ks, f + 1) /\ Half(E, D, H, ks, f + 1)
  BY HalfMore, HalfLess DEF Link, LinkTypes
<1>1. /\ \A t, u \in C : t.sid = u.sid => t = u
      /\ r \in C /\ \A t \in C : t.sid = e.sid => t = r
      /\ \A t \in C : t.sid # e.sid => t \in D
      /\ \A t \in D : t \in C
  BY <1>0 DEF Half
<1>2. FlightInv(e, E, D, G, ks)
  BY <1>0 DEF Half
<1>3. Trails(r, e.chain)
  BY DEF KeyOf, Trails
<1> HIDE DEF C
<1>11. PICK p \in E : p.sid = e.sid /\ Sent(e, p, D) /\ \A t \in E : t.sid = e.sid => t = p
  BY <1>0, <1>2 DEF Half, FlightInv
<1>12. p.own = e.chain /\ EndInv(p, D, ks, f + 1)
  BY <1>0, <1>11 DEF Sent, Half
<1>4. EndInv(r, E, ks, f + 1)
  <2>1. r.seen \subseteq ks
    BY <1>2 DEF FlightInv
  <2>2. Meets(r.sid, r.own, r.on, ~r.acked, E)
    BY <1>11, <1>12 DEF Meets
  <2>3. r.own # Prekey /\ r.sid < f + 1
    BY <1>11, <1>12 DEF EndInv, LinkTypes, Prekey
  <2> QED
    BY <1>3, <2>1, <2>2, <2>3 DEF EndInv
<1>5. ASSUME NEW sid, NEW chain, NEW on, NEW first, Meets(sid, chain, on, first, D),
             sid = e.sid /\ on = Prekey => chain = e.chain
      PROVE  Meets(sid, chain, on, first, C)
  <2>1. CASE sid # e.sid
    BY <1>1, <1>5, <2>1, MeetsElse
  <2>2. CASE sid = e.sid
    BY <1>1, <1>3, <1>5, <2>2 DEF Meets
  <2> QED
    BY <2>1, <2>2
<1>6. Half(C, E, F, ks, f + 1)
  <2>1. \A t \in C : EndInv(t, E, ks, f + 1)
    BY <1>0, <1>1, <1>4 DEF Half
  <2>2. ASSUME NEW g \in F PROVE FlightInv(g, C, E, F, ks)
    <3>1. FlightInv(g, D, E, F, ks)
      BY <1>0 DEF Half
    <3>2. g.sid # e.sid /\ \E t \in C : t.sid = g.sid
      BY <1>1, <3>1 DEF FlightInv
    <3>3. ASSUME NEW t \in C, t.sid = g.sid PROVE Sent(g, t, E)
      BY <1>1, <3>1, <3>2, <3>3 DEF FlightInv
    <3> QED
      BY <3>1, <3>2, <3>3 DEF FlightInv
  <2> QED
    BY <1>0, <1>1, <2>1, <2>2 DEF Half
<1>7. Half(E, C, H, ks, f + 1)
  <2>1. ASSUME NEW t \in E PROVE EndInv(t, C, ks, f + 1)
    <3>1. EndInv(t, D, ks, f + 1)
      BY <1>0 DEF Half
    <3>2. t.sid = e.sid => t.own = e.chain
      BY <1>11, <1>12
    <3>3. Meets(t.sid, t.own, t.on, ~t.acked, C)
      BY <1>5, <3>1, <3>2 DEF EndInv
    <3> QED
      BY <3>1, <3>3 DEF EndInv
  <2>2. ASSUME NEW g \in H PROVE FlightInv(g, E, C, H, ks)
    <3>1. FlightInv(g, E, D, H, ks)
      BY <1>0 DEF Half
    <3>2. ASSUME NEW t \in E, t.sid = g.sid PROVE Sent(g, t, C)
      BY <1>1, <3>1, <3>2 DEF FlightInv, Sent
    <3>3. Meets(g.sid, g.chain, g.on, g.prekey, C)
      <4>1. g.sid = e.sid /\ g.on = Prekey => g.chain = e.chain
        BY <1>2 DEF FlightInv
      <4> QED
        BY <1>5, <3>1, <4>1 DEF FlightInv
    <3>4. ASSUME NEW t \in C, t.sid = g.sid PROVE KeyOf(g) \notin t.seen
      <4>1. CASE t.sid # e.sid
        BY <1>1, <3>1, <3>4, <4>1 DEF FlightInv
      <4>2. CASE t.sid = e.sid
        BY <1>1, <4>2
      <4> QED
        BY <4>1, <4>2
    <3> QED
      BY <3>1, <3>2, <3>3, <3>4 DEF FlightInv
  <2> QED
    BY <1>0, <2>1, <2>2 DEF Half
<1> QED
  BY <1>6, <1>7 DEF Link, C

(* The ends of the sessions of a record *)
Ends(r) == {End(r[i]) : i \in 1..Len(r)}

(* Every session of the record has a chain of its own *)
OwnChains(r) ==
  /\ \A i \in 1..Len(r) : r[i].own # Prekey
  /\ \A i, j \in 1..Len(r) : r[i].own = r[j].own => i = j

LEMMA EndType ==
  ASSUME NEW s \in SessionState
  PROVE  /\ End(s) \in EndState
         /\ End(s).sid = s.sid /\ End(s).own = s.own /\ End(s).on = s.on
         /\ End(s).acked = s.acked /\ End(s).seen = s.seen
  BY DEF SessionState, EndState, End

LEMMA EndsType ==
  ASSUME NEW r \in Record
  PROVE  Ends(r) \in SUBSET EndState
<1>1. \A i \in 1..Len(r) : End(r[i]) \in EndState
  BY RecordParts, EndType
<1> QED
  BY <1>1 DEF Ends

LEMMA NoEnds == Ends(NoSession) = {}
  BY NoSessionType DEF Ends

(* The envelope is the one of an end, and that the session has used a key more *)
(* does not show                                                              *)
LEMMA EncryptedEnds ==
  ASSUME NEW r \in Record, r # NoSession
  PROVE  /\ Ends(Encrypted(r)) = Ends(r)
         /\ \E s \in Ends(r) :
              /\ Envelope(r).sid = s.sid /\ Envelope(r).chain = s.own
              /\ Envelope(r).on = s.on /\ Envelope(r).prekey = ~s.acked
<1>1. Len(r) \in Nat /\ Len(r) >= 1 /\ Head(r) = r[1] /\ r[1] \in SessionState
  BY RecordParts
<1>2. PICK q : q = Encrypted(r)
  OBVIOUS
<1>3. Len(q) = Len(r) /\ q[1] = [r[1] EXCEPT !.n = @ + 1] /\ \A i \in 2..Len(r) : q[i] = r[i]
  BY <1>2, EncryptedHas
<1>4. End(q[1]) = End(r[1])
  <2>1. PICK s \in SessionState : s = r[1]
    BY <1>1
  <2>2. End([s EXCEPT !.n = @ + 1]) = End(s)
    BY DEF SessionState, End
  <2> QED
    BY <1>3, <2>1, <2>2
<1>5. \A i \in 1..Len(r) : End(q[i]) = End(r[i])
  <2> SUFFICES ASSUME NEW i \in 1..Len(r) PROVE End(q[i]) = End(r[i])
    OBVIOUS
  <2>1. i = 1 \/ i \in 2..Len(r)
    BY <1>1
  <2> QED
    BY <1>3, <1>4, <2>1
<1>6. Ends(q) = Ends(r)
  BY <1>3, <1>5 DEF Ends
<1>7. End(r[1]) \in Ends(r)
  BY <1>1 DEF Ends
<1>8. /\ Envelope(r).sid = r[1].sid /\ Envelope(r).chain = r[1].own
      /\ Envelope(r).on = r[1].on /\ Envelope(r).prekey = ~r[1].acked
  BY <1>1 DEF Envelope
<1>9. PICK s : s = End(r[1])
  OBVIOUS
<1>10. s.sid = r[1].sid /\ s.own = r[1].own /\ s.on = r[1].on /\ s.acked = r[1].acked
  BY <1>1, <1>9, EndType
<1> QED
  BY <1>2, <1>6, <1>7, <1>8, <1>9, <1>10

LEMMA EstablishedEnds ==
  ASSUME NEW f \in Nat
  PROVE  \E s \in EndState :
           /\ Ends(Established(NoSession, f)) = {s}
           /\ s.sid = f /\ s.own = f /\ s.on = Prekey /\ s.acked = FALSE /\ s.seen = {}
<1>1. PICK t : t = [sid |-> f, own |-> f, on |-> Prekey, n |-> 0, acked |-> FALSE, seen |-> {}]
  OBVIOUS
<1>2. t \in SessionState
  BY <1>1 DEF SessionState, Prekey
<1>3. PICK q : q = Established(NoSession, f)
  OBVIOUS
<1>4. Len(q) = 1 /\ q[1] = t
  <2>1. NoSession \in Record /\ Len(NoSession) = 0
    BY NoSessionType
  <2>2. Len(Established(NoSession, f)) = Len(NoSession) + 1
    BY <2>1, EstablishedIs
  <2>3. Established(NoSession, f)[1] =
          [sid |-> f, own |-> f, on |-> Prekey, n |-> 0, acked |-> FALSE, seen |-> {}]
    BY <2>1, EstablishedHas
  <2> QED
    BY <1>1, <1>3, <2>1, <2>2, <2>3
<1>5. Ends(q) = {End(t)}
  BY <1>4 DEF Ends
<1>6. End(t) \in EndState /\ End(t).sid = f /\ End(t).own = f /\ End(t).on = Prekey
      /\ End(t).acked = FALSE /\ End(t).seen = {}
  BY <1>1, <1>2, EndType
<1> QED
  BY <1>3, <1>5, <1>6

(* What opens an envelope, by the ends *)
LEMMA OpensIs ==
  ASSUME NEW s, NEW e
  PROVE  Opens(s, e) <=>
           /\ s.sid = e.sid
           /\ \/ Trails(s, e.chain) /\ KeyOf(e) \notin s.seen
              \/ ~Trails(s, e.chain) /\ e.on = s.own
  BY DEF Opens, Follows, Trails, KeyOf

(* What an end becomes when it receives the envelope *)
Becoming(s, r, e, f) ==
  /\ r.sid = s.sid /\ r.acked = TRUE /\ r.seen = s.seen \cup {KeyOf(e)}
  /\ IF Trails(s, e.chain) THEN r.own = s.own /\ r.on = s.on ELSE r.own = f /\ r.on = e.chain

LEMMA ReceivedEnd ==
  ASSUME NEW s \in SessionState, NEW e \in Envelopes, NEW f \in Nat
  PROVE  Becoming(s, End(Received(s, e, f)), e, f)
<1> DEFINE seen == s.seen \cup {KeyOf(e)}
           read == [s EXCEPT !.acked = TRUE, !.seen = seen]
           new == [read EXCEPT !.own = f, !.on = e.chain, !.n = 0]
<1>1. seen \in SUBSET Key /\ e.chain \in Nat
  BY DEF Envelopes, Key, SessionState, KeyOf
<1>2. Received(s, e, f) = IF Trails(s, e.chain) THEN read ELSE new
  BY DEF Received, Follows, Trails, KeyOf
<1> HIDE DEF seen
<1>3. read \in SessionState /\ read.own = s.own /\ read.on = s.on /\ read.sid = s.sid
      /\ read.acked = TRUE /\ read.seen = seen
  BY <1>1 DEF SessionState
<1>4. new \in SessionState /\ new.own = f /\ new.on = e.chain /\ new.sid = s.sid
      /\ new.acked = TRUE /\ new.seen = seen
  BY <1>1 DEF SessionState
<1> HIDE DEF read, new
<1>5. CASE Trails(s, e.chain)
  BY <1>2, <1>3, <1>5, EndType DEF Becoming, seen
<1>6. CASE ~Trails(s, e.chain)
  BY <1>2, <1>4, <1>6, EndType DEF Becoming, seen
<1> QED
  BY <1>5, <1>6

(* The ends of a record that decrypted: one has received the envelope, be it *)
(* one of the record's or the answer to a first envelope                     *)
LEMMA DecryptedEnds ==
  ASSUME NEW r \in Record, OwnChains(r), NEW e \in Envelopes, NEW f \in Nat, Decryptable(r, e)
  PROVE  \E s \in EndState :
           \/ \E t \in Ends(r) :
                /\ Ends(Decrypted(r, e, f)) = (Ends(r) \ {t}) \cup {s}
                /\ Opens(t, e) /\ Becoming(t, s, e, f)
           \/ /\ Ends(Decrypted(r, e, f)) = Ends(r) \cup {s}
              /\ \A t \in Ends(r) : t.sid # e.sid
              /\ e.on = Prekey /\ Becoming(Answer(e), s, e, f)
<1>1. PICK tried : tried = Tried(r, e)
  OBVIOUS
<1>2. tried \in Record /\ Len(tried) \in Nat /\ \A k \in 1..Len(tried) : tried[k] \in SessionState
  BY <1>1, TriedIs, RecordParts
<1>3. PICK new : new = Decrypted(r, e, f)
  OBVIOUS
<1>4. PICK i \in 1..Len(tried) :
        /\ Opens(tried[i], e)
        /\ new \in Record /\ Len(new) = Len(tried)
        /\ new[1] = Received(tried[i], e, f)
        /\ \A k \in 2..Len(new) : new[k] = IF k <= i THEN tried[k - 1] ELSE tried[k]
  BY <1>1, <1>3, DecryptedIs
<1>5. PICK s : s = End(Received(tried[i], e, f))
  OBVIOUS
<1>6. s \in EndState /\ Becoming(tried[i], s, e, f)
  BY <1>2, <1>5, ReceivedEnd, ReceivedIs, EndType
<1>7. Ends(new) = {End(tried[k]) : k \in 1..Len(tried) \ {i}} \cup {s}
  <2>1. ASSUME NEW x \in Ends(new)
        PROVE  x = s \/ \E k \in 1..Len(tried) \ {i} : x = End(tried[k])
    <3>1. PICK k \in 1..Len(new) : x = End(new[k])
      BY DEF Ends
    <3>2. CASE k = 1
      BY <1>4, <1>5, <3>1, <3>2
    <3>3. CASE k # 1 /\ k <= i
      <4>1. k \in 2..Len(new) /\ k - 1 \in 1..Len(tried) \ {i}
        BY <1>2, <1>4, <3>3
      <4>2. new[k] = tried[k - 1]
        BY <1>4, <3>3, <4>1
      <4> QED
        BY <3>1, <4>1, <4>2
    <3>4. CASE k # 1 /\ k > i
      <4>1. k \in 2..Len(new) /\ k \in 1..Len(tried) \ {i} /\ ~(k <= i)
        BY <1>2, <1>4, <3>4
      <4>2. new[k] = tried[k]
        BY <1>4, <4>1
      <4> QED
        BY <3>1, <4>1, <4>2
    <3> QED
      BY <1>2, <1>4, <3>2, <3>3, <3>4
  <2>2. ASSUME NEW k \in 1..Len(tried) \ {i} PROVE End(tried[k]) \in Ends(new)
    <3>1. CASE k < i
      <4>1. k + 1 \in 2..Len(new) /\ k + 1 <= i /\ (k + 1) - 1 = k
        BY <1>2, <1>4, <3>1
      <4>2. new[k + 1] = tried[k] /\ k + 1 \in 1..Len(new)
        BY <1>2, <1>4, <4>1
      <4> QED
        BY <4>2 DEF Ends
    <3>2. CASE k > i
      <4>1. k \in 2..Len(new) /\ ~(k <= i)
        BY <1>2, <1>4, <3>2
      <4>2. new[k] = tried[k] /\ k \in 1..Len(new)
        BY <1>2, <1>4, <4>1
      <4> QED
        BY <4>2 DEF Ends
    <3> QED
      BY <1>2, <1>4, <3>1, <3>2
  <2>3. s \in Ends(new)
    <3>1. 1 \in 1..Len(new)
      BY <1>2, <1>4
    <3> QED
      BY <1>4, <1>5, <3>1 DEF Ends
  <2>4. Ends(new) \subseteq {End(tried[k]) : k \in 1..Len(tried) \ {i}} \cup {s}
    BY <2>1
  <2>5. {End(tried[k]) : k \in 1..Len(tried) \ {i}} \cup {s} \subseteq Ends(new)
    BY <2>2, <2>3
  <2> QED
    BY <2>4, <2>5
<1>8. CASE tried = r
  <2>1. PICK t : t = End(tried[i])
    OBVIOUS
  <2>2. t \in Ends(r)
    BY <1>8, <2>1 DEF Ends
  <2>3. \A k \in 1..Len(tried) \ {i} : End(tried[k]) # t
    <3> SUFFICES ASSUME NEW k \in 1..Len(tried) \ {i} PROVE End(tried[k]) # t
      OBVIOUS
    <3>1. tried[k].own # tried[i].own
      BY <1>8 DEF OwnChains
    <3>2. End(tried[k]).own = tried[k].own /\ t.own = tried[i].own
      BY <1>2, <2>1, EndType
    <3> QED
      BY <3>1, <3>2
  <2>4. Ends(r) \ {t} = {End(tried[k]) : k \in 1..Len(tried) \ {i}}
    <3>1. Ends(r) = {End(tried[k]) : k \in 1..Len(tried)}
      BY <1>8 DEF Ends
    <3> QED
      BY <2>1, <2>3, <3>1
  <2>5. t.sid = tried[i].sid /\ t.seen = tried[i].seen /\ t.own = tried[i].own
        /\ t.on = tried[i].on
    BY <1>2, <2>1, EndType
  <2>6. Trails(t, e.chain) <=> Trails(tried[i], e.chain)
    BY <2>5 DEF Trails
  <2>7. Opens(t, e)
    BY <1>4, <2>5, <2>6, OpensIs
  <2>8. Becoming(t, s, e, f)
    BY <1>6, <2>5, <2>6 DEF Becoming
  <2> QED
    BY <1>3, <1>6, <1>7, <2>2, <2>4, <2>7, <2>8
<1>9. CASE tried # r
  <2>1. tried = <<Answer(e)>> \o r /\ \A k \in 1..Len(r) : r[k].sid # e.sid
    BY <1>1, <1>9, TriedIs
  <2>2. Len(tried) = Len(r) + 1 /\ tried[1] = Answer(e) /\ \A k \in 1..Len(r) : tried[k + 1] = r[k]
    <3>1. PICK a \in SessionState : a = Answer(e)
      BY AnswerIs
    <3>2. tried = <<a>> \o r
      BY <2>1, <3>1
    <3> QED
      BY <3>1, <3>2, ConsType
  <2>3. Len(r) \in Nat
    BY RecordParts
  <2>4. i = 1
    <3> SUFFICES ASSUME i # 1 PROVE FALSE
      OBVIOUS
    <3>1. i - 1 \in 1..Len(r) /\ (i - 1) + 1 = i
      BY <2>2, <2>3
    <3>2. tried[i].sid # e.sid
      BY <2>1, <2>2, <3>1
    <3> QED
      BY <1>4, <3>2, OpensIs
  <2>5. Becoming(Answer(e), s, e, f)
    BY <1>6, <2>2, <2>4
  <2>6. e.on = Prekey
    <3>1. Opens(Answer(e), e)
      BY <1>4, <2>2, <2>4
    <3>2. Answer(e).own = Prekey /\ Answer(e).seen = {}
      BY DEF Answer
    <3> QED
      BY <3>1, <3>2, OpensIs DEF Trails
  <2>7. {End(tried[k]) : k \in 1..Len(tried) \ {i}} = Ends(r)
    <3>1. ASSUME NEW k \in 1..Len(tried) \ {i} PROVE End(tried[k]) \in Ends(r)
      <4>1. k - 1 \in 1..Len(r) /\ (k - 1) + 1 = k
        BY <2>2, <2>3, <2>4
      <4>2. tried[k] = r[k - 1]
        BY <2>2, <4>1
      <4> QED
        BY <4>1, <4>2 DEF Ends
    <3>2. ASSUME NEW k \in 1..Len(r)
          PROVE  End(r[k]) \in {End(tried[j]) : j \in 1..Len(tried) \ {i}}
      <4>1. k + 1 \in 1..Len(tried) \ {i}
        BY <2>2, <2>3, <2>4
      <4> QED
        BY <2>2, <4>1
    <3>3. {End(tried[k]) : k \in 1..Len(tried) \ {i}} \subseteq Ends(r)
      BY <3>1
    <3>4. Ends(r) \subseteq {End(tried[k]) : k \in 1..Len(tried) \ {i}}
      BY <3>2 DEF Ends
    <3> QED
      BY <3>3, <3>4
  <2>8. \A t \in Ends(r) : t.sid # e.sid
    <3> SUFFICES ASSUME NEW k \in 1..Len(r) PROVE End(r[k]).sid # e.sid
      BY DEF Ends
    <3> QED
      BY <2>1, RecordParts, EndType
  <2> QED
    BY <1>3, <1>6, <1>7, <2>5, <2>6, <2>7, <2>8
<1> QED
  BY <1>8, <1>9

(* An envelope that can be met by the ends of a record is decrypted with it *)
LEMMA MetIsDecryptable ==
  ASSUME NEW r \in Record, NEW e \in Envelopes,
         Meets(e.sid, e.chain, e.on, e.prekey, Ends(r)),
         \A t \in Ends(r) : t.sid = e.sid => KeyOf(e) \notin t.seen
  PROVE  Decryptable(r, e)
<1>1. PICK tried : tried = Tried(r, e)
  OBVIOUS
<1>2. tried \in Record /\ DOMAIN tried = 1..Len(tried)
  BY <1>1, TriedIs, RecordParts
<1>3. CASE \E t \in Ends(r) : t.sid = e.sid /\ (Trails(t, e.chain) \/ e.on = t.own)
  <2>1. PICK i \in 1..Len(r) :
          End(r[i]).sid = e.sid /\ (Trails(End(r[i]), e.chain) \/ e.on = End(r[i]).own)
    BY <1>3 DEF Ends
  <2>2. r[i] \in SessionState /\ DOMAIN r = 1..Len(r)
    BY RecordParts
  <2>3. End(r[i]).sid = r[i].sid /\ End(r[i]).seen = r[i].seen /\ End(r[i]).own = r[i].own
    BY <2>2, EndType
  <2>4. End(r[i]) \in Ends(r)
    BY DEF Ends
  <2>5. Opens(r[i], e)
    BY <2>1, <2>3, <2>4, OpensIs DEF Trails
  <2>6. Knows(r, e)
    BY <2>1, <2>2, <2>3 DEF Knows
  <2>7. tried = r
    BY <1>1, <2>6 DEF Tried
  <2> QED
    BY <1>1, <2>2, <2>5, <2>7 DEF Decryptable
<1>4. CASE (\A t \in Ends(r) : t.sid # e.sid) /\ e.prekey /\ e.on = Prekey
  <2>1. ~Knows(r, e)
    <3> SUFFICES ASSUME NEW i \in 1..Len(r) PROVE r[i].sid # e.sid
      BY RecordParts DEF Knows
    <3>1. End(r[i]) \in Ends(r) /\ End(r[i]).sid = r[i].sid
      BY RecordParts, EndType DEF Ends
    <3> QED
      BY <1>4, <3>1
  <2>2. tried = <<Answer(e)>> \o r
    BY <1>1, <1>4, <2>1 DEF Tried
  <2>3. 1 \in 1..Len(tried) /\ tried[1] = Answer(e)
    <3>1. PICK a \in SessionState : a = Answer(e)
      BY AnswerIs
    <3>2. tried = <<a>> \o r /\ Len(r) \in Nat
      BY <2>2, <3>1, RecordParts
    <3>3. Len(tried) = Len(r) + 1 /\ tried[1] = a
      BY <3>2, ConsType
    <3> QED
      BY <3>1, <3>2, <3>3
  <2>4. Opens(Answer(e), e)
    BY <1>4, OpensIs DEF Answer, Trails
  <2> QED
    BY <1>1, <1>2, <2>3, <2>4 DEF Decryptable
<1> QED
  BY <1>3, <1>4 DEF Meets

-----------------------------------------------------------------------------
(* The envelopes on their way from a device to the other stand in lines: at   *)
(* the activations that send them, in the queue, at the polls that fetched    *)
(* them.  No two have the same key.                                           *)

Apart(L) ==
  \A k, l \in DOMAIN L : \A i \in 1..Len(L[k]), j \in 1..Len(L[l]) :
    KeyOf(L[k][i]) = KeyOf(L[l][j]) => k = l /\ i = j

With(L, l, q) == [L EXCEPT ![l] = q]

Flights(L) == {e \in Envelopes : \E l \in DOMAIN L : \E i \in 1..Len(L[l]) : L[l][i] = e}

(* The head of a line leaves *)
LEMMA LineDrops ==
  ASSUME NEW N, NEW L \in [N -> Seq(Envelopes)], Apart(L), NEW k \in N, L[k] # <<>>,
         NEW M, M = With(L, k, Tail(L[k]))
  PROVE  /\ Apart(M) /\ Flights(M) \subseteq Flights(L)
         /\ Head(L[k]) \in Flights(L) /\ \A g \in Flights(M) : KeyOf(g) # KeyOf(Head(L[k]))
<1>1. PICK q \in Seq(Envelopes) : q = L[k] /\ q # <<>>
  OBVIOUS
<1>2. /\ Len(q) \in Nat /\ Len(q) >= 1 /\ Len(Tail(q)) = Len(q) - 1
      /\ Head(q) = q[1] /\ Head(q) \in Envelopes /\ Tail(q) \in Seq(Envelopes)
      /\ \A i \in 1..(Len(q) - 1) : Tail(q)[i] = q[i + 1]
  BY <1>1
<1>3. /\ M \in [N -> Seq(Envelopes)] /\ M[k] = Tail(q)
      /\ \A l \in N : l # k => M[l] = L[l]
  BY <1>1, <1>2 DEF With
<1>4. \A i \in 1..Len(M[k]) : i + 1 \in 1..Len(L[k]) /\ i + 1 # 1 /\ M[k][i] = L[k][i + 1]
  BY <1>1, <1>2, <1>3 DEF With
<1>5. \A l \in N : \A i \in 1..Len(M[l]) :
        IF l = k THEN i + 1 \in 1..Len(L[l]) /\ i + 1 # 1 /\ M[l][i] = L[l][i + 1]
        ELSE i \in 1..Len(L[l]) /\ M[l][i] = L[l][i]
  BY <1>3, <1>4
<1>6. Apart(M)
  <2> SUFFICES ASSUME NEW a \in N, NEW b \in N, NEW i \in 1..Len(M[a]), NEW j \in 1..Len(M[b]),
                      KeyOf(M[a][i]) = KeyOf(M[b][j])
               PROVE  a = b /\ i = j
    BY <1>3 DEF Apart
  <2>1. PICK x \in 1..Len(L[a]) : M[a][i] = L[a][x] /\ x = IF a = k THEN i + 1 ELSE i
    BY <1>5
  <2>2. PICK y \in 1..Len(L[b]) : M[b][j] = L[b][y] /\ y = IF b = k THEN j + 1 ELSE j
    BY <1>5
  <2>3. a = b /\ x = y
    BY <2>1, <2>2 DEF Apart
  <2>4. i \in Int /\ j \in Int
    OBVIOUS
  <2> QED
    BY <2>1, <2>2, <2>3, <2>4
<1>7. Flights(M) \subseteq Flights(L)
  BY <1>3, <1>5 DEF Flights
<1>8. Head(L[k]) \in Flights(L) /\ 1 \in 1..Len(L[k]) /\ Head(L[k]) = L[k][1]
  BY <1>1, <1>2 DEF Flights
<1>9. ASSUME NEW g \in Flights(M), KeyOf(g) = KeyOf(L[k][1]) PROVE FALSE
  <2>0. PICK l \in N : \E i \in 1..Len(M[l]) : M[l][i] = g
    BY <1>3 DEF Flights
  <2>1. PICK i \in 1..Len(M[l]) : M[l][i] = g
    BY <2>0
  <2>2. PICK x \in 1..Len(L[l]) : M[l][i] = L[l][x] /\ (l = k => x # 1)
    BY <1>5
  <2>3. l = k /\ x = 1
    BY <1>8, <1>9, <2>1, <2>2 DEF Apart
  <2> QED
    BY <2>2, <2>3
<1> QED
  BY <1>6, <1>7, <1>8, <1>9

(* An envelope with a key of its own enters an empty line *)
LEMMA LineAdds ==
  ASSUME NEW N, NEW L \in [N -> Seq(Envelopes)], Apart(L), NEW k \in N, L[k] = <<>>,
         NEW e \in Envelopes, \A g \in Flights(L) : KeyOf(g) # KeyOf(e),
         NEW q \in Seq(Envelopes), Len(q) = 1, q[1] = e, NEW M, M = With(L, k, q)
  PROVE  Apart(M) /\ Flights(M) \subseteq Flights(L) \cup {e}
<1>2. q \in Seq(Envelopes) /\ Len(q) = 1 /\ q[1] = e
  OBVIOUS
<1>3. M \in [N -> Seq(Envelopes)] /\ M[k] = q /\ \A l \in N : l # k => M[l] = L[l]
  BY <1>2 DEF With
<1>4. \A l \in N : \A i \in 1..Len(M[l]) :
        IF l = k THEN i = 1 /\ M[l][i] = e
        ELSE i \in 1..Len(L[l]) /\ M[l][i] = L[l][i] /\ L[l][i] \in Flights(L)
  <2> SUFFICES ASSUME NEW l \in N, NEW i \in 1..Len(M[l])
               PROVE  IF l = k THEN i = 1 /\ M[l][i] = e
                      ELSE i \in 1..Len(L[l]) /\ M[l][i] = L[l][i] /\ L[l][i] \in Flights(L)
    OBVIOUS
  <2>1. CASE l = k
    <3>1. M[l] = q /\ i \in 1..1
      BY <1>2, <1>3, <2>1
    <3>2. i = 1
      BY <3>1
    <3> QED
      BY <1>2, <2>1, <3>1, <3>2
  <2>2. CASE l # k
    <3>1. i \in 1..Len(L[l]) /\ M[l][i] = L[l][i] /\ L[l][i] \in Envelopes
      BY <1>3, <2>2
    <3> QED
      BY <2>2, <3>1 DEF Flights
  <2> QED
    BY <2>1, <2>2
<1>5. Apart(M)
  <2> SUFFICES ASSUME NEW a \in N, NEW b \in N, NEW i \in 1..Len(M[a]), NEW j \in 1..Len(M[b]),
                      KeyOf(M[a][i]) = KeyOf(M[b][j])
               PROVE  a = b /\ i = j
    BY <1>3 DEF Apart
  <2>1. CASE a = k /\ b = k
    BY <1>4, <2>1 DEF With
  <2>2. CASE a = k /\ b # k
    BY <1>4, <2>2
  <2>3. CASE a # k /\ b = k
    BY <1>4, <2>3
  <2>4. CASE a # k /\ b # k
    BY <1>4, <2>4 DEF Apart, With
  <2> QED
    BY <2>1, <2>2, <2>3, <2>4
<1>6. Flights(M) \subseteq Flights(L) \cup {e}
  <2> SUFFICES ASSUME NEW g \in Flights(M), g # e PROVE g \in Flights(L)
    OBVIOUS
  <2>0. PICK l \in N : \E i \in 1..Len(M[l]) : M[l][i] = g
    BY <1>3 DEF Flights
  <2>1. PICK i \in 1..Len(M[l]) : M[l][i] = g
    BY <2>0
  <2> QED
    BY <1>4, <2>1
<1> QED
  BY <1>5, <1>6

(* The one envelope of a line goes to the end of another *)
LEMMA LineSends ==
  ASSUME NEW N, NEW L \in [N -> Seq(Envelopes)], Apart(L), NEW j \in N, NEW k \in N, j # k,
         NEW e \in Envelopes, Len(L[j]) = 1, L[j][1] = e,
         NEW M, M = With(With(L, j, <<>>), k, Append(L[k], e))
  PROVE  Apart(M) /\ Flights(M) \subseteq Flights(L)
<1>0. \A a, b \in N : \A i \in 1..Len(L[a]), h \in 1..Len(L[b]) :
        KeyOf(L[a][i]) = KeyOf(L[b][h]) => a = b /\ i = h
  <2>1. DOMAIN L = N
    OBVIOUS
  <2> QED
    BY <2>1 DEF Apart
<1>1. PICK q \in Seq(Envelopes) : q = L[k]
  OBVIOUS
<1>2. /\ Append(q, e) \in Seq(Envelopes) /\ Len(Append(q, e)) = Len(q) + 1 /\ Len(q) \in Nat
      /\ \A i \in 1..Len(q) : Append(q, e)[i] = q[i]
      /\ Append(q, e)[Len(q) + 1] = e
  BY <1>1
<1>3. /\ M[k] = Append(q, e) /\ Len(M[j]) = 0 /\ M \in [N -> Seq(Envelopes)]
      /\ \A l \in N : l # k /\ l # j => M[l] = L[l]
  <2>1. <<>> \in Seq(Envelopes) /\ Len(<<>>) = 0
    OBVIOUS
  <2>2. M = [L EXCEPT ![j] = <<>>, ![k] = Append(q, e)]
    BY <1>1 DEF With
  <2>3. M \in [N -> Seq(Envelopes)]
    BY <1>2, <2>1, <2>2
  <2> QED
    BY <1>2, <2>1, <2>2, <2>3
<1>4. 1 \in 1..Len(L[j]) /\ L[j][1] = e
  OBVIOUS
<1>5. \A l \in N : \A i \in 1..Len(M[l]) :
        \/ l # j /\ i \in 1..Len(L[l]) /\ M[l][i] = L[l][i]
        \/ l = k /\ i = Len(q) + 1 /\ M[l][i] = L[j][1]
  <2> SUFFICES ASSUME NEW l \in N, NEW i \in 1..Len(M[l])
               PROVE  \/ l # j /\ i \in 1..Len(L[l]) /\ M[l][i] = L[l][i]
                      \/ l = k /\ i = Len(q) + 1 /\ M[l][i] = L[j][1]
    OBVIOUS
  <2>1. CASE l = k
    <3>1. i \in 1..Len(q) \/ i = Len(q) + 1
      BY <1>2, <1>3, <2>1
    <3> QED
      BY <1>1, <1>2, <1>3, <1>4, <2>1, <3>1
  <2>2. CASE l = j
    <3>1. i \in 1..0
      BY <1>3, <2>2
    <3> QED
      BY <3>1
  <2>3. CASE l # k /\ l # j
    BY <1>3, <2>3
  <2> QED
    BY <2>1, <2>2, <2>3
<1>6. Apart(M)
  <2> SUFFICES ASSUME NEW a \in N, NEW b \in N, NEW i \in 1..Len(M[a]), NEW h \in 1..Len(M[b]),
                      KeyOf(M[a][i]) = KeyOf(M[b][h])
               PROVE  a = b /\ i = h
    <3>1. DOMAIN M = N
      BY <1>3
    <3> QED
      BY <3>1 DEF Apart
  <2>1. CASE /\ a # j /\ i \in 1..Len(L[a]) /\ M[a][i] = L[a][i]
             /\ b # j /\ h \in 1..Len(L[b]) /\ M[b][h] = L[b][h]
    BY <1>0, <2>1
  <2>2. CASE /\ a # j /\ i \in 1..Len(L[a]) /\ M[a][i] = L[a][i]
             /\ b = k /\ h = Len(q) + 1 /\ M[b][h] = L[j][1]
    <3>1. KeyOf(L[a][i]) = KeyOf(L[j][1])
      BY <2>2
    <3> QED
      BY <1>0, <1>4, <2>2, <3>1
  <2>3. CASE /\ a = k /\ i = Len(q) + 1 /\ M[a][i] = L[j][1]
             /\ b # j /\ h \in 1..Len(L[b]) /\ M[b][h] = L[b][h]
    <3>1. KeyOf(L[j][1]) = KeyOf(L[b][h])
      BY <2>3
    <3> QED
      BY <1>0, <1>4, <2>3, <3>1
  <2>4. CASE /\ a = k /\ i = Len(q) + 1 /\ b = k /\ h = Len(q) + 1
    BY <2>4
  <2>5. \/ a # j /\ i \in 1..Len(L[a]) /\ M[a][i] = L[a][i]
        \/ a = k /\ i = Len(q) + 1 /\ M[a][i] = L[j][1]
    BY <1>5
  <2>6. \/ b # j /\ h \in 1..Len(L[b]) /\ M[b][h] = L[b][h]
        \/ b = k /\ h = Len(q) + 1 /\ M[b][h] = L[j][1]
    BY <1>5
  <2> QED
    BY <2>1, <2>2, <2>3, <2>4, <2>5, <2>6
<1>7. Flights(M) \subseteq Flights(L)
  <2> SUFFICES ASSUME NEW g \in Flights(M) PROVE g \in Flights(L)
    OBVIOUS
  <2>0. PICK l \in N : \E i \in 1..Len(M[l]) : M[l][i] = g
    BY <1>3 DEF Flights
  <2>1. PICK i \in 1..Len(M[l]) : M[l][i] = g
    BY <2>0
  <2>2. PICK x \in N : \E y \in 1..Len(L[x]) : L[x][y] = g
    BY <1>4, <1>5, <2>1
  <2>3. g \in Envelopes /\ DOMAIN L = N
    BY DEF Flights
  <2> QED
    BY <2>2, <2>3 DEF Flights
<1> QED
  BY <1>6, <1>7

(* A whole line goes to an empty one *)
LEMMA LineMoves ==
  ASSUME NEW N, NEW L \in [N -> Seq(Envelopes)], Apart(L), NEW j \in N, NEW k \in N, j # k,
         L[k] = <<>>, NEW M, M = With(With(L, j, <<>>), k, L[j])
  PROVE  Apart(M) /\ Flights(M) \subseteq Flights(L)
<1>0. \A a, b \in N : \A i \in 1..Len(L[a]), h \in 1..Len(L[b]) :
        KeyOf(L[a][i]) = KeyOf(L[b][h]) => a = b /\ i = h
  <2>1. DOMAIN L = N
    OBVIOUS
  <2> QED
    BY <2>1 DEF Apart
<1>1. /\ M[k] = L[j] /\ Len(M[j]) = 0 /\ M \in [N -> Seq(Envelopes)]
      /\ \A l \in N : l # k /\ l # j => M[l] = L[l]
  <2>1. <<>> \in Seq(Envelopes) /\ Len(<<>>) = 0
    OBVIOUS
  <2>2. M \in [N -> Seq(Envelopes)]
    BY <2>1 DEF With
  <2> QED
    BY <2>1, <2>2 DEF With
<1>2. \A l \in N : \A i \in 1..Len(M[l]) :
        \/ l = k /\ i \in 1..Len(L[j]) /\ M[l][i] = L[j][i]
        \/ l # k /\ l # j /\ i \in 1..Len(L[l]) /\ M[l][i] = L[l][i]
  <2> SUFFICES ASSUME NEW l \in N, NEW i \in 1..Len(M[l])
               PROVE  \/ l = k /\ i \in 1..Len(L[j]) /\ M[l][i] = L[j][i]
                      \/ l # k /\ l # j /\ i \in 1..Len(L[l]) /\ M[l][i] = L[l][i]
    OBVIOUS
  <2>1. CASE l = j
    <3>1. i \in 1..0
      BY <1>1, <2>1
    <3> QED
      BY <3>1
  <2> QED
    BY <1>1, <2>1
<1>3. Apart(M)
  <2> SUFFICES ASSUME NEW a \in N, NEW b \in N, NEW i \in 1..Len(M[a]), NEW h \in 1..Len(M[b]),
                      KeyOf(M[a][i]) = KeyOf(M[b][h])
               PROVE  a = b /\ i = h
    BY <1>1 DEF Apart
  <2>1. CASE a = k /\ b = k
    BY <1>0, <1>2, <2>1
  <2>2. CASE a = k /\ b # k
    BY <1>0, <1>2, <2>2
  <2>3. CASE a # k /\ b = k
    BY <1>0, <1>2, <2>3
  <2>4. CASE a # k /\ b # k
    <3>1. i \in 1..Len(L[a]) /\ M[a][i] = L[a][i] /\ h \in 1..Len(L[b]) /\ M[b][h] = L[b][h]
      BY <1>2, <2>4
    <3>2. KeyOf(L[a][i]) = KeyOf(L[b][h])
      BY <3>1
    <3> QED
      BY <1>0, <3>1, <3>2
  <2> QED
    BY <2>1, <2>2, <2>3, <2>4
<1>4. Flights(M) \subseteq Flights(L)
  BY <1>1, <1>2 DEF Flights
<1> QED
  BY <1>3, <1>4

-----------------------------------------------------------------------------
(* The lines of the two devices, and what every envelope in them can count on *)

OutOf(a) == IF a.step = "send" THEN <<Head(a.batch)>> ELSE <<>>
Waiting(a) ==
  IF a.op = "poll" /\ a.step \notin {"none", "fetch"}
  THEN IF a.step = "send" THEN Tail(a.batch) ELSE a.batch
  ELSE <<>>

Line == ({"out", "in"} \X Task) \cup {<<"queue", None>>}
Lines(d) ==
  [l \in Line |->
     IF l[1] = "queue" THEN queue[Peer(d)]
     ELSE IF l[1] = "out" THEN OutOf(act[d][l[2]]) ELSE Waiting(act[Peer(d)][l[2]])]

Linked(d) ==
  Link(Ends(Rec[d]), Ends(Rec[Peer(d)]), Flights(Lines(d)), Flights(Lines(Peer(d))), keys, fresh)

(* A session is established by a page that has none, on disk neither *)
Bundled == \A d \in Device, t \in Task : act[d][t].step = "bundle" => disk[d] = NoSession

Reading ==
  /\ \A d \in Device : Apart(Lines(d)) /\ Linked(d)
  /\ Bundled /\ ~rejected

ReadInv == Undisturbed => Reading

LEMMA Pair ==
  ASSUME NEW d \in Device
  PROVE  /\ Peer(d) \in Device /\ Peer(d) # d /\ Peer(Peer(d)) = d
         /\ \A e \in Device : e = d \/ e = Peer(d)
<1>1. PICK p \in Device \ {d} : Device = {d, p}
  BY SessionAssumption
<1>2. Peer(d) = p
  BY <1>1 DEF Peer
<1>3. Peer(p) = d
  BY <1>1 DEF Peer
<1> QED
  BY <1>1, <1>2, <1>3

(* Linked at one device is linked at both *)
LEMMA LinkedBoth ==
  ASSUME NEW d \in Device, Linked(d)
  PROVE  \A e \in Device : Linked(e)
<1>1. Linked(Peer(d))
  BY Pair, LinkSwaps DEF Linked
<1> QED
  BY <1>1, Pair

LEMMA LineParts ==
  ASSUME NEW a \in Activation, Shape(a)
  PROVE  OutOf(a) \in Seq(Envelopes) /\ Waiting(a) \in Seq(Envelopes)
<1>1. PICK b \in Seq(Envelopes) : b = a.batch
  BY DEF Activation
<1>2. b # <<>> => Head(b) \in Envelopes /\ Tail(b) \in Seq(Envelopes)
  BY <1>1
<1>3. CASE a.step = "send"
  <2>1. b # <<>>
    BY <1>1, <1>3 DEF Shape
  <2>2. <<Head(b)>> \in Seq(Envelopes)
    BY <1>2, <2>1
  <2>3. <<>> \in Seq(Envelopes)
    OBVIOUS
  <2> QED
    BY <1>1, <1>2, <1>3, <2>1, <2>2, <2>3 DEF OutOf, Waiting
<1>4. CASE a.step # "send"
  <2>1. <<>> \in Seq(Envelopes)
    OBVIOUS
  <2> QED
    BY <1>1, <1>4, <2>1 DEF OutOf, Waiting
<1> QED
  BY <1>3, <1>4

LEMMA LineCases ==
  /\ \A t \in Task : <<"out", t>> \in Line /\ <<"in", t>> \in Line
  /\ <<"queue", None>> \in Line
  /\ \A l \in Line :
       \/ l = <<"queue", None>>
       \/ \E t \in Task : l = <<"out", t>>
       \/ \E t \in Task : l = <<"in", t>>
  BY DEF Line

LEMMA LinesAre ==
  ASSUME NEW d \in Device
  PROVE  /\ Lines(d)[<<"queue", None>>] = queue[Peer(d)]
         /\ \A t \in Task : Lines(d)[<<"out", t>>] = OutOf(act[d][t])
         /\ \A t \in Task : Lines(d)[<<"in", t>>] = Waiting(act[Peer(d)][t])
  BY LineCases DEF Lines

LEMMA LinesType ==
  ASSUME TypeInv, NEW d \in Device
  PROVE  Lines(d) \in [Line -> Seq(Envelopes)]
<1>1. \A l \in Line : Lines(d)[l] \in Seq(Envelopes)
  <2> SUFFICES ASSUME NEW l \in Line PROVE Lines(d)[l] \in Seq(Envelopes)
    OBVIOUS
  <2>1. CASE l = <<"queue", None>>
    BY <2>1, LinesAre, Pair DEF TypeInv, TypeOK
  <2>2. ASSUME NEW t \in Task, l = <<"out", t>> PROVE Lines(d)[l] \in Seq(Envelopes)
    BY <2>2, LinesAre, LineParts, ActParts
  <2>3. ASSUME NEW t \in Task, l = <<"in", t>> PROVE Lines(d)[l] \in Seq(Envelopes)
    BY <2>3, LinesAre, LineParts, ActParts, Pair
  <2> QED
    BY <2>1, <2>2, <2>3, LineCases
<1> QED
  BY <1>1 DEF Lines

(* One activation of d changes; and perhaps the queue of one device *)
LEMMA LinesNext ==
  ASSUME NEW d \in Device, NEW t \in Task, NEW a, act'[d][t] = a,
         \A e \in Device, u \in Task : <<e, u>> # <<d, t>> => act'[e][u] = act[e][u]
  PROVE  /\ queue'[Peer(d)] = queue[Peer(d)] =>
              Lines(d)' = With(Lines(d), <<"out", t>>, OutOf(a))
         /\ queue'[d] = queue[d] =>
              Lines(Peer(d))' = With(Lines(Peer(d)), <<"in", t>>, Waiting(a))
         /\ Lines(d)' =
              With(With(Lines(d), <<"out", t>>, OutOf(a)), <<"queue", None>>, queue'[Peer(d)])
         /\ Lines(Peer(d))' =
              With(With(Lines(Peer(d)), <<"queue", None>>, queue'[d]), <<"in", t>>, Waiting(a))
<1>1. PICK p : p = Peer(d) /\ p \in Device /\ p # d /\ Peer(p) = d
  BY Pair
<1>2. ASSUME NEW l \in Line
      PROVE  /\ Lines(d)'[l] = IF l = <<"out", t>> THEN OutOf(a)
                               ELSE IF l = <<"queue", None>> THEN queue'[p] ELSE Lines(d)[l]
             /\ Lines(p)'[l] = IF l = <<"in", t>> THEN Waiting(a)
                               ELSE IF l = <<"queue", None>> THEN queue'[d] ELSE Lines(p)[l]
  <2>1. CASE l = <<"queue", None>>
    BY <1>1, <2>1, LineCases DEF Lines
  <2>2. ASSUME NEW u \in Task, l = <<"out", u>>
        PROVE  /\ Lines(d)'[l] = IF u = t THEN OutOf(a) ELSE Lines(d)[l]
               /\ Lines(p)'[l] = Lines(p)[l]
    <3>1. act'[p][u] = act[p][u] /\ act'[d][u] = IF u = t THEN a ELSE act[d][u]
      BY <1>1
    <3>2. Lines(d)'[l] = OutOf(act'[d][u]) /\ Lines(p)'[l] = OutOf(act'[p][u])
      BY <2>2 DEF Lines
    <3>3. Lines(d)[l] = OutOf(act[d][u]) /\ Lines(p)[l] = OutOf(act[p][u])
      BY <2>2 DEF Lines
    <3> QED
      BY <3>1, <3>2, <3>3
  <2>3. ASSUME NEW u \in Task, l = <<"in", u>>
        PROVE  /\ Lines(d)'[l] = Lines(d)[l]
               /\ Lines(p)'[l] = IF u = t THEN Waiting(a) ELSE Lines(p)[l]
    <3>1. act'[p][u] = act[p][u] /\ act'[d][u] = IF u = t THEN a ELSE act[d][u]
      BY <1>1
    <3>2. Lines(d)'[l] = Waiting(act'[p][u]) /\ Lines(p)'[l] = Waiting(act'[d][u])
      BY <1>1, <2>3 DEF Lines
    <3>3. Lines(d)[l] = Waiting(act[p][u]) /\ Lines(p)[l] = Waiting(act[d][u])
      BY <1>1, <2>3 DEF Lines
    <3> QED
      BY <3>1, <3>2, <3>3
  <2> QED
    BY <2>1, <2>2, <2>3, LineCases
<1>3. /\ Lines(d) = [l \in Line |-> Lines(d)[l]] /\ Lines(d)' = [l \in Line |-> Lines(d)'[l]]
      /\ Lines(p) = [l \in Line |-> Lines(p)[l]] /\ Lines(p)' = [l \in Line |-> Lines(p)'[l]]
  BY DEF Lines
<1>4. Lines(d)[<<"queue", None>>] = queue[p] /\ Lines(p)[<<"queue", None>>] = queue[d]
  BY <1>1, LinesAre
<1>5. PICK L, K, M, N : L = Lines(d) /\ K = Lines(p) /\ M = Lines(d)' /\ N = Lines(p)'
  OBVIOUS
<1>6. PICK o, i, q : /\ o = <<"out", t>> /\ i = <<"in", t>> /\ q = <<"queue", None>>
                     /\ o # q /\ i # q
  <2>1. <<"out", t>> # <<"queue", None>> /\ <<"in", t>> # <<"queue", None>>
    OBVIOUS
  <2> QED
    BY <2>1
<1>7. /\ L = [l \in Line |-> L[l]] /\ K = [l \in Line |-> K[l]]
      /\ M = [l \in Line |-> IF l = o THEN OutOf(a) ELSE IF l = q THEN queue'[p] ELSE L[l]]
      /\ N = [l \in Line |-> IF l = i THEN Waiting(a) ELSE IF l = q THEN queue'[d] ELSE K[l]]
  BY <1>2, <1>3, <1>5, <1>6
<1>8. L[q] = queue[p] /\ K[q] = queue[d]
  BY <1>4, <1>5, <1>6
<1>9. queue'[p] = queue[p] => M = With(L, o, OutOf(a))
  BY <1>6, <1>7, <1>8 DEF With
<1>10. queue'[d] = queue[d] => N = With(K, i, Waiting(a))
  BY <1>6, <1>7, <1>8 DEF With
<1>11. M = With(With(L, o, OutOf(a)), q, queue'[p])
  BY <1>6, <1>7 DEF With
<1>12. N = With(With(K, q, queue'[d]), i, Waiting(a))
  BY <1>6, <1>7 DEF With
<1> QED
  BY <1>1, <1>5, <1>6, <1>9, <1>10, <1>11, <1>12

(* Every activation goes on with the same envelopes *)
LEMMA LinesSame ==
  ASSUME queue' = queue,
         \A e \in Device, u \in Task : /\ OutOf(act'[e][u]) = OutOf(act[e][u])
                                      /\ Waiting(act'[e][u]) = Waiting(act[e][u]),
         NEW e \in Device
  PROVE  Lines(e)' = Lines(e)
<1>1. ASSUME NEW l \in Line PROVE Lines(e)'[l] = Lines(e)[l]
  <2>1. CASE l = <<"queue", None>>
    BY <2>1 DEF Lines
  <2>2. ASSUME NEW u \in Task, l = <<"out", u>> PROVE Lines(e)'[l] = Lines(e)[l]
    BY <2>2 DEF Lines
  <2>3. ASSUME NEW u \in Task, l = <<"in", u>> PROVE Lines(e)'[l] = Lines(e)[l]
    BY <2>3, Pair DEF Lines
  <2> QED
    BY <2>1, <2>2, <2>3, LineCases
<1>2. Lines(e) = [l \in Line |-> Lines(e)[l]] /\ Lines(e)' = [l \in Line |-> Lines(e)'[l]]
  BY DEF Lines
<1> QED
  BY <1>1, <1>2

LEMMA LinesStay ==
  ASSUME NEW d \in Device, NEW t \in Task, NEW a, act'[d][t] = a,
         \A e \in Device, u \in Task : <<e, u>> # <<d, t>> => act'[e][u] = act[e][u],
         queue' = queue, OutOf(a) = OutOf(act[d][t]), Waiting(a) = Waiting(act[d][t])
  PROVE  \A e \in Device : Lines(e)' = Lines(e)
<1>1. \A e \in Device, u \in Task : /\ OutOf(act'[e][u]) = OutOf(act[e][u])
                                    /\ Waiting(act'[e][u]) = Waiting(act[e][u])
  <2> SUFFICES ASSUME NEW e \in Device, NEW u \in Task
               PROVE  /\ OutOf(act'[e][u]) = OutOf(act[e][u])
                      /\ Waiting(act'[e][u]) = Waiting(act[e][u])
    OBVIOUS
  <2>1. <<e, u>> # <<d, t>> => act'[e][u] = act[e][u]
    OBVIOUS
  <2> QED
    BY <2>1
<1> QED
  BY <1>1, LinesSame

(* Neither the ends nor the lines change *)
LEMMA NothingRead ==
  ASSUME Reading, Rec' = Rec, \A e \in Device : Lines(e)' = Lines(e),
         UNCHANGED <<keys, fresh, rejected>>, Bundled'
  PROVE  Reading'
<1>1. \A e \in Device : Apart(Lines(e))' /\ Linked(e)'
  <2> SUFFICES ASSUME NEW e \in Device PROVE Apart(Lines(e))' /\ Linked(e)'
    OBVIOUS
  <2>1. Lines(e)' = Lines(e) /\ Lines(Peer(e))' = Lines(Peer(e))
    BY Pair
  <2> QED
    BY <2>1 DEF Reading, Linked
<1> QED
  BY <1>1 DEF Reading

-----------------------------------------------------------------------------
(* Each action preserves it *)

LEMMA RecStays ==
  ASSUME UNCHANGED <<disk, store, current>>
  PROVE  Rec' = Rec
  BY DEF Rec, S

LEMMA BundledNext ==
  ASSUME Bundled, NEW d \in Device, NEW t \in Task, NEW a, act'[d][t] = a, disk' = disk,
         \A e \in Device, u \in Task : <<e, u>> # <<d, t>> => act'[e][u] = act[e][u],
         a.step = "bundle" => disk[d] = NoSession
  PROVE  Bundled'
<1> SUFFICES ASSUME NEW e \in Device, NEW u \in Task, act'[e][u].step = "bundle"
             PROVE  disk[e] = NoSession
  BY DEF Bundled
<1>1. CASE <<e, u>> = <<d, t>>
  BY <1>1
<1>2. CASE <<e, u>> # <<d, t>>
  BY <1>2 DEF Bundled
<1> QED
  BY <1>1, <1>2

(* An activation goes on and nothing is encrypted or decrypted *)
LEMMA GoesOn ==
  ASSUME Reading, NEW d \in Device, NEW t \in Task, NEW a, act'[d][t] = a,
         \A e \in Device, u \in Task : <<e, u>> # <<d, t>> => act'[e][u] = act[e][u],
         UNCHANGED <<disk, queue, store, current, keys, fresh, rejected>>,
         OutOf(a) = OutOf(act[d][t]), Waiting(a) = Waiting(act[d][t]),
         a.step = "bundle" => disk[d] = NoSession
  PROVE  Reading'
<1>1. \A e \in Device : Lines(e)' = Lines(e)
  BY LinesStay
<1>2. Bundled'
  BY BundledNext DEF Reading
<1> QED
  BY <1>1, <1>2, RecStays, NothingRead

LEMMA SameLines ==
  ASSUME NEW a, NEW b, a.op = b.op, a.batch = b.batch,
         a.step \notin {"none", "fetch", "send"}, b.step \notin {"none", "fetch", "send"}
  PROVE  OutOf(a) = OutOf(b) /\ Waiting(a) = Waiting(b)
  BY DEF OutOf, Waiting

LEMMA IdleLines == OutOf(Idle) = <<>> /\ Waiting(Idle) = <<>>
  BY IdleIs DEF OutOf, Waiting

LEMMA BeginReads ==
  ASSUME TypeInv, Reading, NEW d \in Device, NEW t \in Task, NEW op \in {"send", "poll"},
         Begin(d, t, op)
  PROVE  Reading'
<1>1. PICK a : a = [Idle EXCEPT !.op = op, !.step = IF op = "send" THEN "check" ELSE "fetch",
                                !.store = current[d]]
  OBVIOUS
<1>2. a \in Activation /\ a.op = op /\ a.step = IF op = "send" THEN "check" ELSE "fetch"
  <2>1. current[d] \in Store
    BY DEF TypeInv, TypeOK
  <2>2. PICK b : b = Idle /\ b \in Activation
    BY IdleIs
  <2>3. PICK step : step = (IF op = "send" THEN "check" ELSE "fetch")
    OBVIOUS
  <2>4. a = [b EXCEPT !.op = op, !.step = step, !.store = current[d]]
    BY <1>1, <2>2, <2>3
  <2>5. step \in {"check", "fetch"}
    BY <2>3
  <2> QED
    BY <2>1, <2>2, <2>3, <2>4, <2>5 DEF Activation
<1>3. Becomes(d, t, a) /\ act[d][t] = Idle
  BY <1>1 DEF Begin, Becomes
<1>4. /\ act'[d][t] = a
      /\ \A e \in Device, u \in Task : <<e, u>> # <<d, t>> => act'[e][u] = act[e][u]
  BY <1>2, <1>3, BecomesIs
<1>5. UNCHANGED <<disk, queue, store, current, keys, fresh, rejected>>
  BY DEF Begin, past
<1>6. OutOf(a) = <<>> /\ Waiting(a) = <<>>
  BY <1>2 DEF OutOf, Waiting
<1>7. OutOf(act[d][t]) = <<>> /\ Waiting(act[d][t]) = <<>>
  BY <1>3, IdleLines
<1>8. a.step # "bundle"
  BY <1>2
<1> QED
  BY <1>4, <1>5, <1>6, <1>7, <1>8, GoesOn

LEMMA LoadReads ==
  ASSUME TypeInv, Reading, NEW d \in Device, NEW t \in Task, LoadSession(d, t)
  PROVE  Reading'
<1>1. PICK b : b = act[d][t]
  OBVIOUS
<1>2. PICK bytes : bytes = disk[d] /\ bytes \in Record
  BY DEF TypeInv, TypeOK
<1>3. PICK a : a = [b EXCEPT !.step = "import", !.bytes = bytes]
  OBVIOUS
<1>4. /\ b.step = "load" /\ a \in Activation /\ a.step = "import" /\ a.op = b.op
      /\ a.batch = b.batch
  BY <1>1, <1>2, <1>3, ActParts DEF Activation, LoadSession
<1>5. Becomes(d, t, a)
  BY <1>1, <1>2, <1>3 DEF LoadSession, Becomes
<1>6. /\ act'[d][t] = a
      /\ \A e \in Device, u \in Task : <<e, u>> # <<d, t>> => act'[e][u] = act[e][u]
  BY <1>4, <1>5, BecomesIs
<1>7. UNCHANGED <<disk, queue, store, current, keys, fresh, rejected>>
  BY DEF LoadSession, past
<1>8. OutOf(a) = OutOf(act[d][t]) /\ Waiting(a) = Waiting(act[d][t])
  BY <1>1, <1>4, SameLines
<1>9. a.step # "bundle"
  BY <1>4
<1> QED
  BY <1>6, <1>7, <1>8, <1>9, GoesOn

LEMMA PersistReads ==
  ASSUME TypeInv, Calm, Reading, NEW d \in Device, NEW t \in Task, Persist(d, t)
  PROVE  Reading'
<1>1. PICK b : b = act[d][t]
  OBVIOUS
<1>2. b \in Activation /\ b.step = "persist" /\ b.store \in Store
  BY <1>1, ActParts DEF Persist, Shape
<1>3. PICK r : r = In(d, t) /\ r \in Record /\ r # NoSession
  BY <1>1, <1>2, ActParts DEF TypeInv, Works, Uses
<1>4. PICK a : a = AfterPersist(b)
  OBVIOUS
<1>5. a \in Activation /\ OutOf(a) = OutOf(b) /\ Waiting(a) = Waiting(b) /\ a.step # "bundle"
  <2>1. Shape(b)
    BY <1>1, ActParts
  <2>2. a \in Activation
    BY <1>2, <1>4, <2>1, AfterPersistIs
  <2>3. CASE a = Idle /\ b.batch = <<>>
    <3>1. OutOf(b) = <<>> /\ Waiting(b) = <<>>
      BY <1>2, <2>3 DEF OutOf, Waiting
    <3> QED
      BY <2>2, <2>3, <3>1, IdleIs, IdleLines
  <2>4. CASE a.step \in {"check", "reply", "persist"} /\ a.op = b.op /\ a.batch = b.batch
    BY <1>2, <2>2, <2>4, SameLines
  <2> QED
    BY <1>2, <1>4, <2>1, <2>3, <2>4, AfterPersistIs
<1>6. Becomes(d, t, a)
  BY <1>1, <1>4 DEF Persist, Becomes
<1>7. /\ act'[d][t] = a
      /\ \A e \in Device, u \in Task : <<e, u>> # <<d, t>> => act'[e][u] = act[e][u]
  BY <1>5, <1>6, BecomesIs
<1>8. /\ UNCHANGED <<queue, store, current, keys, fresh, rejected>>
      /\ disk' = [disk EXCEPT ![d] = r]
  BY <1>3 DEF Persist, past
<1>9. r = S(d)
  BY <1>1, <1>2, <1>3 DEF In, S, Calm, OneStore
<1>10. \A e \in Device : S(e)' = S(e)
  BY <1>8 DEF S
<1>11. disk'[d] = r /\ \A e \in Device \ {d} : disk'[e] = disk[e]
  BY <1>8 DEF TypeInv, TypeOK
<1>12. Rec' = Rec
  <2>1. \A e \in Device : (IF S(e)' = NoSession THEN disk'[e] ELSE S(e)')
                          = (IF S(e) = NoSession THEN disk[e] ELSE S(e))
    BY <1>3, <1>9, <1>10, <1>11
  <2> QED
    BY <2>1 DEF Rec
<1>13. Bundled'
  <2> SUFFICES ASSUME NEW e \in Device, NEW u \in Task, act'[e][u].step = "bundle"
               PROVE  disk'[e] = NoSession
    BY DEF Bundled
  <2>1. <<e, u>> # <<d, t>>
    BY <1>5, <1>7
  <2>2. act[e][u].step = "bundle" /\ Restoring(e, u)
    BY <1>7, <2>1 DEF Restoring
  <2>3. e # d
    BY <1>3, <1>9, <2>2 DEF Calm, OneRestores
  <2> QED
    BY <1>11, <2>2, <2>3 DEF Reading, Bundled
<1>14. \A e \in Device : Lines(e)' = Lines(e)
  BY <1>1, <1>5, <1>7, <1>8, LinesStay
<1> QED
  BY <1>8, <1>12, <1>13, <1>14, NothingRead

(* A page opens that has no activation *)
LEMMA OpensReads ==
  ASSUME TypeInv, Calm, Reading, NEW d \in Device, \A t \in Task : act[d][t].step = "none",
         S(d)' = NoSession, \A t \in Task : act'[d][t].step = "none",
         \A e \in Device \ {d} : S(e)' = S(e) /\ act'[e] = act[e],
         UNCHANGED <<disk, queue, keys, fresh, rejected>>
  PROVE  Reading'
<1>1. S(d) # NoSession => disk[d] = S(d)
  BY DEF Calm, Persisted, Uses
<1>2. Rec' = Rec
  <2>1. \A e \in Device : (IF S(e)' = NoSession THEN disk'[e] ELSE S(e)')
                          = (IF S(e) = NoSession THEN disk[e] ELSE S(e))
    BY <1>1
  <2> QED
    BY <2>1 DEF Rec
<1>3. \A e \in Device, u \in Task : /\ OutOf(act'[e][u]) = OutOf(act[e][u])
                                    /\ Waiting(act'[e][u]) = Waiting(act[e][u])
  <2> SUFFICES ASSUME NEW e \in Device, NEW u \in Task
               PROVE  /\ OutOf(act'[e][u]) = OutOf(act[e][u])
                      /\ Waiting(act'[e][u]) = Waiting(act[e][u])
    OBVIOUS
  <2>1. CASE e = d
    BY <2>1 DEF OutOf, Waiting
  <2>2. CASE e # d
    BY <2>2
  <2> QED
    BY <2>1, <2>2
<1>4. \A e \in Device : Lines(e)' = Lines(e)
  BY <1>3, LinesSame
<1>5. Bundled'
  <2> SUFFICES ASSUME NEW e \in Device, NEW u \in Task, act'[e][u].step = "bundle"
               PROVE  disk[e] = NoSession
    BY DEF Bundled
  <2>1. e # d /\ act[e][u].step = "bundle"
    OBVIOUS
  <2> QED
    BY <2>1 DEF Reading, Bundled
<1> QED
  BY <1>2, <1>4, <1>5, NothingRead

LEMMA EnterReads ==
  ASSUME TypeInv, Calm, Reading, NEW d \in Device, EnterScreen(d), ~parted'
  PROVE  Reading'
<1>1. UNCHANGED <<disk, queue, act, fresh, keys, rejected>>
  BY DEF EnterScreen
<1>2. PICK s \in Store : s \notin InUse(d) /\ current' = [current EXCEPT ![d] = s]
  BY DEF EnterScreen, Free
<1>3. store' = [store EXCEPT ![d] =
                  [r \in Store |-> IF r \in InUse(d) THEN store[d][r] ELSE NoSession]]
  BY DEF EnterScreen
<1>4. /\ store'[d][s] = NoSession /\ \A e \in Device \ {d} : store'[e] = store[e]
      /\ current'[d] = s /\ \A e \in Device \ {d} : current'[e] = current[e]
  BY <1>2, <1>3 DEF TypeInv, TypeOK
<1>5. ~Active(d)
  BY DEF EnterScreen
<1>6. \A t \in Task : act[d][t].step = "none"
  BY <1>5, Inactive
<1>7. S(d)' = NoSession /\ \A e \in Device \ {d} : S(e)' = S(e)
  BY <1>4 DEF S
<1> QED
  BY <1>1, <1>6, <1>7, OpensReads

LEMMA ReloadReads ==
  ASSUME TypeInv, Calm, Reading, NEW d \in Device, Reload(d), ~cut'
  PROVE  Reading'
<1>1. UNCHANGED <<disk, queue, current, fresh, keys, rejected>>
  BY DEF Reload
<1>2. /\ store' = [store EXCEPT ![d] = [s \in Store |-> NoSession]]
      /\ act' = [act EXCEPT ![d] = [t \in Task |-> Idle]]
  BY DEF Reload
<1>3. /\ \A s \in Store : store'[d][s] = NoSession
      /\ \A e \in Device \ {d} : store'[e] = store[e]
      /\ \A t \in Task : act'[d][t] = Idle
      /\ \A e \in Device \ {d} : act'[e] = act[e]
  BY <1>2 DEF TypeInv, TypeOK
<1>4. ~Active(d)
  BY DEF Reload
<1>5. \A t \in Task : act[d][t].step = "none"
  BY <1>4, Inactive
<1>6. S(d)' = NoSession /\ \A e \in Device \ {d} : S(e)' = S(e)
  BY <1>1, <1>3 DEF S, TypeInv, TypeOK
<1>7. \A t \in Task : act'[d][t].step = "none"
  BY <1>3, IdleIs
<1> QED
  BY <1>1, <1>3, <1>5, <1>6, <1>7, OpensReads

(* Envelopes stand in other lines, or in none *)
LEMMA LinesReads ==
  ASSUME Reading, Rec' = Rec, UNCHANGED <<keys, fresh, rejected>>, Bundled',
         \A e \in Device : Apart(Lines(e)') /\ Flights(Lines(e)') \subseteq Flights(Lines(e))
  PROVE  Reading'
<1>1. ASSUME NEW e \in Device PROVE Linked(e)'
  <2>1. Linked(e) /\ Peer(e) \in Device
    BY Pair DEF Reading
  <2>2. PICK F, G : F = Flights(Lines(e)') /\ G = Flights(Lines(Peer(e))')
    OBVIOUS
  <2>3. F \subseteq Flights(Lines(e)) /\ G \subseteq Flights(Lines(Peer(e)))
    BY <2>1, <2>2
  <2>4. Link(Ends(Rec[e]), Ends(Rec[Peer(e)]), F, G, keys, fresh)
    BY <2>1, <2>3, HalfLess DEF Linked, Link
  <2> QED
    BY <2>2, <2>4 DEF Linked
<1> QED
  BY <1>1 DEF Reading

LEMMA SendReads ==
  ASSUME TypeInv, Reading, NEW d \in Device, NEW t \in Task, SendMessage(d, t)
  PROVE  Reading'
<1>1. PICK b : b = act[d][t]
  OBVIOUS
<1>2. b \in Activation /\ b.step = "send" /\ b.batch # <<>>
  BY <1>1, ActParts DEF SendMessage, Shape
<1>3. PICK e : e = Head(b.batch) /\ e \in Envelopes
  BY <1>1, <1>2, ActParts
<1>4. PICK rest : rest = Tail(b.batch) /\ rest \in Seq(Envelopes)
  BY <1>1, <1>2, ActParts
<1>5. PICK a : a = [b EXCEPT !.step = "persist", !.batch = rest]
  OBVIOUS
<1>6. a \in Activation /\ a.step = "persist" /\ a.op = b.op /\ a.batch = rest
  BY <1>2, <1>4, <1>5 DEF Activation
<1>7. Becomes(d, t, a)
  BY <1>1, <1>4, <1>5 DEF SendMessage, Becomes
<1>8. /\ act'[d][t] = a
      /\ \A f \in Device, u \in Task : <<f, u>> # <<d, t>> => act'[f][u] = act[f][u]
  BY <1>6, <1>7, BecomesIs
<1>9. PICK p : p = Peer(d) /\ p \in Device /\ p # d /\ Peer(p) = d
               /\ \A c \in Device : c = d \/ c = p
  BY Pair
<1>10. /\ queue'[d] = queue[d] /\ queue'[p] = Append(queue[p], e)
       /\ UNCHANGED <<disk, store, current, keys, fresh, rejected>>
  BY <1>1, <1>3, <1>9 DEF SendMessage, past, TypeInv, TypeOK
<1>11. OutOf(b) = <<e>> /\ OutOf(a) = <<>> /\ Waiting(a) = Waiting(b)
  BY <1>2, <1>3, <1>4, <1>6 DEF OutOf, Waiting
<1>12. PICK L, K, M, N : L = Lines(d) /\ K = Lines(p) /\ M = Lines(d)' /\ N = Lines(p)'
  OBVIOUS
<1>13. PICK j, k, i : /\ j = <<"out", t>> /\ k = <<"queue", None>> /\ i = <<"in", t>>
                      /\ j \in Line /\ k \in Line /\ i \in Line /\ j # k
  <2>1. <<"out", t>> # <<"queue", None>>
    OBVIOUS
  <2> QED
    BY <2>1, LineCases
<1>14. /\ L \in [Line -> Seq(Envelopes)] /\ K \in [Line -> Seq(Envelopes)]
       /\ L[j] = <<e>> /\ L[k] = queue[p] /\ K[i] = Waiting(b)
  BY <1>1, <1>9, <1>11, <1>12, <1>13, LinesType, LinesAre
<1>15. M = With(With(L, j, <<>>), k, Append(L[k], e))
  <2>1. Lines(d)' =
          With(With(Lines(d), <<"out", t>>, OutOf(a)), <<"queue", None>>, queue'[Peer(d)])
    BY <1>8, LinesNext
  <2> QED
    BY <1>9, <1>10, <1>11, <1>12, <1>13, <1>14, <2>1
<1>16. N = K
  <2>1. Lines(Peer(d))' = With(Lines(Peer(d)), <<"in", t>>, Waiting(a))
    BY <1>8, <1>10, LinesNext
  <2>2. N = [K EXCEPT ![i] = Waiting(b)]
    BY <1>9, <1>11, <1>12, <1>13, <2>1 DEF With
  <2> QED
    BY <1>14, <2>2
<1>17. Apart(L) /\ Apart(K)
  BY <1>9, <1>12 DEF Reading
<1>18. Apart(M) /\ Flights(M) \subseteq Flights(L)
  <2>1. Len(L[j]) = 1 /\ L[j][1] = e
    <3>1. PICK s : s = <<e>>
      OBVIOUS
    <3> QED
      BY <1>14, <3>1
  <2>2. L \in [Line -> Seq(Envelopes)] /\ Apart(L)
    BY <1>14, <1>17
  <2>3. j \in Line /\ k \in Line /\ j # k /\ e \in Envelopes
    BY <1>3, <1>13
  <2> QED
    BY <1>15, <2>1, <2>2, <2>3, LineSends
<1>19. \A c \in Device : Apart(Lines(c)') /\ Flights(Lines(c)') \subseteq Flights(Lines(c))
  BY <1>9, <1>12, <1>16, <1>17, <1>18
<1>20. Bundled'
  BY <1>6, <1>8, <1>10, BundledNext DEF Reading
<1> QED
  BY <1>10, <1>19, <1>20, RecStays, LinesReads

LEMMA FetchReads ==
  ASSUME TypeInv, Reading, NEW d \in Device, NEW t \in Task, FetchMessages(d, t)
  PROVE  Reading'
<1>1. PICK b : b = act[d][t]
  OBVIOUS
<1>2. b \in Activation /\ b.step = "fetch"
  BY <1>1, ActParts DEF FetchMessages
<1>3. PICK q : q = queue[d] /\ q \in Seq(Envelopes)
  BY DEF TypeInv, TypeOK
<1>4. PICK a : a = IF q = <<>> THEN Idle ELSE [b EXCEPT !.step = "check", !.batch = q]
  OBVIOUS
<1>5. a \in Activation /\ OutOf(a) = <<>> /\ a.step # "bundle"
      /\ Waiting(a) = IF b.op = "poll" THEN q ELSE <<>>
  <2>1. CASE q = <<>>
    BY <1>4, <2>1, IdleIs, IdleLines
  <2>2. CASE q # <<>>
    <3>1. a \in Activation /\ a.op = b.op /\ a.step = "check" /\ a.batch = q
      BY <1>2, <1>3, <1>4, <2>2 DEF Activation
    <3> QED
      BY <3>1 DEF OutOf, Waiting
  <2> QED
    BY <2>1, <2>2
<1>6. Becomes(d, t, a)
  BY <1>1, <1>3, <1>4 DEF FetchMessages, Becomes
<1>7. /\ act'[d][t] = a
      /\ \A f \in Device, u \in Task : <<f, u>> # <<d, t>> => act'[f][u] = act[f][u]
  BY <1>5, <1>6, BecomesIs
<1>8. PICK p : p = Peer(d) /\ p \in Device /\ p # d /\ Peer(p) = d
               /\ \A c \in Device : c = d \/ c = p
  BY Pair
<1>9. /\ queue'[d] = <<>> /\ queue'[p] = queue[p]
      /\ UNCHANGED <<disk, store, current, keys, fresh, rejected>>
  BY <1>8 DEF FetchMessages, past, TypeInv, TypeOK
<1>10. OutOf(b) = <<>> /\ Waiting(b) = <<>>
  BY <1>2 DEF OutOf, Waiting
<1>11. PICK L, K, M, N : L = Lines(d) /\ K = Lines(p) /\ M = Lines(d)' /\ N = Lines(p)'
  OBVIOUS
<1>12. PICK j, k, i : /\ j = <<"out", t>> /\ k = <<"queue", None>> /\ i = <<"in", t>>
                      /\ j \in Line /\ k \in Line /\ i \in Line /\ k # i
  <2>1. <<"queue", None>> # <<"in", t>>
    OBVIOUS
  <2> QED
    BY <2>1, LineCases
<1>13. /\ L \in [Line -> Seq(Envelopes)] /\ K \in [Line -> Seq(Envelopes)]
       /\ L[j] = <<>> /\ K[k] = q /\ K[i] = <<>>
  BY <1>1, <1>3, <1>8, <1>10, <1>11, <1>12, LinesType, LinesAre
<1>14. M = L
  <2>1. Lines(d)' = With(Lines(d), <<"out", t>>, OutOf(a))
    BY <1>7, <1>8, <1>9, LinesNext
  <2>2. M = [L EXCEPT ![j] = <<>>]
    BY <1>5, <1>11, <1>12, <2>1 DEF With
  <2> QED
    BY <1>13, <2>2
<1>15. N = With(With(K, k, <<>>), i, Waiting(a))
  <2>1. Lines(Peer(d))' =
          With(With(Lines(Peer(d)), <<"queue", None>>, queue'[d]), <<"in", t>>, Waiting(a))
    BY <1>7, LinesNext
  <2> QED
    BY <1>8, <1>9, <1>11, <1>12, <2>1
<1>16. Apart(L) /\ Apart(K)
  BY <1>8, <1>11 DEF Reading
<1>20. b.op = "poll"
  BY <1>1, <1>2, ActParts DEF Shape
<1>17. Apart(N) /\ Flights(N) \subseteq Flights(K)
  <2>1. N = With(With(K, k, <<>>), i, K[k])
    BY <1>5, <1>13, <1>15, <1>20
  <2>2. K \in [Line -> Seq(Envelopes)] /\ K[i] = <<>> /\ Apart(K)
    BY <1>13, <1>16
  <2>3. k \in Line /\ i \in Line /\ k # i
    BY <1>12
  <2> QED
    BY <2>1, <2>2, <2>3, LineMoves
<1>18. \A c \in Device : Apart(Lines(c)') /\ Flights(Lines(c)') \subseteq Flights(Lines(c))
  BY <1>8, <1>11, <1>14, <1>16, <1>17
<1>19. Bundled'
  BY <1>5, <1>7, <1>9, BundledNext DEF Reading
<1> QED
  BY <1>9, <1>18, <1>19, RecStays, LinesReads

(* What the restored record becomes, when its store is the screen's *)
LEMMA RecNext ==
  ASSUME TypeInv, OneStore, NEW d \in Device, NEW t \in Task, act[d][t].step # "none",
         act[d][t].store \in Store, NEW new \in Record, new # NoSession,
         store' = [store EXCEPT ![d][act[d][t].store] = new], UNCHANGED <<disk, current>>
  PROVE  Rec'[d] = new /\ \A e \in Device \ {d} : Rec'[e] = Rec[e]
<1>1. PICK s \in Store : s = act[d][t].store /\ s = current[d]
  BY DEF OneStore
<1>2. store'[d][s] = new /\ \A e \in Device \ {d} : store'[e] = store[e]
  BY <1>1 DEF TypeInv, TypeOK
<1>3. S(d)' = new /\ \A e \in Device \ {d} : S(e)' = S(e)
  BY <1>1, <1>2 DEF S
<1> QED
  BY <1>3 DEF Rec

LEMMA LinkedTypes ==
  ASSUME TypeInv, Calm, NEW d \in Device
  PROVE  LinkTypes(Ends(Rec[d]), Ends(Rec[Peer(d)]), Flights(Lines(d)), Flights(Lines(Peer(d))),
                   keys, fresh)
<1>1. Rec[d] \in Record /\ Rec[Peer(d)] \in Record
  BY RecType, Pair DEF Records, TypeInv
<1>2. fresh \in Nat /\ keys \in SUBSET Key /\ fresh # 0
  BY DEF TypeInv, TypeOK, Calm
<1>3. \A L : Flights(L) \in SUBSET Envelopes
  BY DEF Flights
<1> QED
  BY <1>1, <1>2, <1>3, EndsType DEF LinkTypes

(* One device's record changes, and what is under way *)
LEMMA LinkedNext ==
  ASSUME NEW d \in Device, NEW p \in Device, p = Peer(d), Rec'[p] = Rec[p], Bundled', ~rejected',
         Apart(Lines(d)'), Apart(Lines(p)'),
         Link(Ends(Rec'[d]), Ends(Rec[p]), Flights(Lines(d)'), Flights(Lines(p)'), keys', fresh')
  PROVE  Reading'
<1>1. p # d /\ Peer(p) = d /\ \A e \in Device : e = d \/ e = p
  BY Pair
<1>2. Link(Ends(Rec'[p]), Ends(Rec'[d]), Flights(Lines(p)'), Flights(Lines(d)'), keys', fresh')
  BY LinkSwaps
<1>3. Linked(d)' /\ Linked(p)'
  BY <1>1, <1>2 DEF Linked
<1> QED
  BY <1>1, <1>3 DEF Reading

LEMMA EncryptReads ==
  ASSUME TypeInv, Calm, Reading, NEW d \in Device, NEW t \in Task,
         act[d][t].step \in {"check", "import", "bundle", "reply"},
         NEW r \in Record, r # NoSession, NEW f \in Nat, NEW a, Encrypts(d, t, r, f, a),
         ~reused', UNCHANGED <<disk, queue, current>>,
         \/ r = Rec[d] /\ f = fresh
         \/ r = Established(NoSession, fresh) /\ f = fresh + 1 /\ Rec[d] = NoSession
  PROVE  Reading'
<1>1. PICK b : b = act[d][t] /\ b.step \in {"check", "import", "bundle", "reply"}
               /\ b \in Activation /\ b.batch \in Seq(Envelopes)
  BY ActParts
<1>2. PICK e \in Envelopes : e = Envelope(r)
  BY EnvelopeType
<1>3. PICK p : p = Peer(d) /\ p \in Device /\ p # d /\ Peer(p) = d
               /\ \A c \in Device : c = d \/ c = p
  BY Pair
<1>4. /\ a \in Activation /\ a.step = "send" /\ a.op = b.op /\ Becomes(d, t, a)
      /\ a.batch = <<e>> \o b.batch
      /\ keys' = keys \cup {KeyOf(e)} /\ KeyOf(e) \notin keys /\ fresh' = f
      /\ rejected' = rejected
  BY <1>1, <1>2 DEF Encrypts, Becomes, KeyOf
<1>5. Rec'[d] = Encrypted(r) /\ Rec'[p] = Rec[p]
  <2>1. /\ Encrypted(r) \in Record /\ Encrypted(r) # NoSession /\ act[d][t].store \in Store
        /\ store' = [store EXCEPT ![d][act[d][t].store] = Encrypted(r)]
    BY DEF Encrypts
  <2>2. OneStore /\ act[d][t].step # "none"
    BY DEF Calm
  <2> QED
    BY <1>3, <2>1, <2>2, RecNext
<1>6. PICK D, E, F, G : /\ D = Ends(Rec[d]) /\ E = Ends(Rec[p])
                        /\ F = Flights(Lines(d)) /\ G = Flights(Lines(p))
  OBVIOUS
<1>7. Link(D, E, F, G, keys, fresh) /\ LinkTypes(D, E, F, G, keys, fresh)
  BY <1>3, <1>6, LinkedTypes DEF Reading, Linked
<1>8. PICK C : C = Ends(r)
  OBVIOUS
<1>9. Link(C, E, F, G, keys, f) /\ LinkTypes(C, E, F, G, keys, f)
  <2>1. CASE r = Rec[d] /\ f = fresh
    BY <1>6, <1>7, <1>8, <2>1
  <2>2. CASE r = Established(NoSession, fresh) /\ f = fresh + 1 /\ Rec[d] = NoSession
    <3>1. D = {}
      BY <1>6, <2>2, NoEnds
    <3>2. fresh \in Nat
      BY <1>7 DEF LinkTypes
    <3>3. PICK s \in EndState :
            /\ Ends(Established(NoSession, fresh)) = {s}
            /\ s.sid = fresh /\ s.own = fresh /\ s.on = Prekey /\ s.acked = FALSE /\ s.seen = {}
      BY <3>2, EstablishedEnds
    <3>4. Link(D \cup {s}, E, F, G, keys, fresh + 1)
      BY <1>7, <3>3, LinkEstablishes
    <3>5. C = D \cup {s}
      BY <1>8, <2>2, <3>1, <3>3
    <3>6. LinkTypes(C, E, F, G, keys, f)
      BY <1>7, <2>2, <3>1, <3>5 DEF LinkTypes
    <3> QED
      BY <2>2, <3>4, <3>5, <3>6
  <2> QED
    BY <2>1, <2>2
<1>10. Link(C, E, F \cup {e}, G, keys', fresh')
  <2>1. PICK s \in C : e.sid = s.sid /\ e.chain = s.own /\ e.on = s.on /\ e.prekey = ~s.acked
    BY <1>2, <1>8, EncryptedEnds
  <2> QED
    BY <1>4, <1>9, <2>1, LinkEncrypts
<1>11. Ends(Rec'[d]) = C
  BY <1>5, <1>8, EncryptedEnds
<1>12. /\ act'[d][t] = a
       /\ \A c \in Device, u \in Task : <<c, u>> # <<d, t>> => act'[c][u] = act[c][u]
  BY <1>4, BecomesIs
<1>13. PICK one \in Seq(Envelopes) : one = <<e>>
  <2>1. <<e>> \in Seq(Envelopes)
    OBVIOUS
  <2> QED
    BY <2>1
<1>14. Len(one) = 1 /\ one[1] = e
  BY <1>13
<1>15. Head(a.batch) = e /\ Tail(a.batch) = b.batch
  <2>1. PICK q \in Seq(Envelopes) : q = b.batch
    BY <1>1
  <2>2. Head(<<e>> \o q) = e /\ Tail(<<e>> \o q) = q
    BY <1>2, <2>1
  <2> QED
    BY <1>4, <2>1, <2>2
<1>16. OutOf(a) = one /\ OutOf(b) = <<>> /\ Waiting(a) = Waiting(b)
  BY <1>1, <1>4, <1>13, <1>15 DEF OutOf, Waiting
<1>17. PICK L, K, M, N : L = Lines(d) /\ K = Lines(p) /\ M = Lines(d)' /\ N = Lines(p)'
  OBVIOUS
<1>18. PICK j, i : /\ j = <<"out", t>> /\ i = <<"in", t>> /\ j \in Line /\ i \in Line
  BY LineCases
<1>19. /\ L \in [Line -> Seq(Envelopes)] /\ K \in [Line -> Seq(Envelopes)]
       /\ L[j] = <<>> /\ K[i] = Waiting(b)
  BY <1>1, <1>3, <1>16, <1>17, <1>18, LinesType, LinesAre
<1>20. queue'[Peer(d)] = queue[Peer(d)] /\ queue'[d] = queue[d]
  OBVIOUS
<1>21. M = With(L, j, one)
  <2>1. Lines(d)' = With(Lines(d), <<"out", t>>, OutOf(a))
    BY <1>12, <1>20, LinesNext
  <2> QED
    BY <1>16, <1>17, <1>18, <2>1
<1>22. N = K
  <2>1. Lines(Peer(d))' = With(Lines(Peer(d)), <<"in", t>>, Waiting(a))
    BY <1>12, <1>20, LinesNext
  <2>2. N = [K EXCEPT ![i] = Waiting(b)]
    BY <1>3, <1>16, <1>17, <1>18, <2>1 DEF With
  <2> QED
    BY <1>19, <2>2
<1>23. Apart(L) /\ Apart(K)
  BY <1>3, <1>17 DEF Reading
<1>24. \A g \in Flights(L) : KeyOf(g) # KeyOf(e)
  BY <1>4, <1>6, <1>7, <1>17 DEF Link, Half, FlightInv
<1>25. Apart(M) /\ Flights(M) \subseteq Flights(L) \cup {e}
  <2>1. L \in [Line -> Seq(Envelopes)] /\ Apart(L) /\ L[j] = <<>> /\ j \in Line
    BY <1>18, <1>19, <1>23
  <2> QED
    BY <1>14, <1>21, <1>24, <2>1, LineAdds
<1>26. Link(C, E, Flights(M), Flights(N), keys', fresh')
  BY <1>6, <1>10, <1>17, <1>22, <1>25, HalfLess DEF Link
<1>27. Bundled'
  BY <1>4, <1>12, BundledNext DEF Reading
<1>28. ~rejected'
  BY <1>4 DEF Reading
<1> QED
  BY <1>3, <1>5, <1>6, <1>11, <1>17, <1>22, <1>23, <1>25, <1>26, <1>27, <1>28, LinkedNext

(* The envelope at the head of a poll's batch decrypts, and leaves its line *)
LEMMA DecryptReads ==
  ASSUME TypeInv, Calm, Reading, NEW d \in Device, NEW t \in Task,
         act[d][t].step \in {"check", "import"},
         NEW r \in Record, r = Rec[d], NEW a, Decrypts(d, t, r, a),
         UNCHANGED <<disk, queue, current>>
  PROVE  Reading'
<1>1. PICK b : b = act[d][t] /\ b.step \in {"check", "import"} /\ b.op = "poll"
               /\ b \in Activation /\ b.batch \in Seq(Envelopes) /\ b.batch # <<>>
  BY ActParts DEF Decrypts
<1>2. PICK e \in Envelopes :
        /\ e = Head(b.batch) /\ Decryptable(r, e)
        /\ store' = [store EXCEPT ![d][act[d][t].store] = Decrypted(r, e, fresh)]
  BY <1>1 DEF Decrypts
<1>3. PICK p : p = Peer(d) /\ p \in Device /\ p # d /\ Peer(p) = d
               /\ \A c \in Device : c = d \/ c = p
  BY Pair
<1>4. /\ a \in Activation /\ a.step \in {"persist", "reply"} /\ a.op = "poll" /\ Becomes(d, t, a)
      /\ a.batch = Tail(b.batch) /\ keys' = keys /\ fresh' = fresh + 1 /\ rejected' = rejected
  BY <1>1 DEF Decrypts, Becomes
<1>5. fresh \in Nat /\ OwnChains(r)
  <2>1. KeyInv(Rec, keys, fresh) /\ fresh \in Nat
    BY DEF Calm, TypeInv, TypeOK
  <2>2. \A i \in 1..Len(r) : r[i].own # Prekey
    BY <2>1 DEF KeyInv, Behind
  <2>3. \A i, j \in 1..Len(r) : r[i].own = r[j].own => i = j
    BY <2>1 DEF KeyInv
  <2> QED
    BY <2>1, <2>2, <2>3 DEF OwnChains
<1>6. PICK new \in Record : new = Decrypted(r, e, fresh) /\ new # NoSession
  BY <1>2, <1>5, DecryptedIs
<1>7. Rec'[d] = new /\ Rec'[p] = Rec[p]
  <2>1. act[d][t].store \in Store /\ store' = [store EXCEPT ![d][act[d][t].store] = new]
    BY <1>2, <1>6 DEF Decrypts
  <2>2. OneStore /\ act[d][t].step # "none"
    BY DEF Calm
  <2> QED
    BY <1>3, <1>6, <2>1, <2>2, RecNext
<1>8. PICK D, E, F, G : /\ D = Ends(r) /\ E = Ends(Rec[p])
                        /\ F = Flights(Lines(d)) /\ G = Flights(Lines(p))
  OBVIOUS
<1>9. Link(D, E, F, G, keys, fresh) /\ LinkTypes(D, E, F, G, keys, fresh)
  BY <1>3, <1>8, LinkedTypes DEF Reading, Linked
<1>10. /\ act'[d][t] = a
       /\ \A c \in Device, u \in Task : <<c, u>> # <<d, t>> => act'[c][u] = act[c][u]
  BY <1>4, BecomesIs
<1>11. /\ OutOf(a) = <<>> /\ OutOf(b) = <<>>
       /\ Waiting(a) = Tail(b.batch) /\ Waiting(b) = b.batch
  BY <1>1, <1>4 DEF OutOf, Waiting
<1>12. PICK L, K, M, N : L = Lines(d) /\ K = Lines(p) /\ M = Lines(d)' /\ N = Lines(p)'
  OBVIOUS
<1>13. PICK j, i : /\ j = <<"out", t>> /\ i = <<"in", t>> /\ j \in Line /\ i \in Line
  BY LineCases
<1>14. /\ L \in [Line -> Seq(Envelopes)] /\ K \in [Line -> Seq(Envelopes)]
       /\ L[j] = <<>> /\ K[i] = b.batch
  BY <1>1, <1>3, <1>11, <1>12, <1>13, LinesType, LinesAre
<1>15. queue'[Peer(d)] = queue[Peer(d)] /\ queue'[d] = queue[d]
  OBVIOUS
<1>16. M = L
  <2>1. Lines(d)' = With(Lines(d), <<"out", t>>, OutOf(a))
    BY <1>10, <1>15, LinesNext
  <2>2. M = [L EXCEPT ![j] = <<>>]
    BY <1>11, <1>12, <1>13, <2>1 DEF With
  <2> QED
    BY <1>14, <2>2
<1>17. N = With(K, i, Tail(K[i]))
  <2>1. Lines(Peer(d))' = With(Lines(Peer(d)), <<"in", t>>, Waiting(a))
    BY <1>10, <1>15, LinesNext
  <2> QED
    BY <1>3, <1>11, <1>12, <1>13, <1>14, <2>1
<1>18. Apart(L) /\ Apart(K)
  BY <1>3, <1>12 DEF Reading
<1>19. /\ Apart(N) /\ Flights(N) \subseteq Flights(K)
       /\ Head(K[i]) \in Flights(K) /\ \A g \in Flights(N) : KeyOf(g) # KeyOf(Head(K[i]))
  <2>1. K \in [Line -> Seq(Envelopes)] /\ Apart(K) /\ i \in Line /\ K[i] # <<>>
    BY <1>1, <1>13, <1>14, <1>18
  <2> QED
    BY <1>17, <2>1, LineDrops
<1>20. PICK H \in SUBSET G : H = Flights(N) /\ \A g \in H : KeyOf(g) # KeyOf(e)
  BY <1>2, <1>8, <1>12, <1>14, <1>19
<1>21. e \in G
  BY <1>2, <1>8, <1>12, <1>14, <1>19
<1>22. Link(Ends(new), E, F, H, keys, fresh + 1)
  <2>1. PICK s \in EndState :
          \/ \E c \in Ends(r) :
               /\ Ends(Decrypted(r, e, fresh)) = (Ends(r) \ {c}) \cup {s}
               /\ Opens(c, e) /\ Becoming(c, s, e, fresh)
          \/ /\ Ends(Decrypted(r, e, fresh)) = Ends(r) \cup {s}
             /\ \A c \in Ends(r) : c.sid # e.sid
             /\ e.on = Prekey /\ Becoming(Answer(e), s, e, fresh)
    BY <1>2, <1>5, DecryptedEnds
  <2>2. ASSUME NEW c \in D, Ends(new) = (D \ {c}) \cup {s}, Opens(c, e), Becoming(c, s, e, fresh)
        PROVE  Link(Ends(new), E, F, H, keys, fresh + 1)
    <3>1. CASE Trails(c, e.chain)
      <4>1. Link((D \ {c}) \cup {s}, E, F, H, keys, fresh)
        BY <1>9, <1>20, <1>21, <2>2, <3>1, LinkReads DEF Becoming, Opens
      <4>2. (D \ {c}) \cup {s} \in SUBSET EndState /\ E \in SUBSET EndState
        BY <1>9 DEF LinkTypes
      <4>3. PICK C \in SUBSET EndState : C = (D \ {c}) \cup {s}
        BY <4>2
      <4>4. fresh + 1 \in Nat /\ fresh <= fresh + 1 /\ keys \subseteq keys
        BY <1>5
      <4>5. Half(C, E, F, keys, fresh) /\ Half(E, C, H, keys, fresh)
        BY <4>1, <4>3 DEF Link
      <4>6. Half(C, E, F, keys, fresh + 1) /\ Half(E, C, H, keys, fresh + 1)
        BY <1>5, <4>2, <4>4, <4>5, HalfMore
      <4> QED
        BY <2>2, <4>3, <4>6 DEF Link
    <3>2. CASE ~Trails(c, e.chain)
      <4>1. e.on = c.own /\ c.sid = e.sid
        BY <2>2, <3>2, OpensIs
      <4>2. Link((D \ {c}) \cup {s}, E, F, H, keys, fresh + 1)
        BY <1>9, <1>20, <1>21, <2>2, <3>2, <4>1, LinkTurns DEF Becoming
      <4> QED
        BY <2>2, <4>2
    <3> QED
      BY <3>1, <3>2
  <2>3. CASE /\ Ends(new) = D \cup {s} /\ \A c \in D : c.sid # e.sid
             /\ e.on = Prekey /\ Becoming(Answer(e), s, e, fresh)
    <3>1. s.sid = e.sid /\ s.own = fresh /\ s.on = e.chain /\ s.acked = TRUE /\ s.seen = {KeyOf(e)}
      <4>1. Answer(e).sid = e.sid /\ Answer(e).seen = {}
        BY DEF Answer
      <4>2. ~Trails(Answer(e), e.chain)
        BY <4>1 DEF Trails
      <4> QED
        BY <2>3, <4>1, <4>2 DEF Becoming
    <3>2. Link(D \cup {s}, E, F, H, keys, fresh + 1)
      BY <1>9, <1>20, <1>21, <2>3, <3>1, LinkAnswers
    <3> QED
      BY <2>3, <3>2
  <2> QED
    BY <1>6, <1>8, <2>1, <2>2, <2>3
<1>23. Bundled'
  BY <1>4, <1>10, BundledNext DEF Reading
<1>24. Link(Ends(Rec'[d]), Ends(Rec[p]), Flights(Lines(d)'), Flights(Lines(p)'), keys', fresh')
  BY <1>4, <1>7, <1>8, <1>12, <1>16, <1>20, <1>22
<1>25. ~rejected'
  BY <1>4 DEF Reading
<1>26. Apart(Lines(d)') /\ Apart(Lines(p)')
  BY <1>12, <1>16, <1>18, <1>19
<1> QED
  BY <1>3, <1>7, <1>23, <1>24, <1>25, <1>26, LinkedNext

(* The envelope at the head of a poll's batch is not rejected *)
LEMMA NotRejected ==
  ASSUME TypeInv, Reading, NEW d \in Device, NEW t \in Task,
         act[d][t].step \in {"check", "import"}, NEW r \in Record, r = Rec[d]
  PROVE  ~Rejects(d, t, r)
<1> SUFFICES ASSUME Rejects(d, t, r) PROVE FALSE
  OBVIOUS
<1>1. PICK b : b = act[d][t] /\ b.step \in {"check", "import"} /\ b.op = "poll"
               /\ b.batch \in Seq(Envelopes) /\ b.batch # <<>>
  BY ActParts DEF Rejects
<1>2. PICK p : p = Peer(d) /\ p \in Device /\ p # d /\ Peer(p) = d
  BY Pair
<1>3. Waiting(b) = b.batch
  BY <1>1 DEF Waiting
<1>4. PICK K : K = Lines(p) /\ K \in [Line -> Seq(Envelopes)]
  BY <1>2, LinesType
<1>5. PICK i : i = <<"in", t>> /\ i \in Line
  BY LineCases
<1>6. K[i] = b.batch
  BY <1>1, <1>2, <1>3, <1>4, <1>5, LinesAre
<1>7. PICK e : e = Head(b.batch) /\ e \in Envelopes
  BY <1>1
<1>8. e \in Flights(K)
  <2>1. 1 \in 1..Len(K[i]) /\ K[i][1] = e
    BY <1>1, <1>6, <1>7
  <2> QED
    BY <1>4, <1>5, <1>7, <2>1 DEF Flights
<1>9. Link(Ends(r), Ends(Rec[p]), Flights(Lines(d)), Flights(K), keys, fresh)
  BY <1>2, <1>4 DEF Reading, Linked
<1>10. FlightInv(e, Ends(Rec[p]), Ends(r), Flights(K), keys)
  BY <1>8, <1>9 DEF Link, Half
<1>11. Decryptable(r, e)
  BY <1>7, <1>10, MetIsDecryptable DEF FlightInv
<1> QED
  BY <1>1, <1>7, <1>11 DEF Rejects

LEMMA RestoredReads ==
  ASSUME TypeInv, Calm, Reading, NEW d \in Device, NEW t \in Task,
         act[d][t].step \in {"check", "import"}, NEW r \in Record, r = Rec[d],
         Restored(d, t, r), ~reused', UNCHANGED <<disk, queue, current>>
  PROVE  Reading'
<1>1. fresh \in Nat
  BY DEF TypeInv, TypeOK
<1>2. CASE r # NoSession /\ \E a : Encrypts(d, t, r, fresh, a)
  <2>1. PICK a : Encrypts(d, t, r, fresh, a)
    BY <1>2
  <2> QED
    BY <1>1, <1>2, <2>1, EncryptReads
<1>3. CASE \E a : Decrypts(d, t, r, a)
  BY <1>3, DecryptReads
<1>4. CASE Rejects(d, t, r)
  BY <1>4, NotRejected
<1>5. CASE r = NoSession /\ \E a : Goes(d, t, a) /\ a.step = "bundle"
  <2>1. PICK a : Goes(d, t, a) /\ a.step = "bundle"
    BY <1>5
  <2>2. PICK b : b = act[d][t] /\ b.step \in {"check", "import"}
    OBVIOUS
  <2>3. /\ a \in Activation /\ a.op = b.op /\ a.batch = b.batch /\ Becomes(d, t, a)
        /\ UNCHANGED <<store, fresh, keys, rejected>>
    BY <2>1, <2>2 DEF Goes, Becomes
  <2>4. /\ act'[d][t] = a
        /\ \A c \in Device, u \in Task : <<c, u>> # <<d, t>> => act'[c][u] = act[c][u]
    BY <2>3, BecomesIs
  <2>5. disk[d] = NoSession
    BY <1>5, RecType DEF TypeInv
  <2>6. OutOf(a) = OutOf(act[d][t]) /\ Waiting(a) = Waiting(act[d][t])
    BY <2>1, <2>2, <2>3, SameLines
  <2>7. UNCHANGED <<disk, queue, store, current, keys, fresh, rejected>>
    BY <2>3
  <2> QED
    BY <2>4, <2>5, <2>6, <2>7, GoesOn
<1> QED
  BY <1>2, <1>3, <1>4, <1>5, RestoredEffect

LEMMA CheckReads ==
  ASSUME TypeInv, Calm, Reading, NEW d \in Device, NEW t \in Task, Check(d, t), ~reused'
  PROVE  Reading'
<1>1. /\ act[d][t].step = "check" /\ act[d][t].store \in Store /\ In(d, t) \in Record
  BY ActParts DEF Check, Shape
<1>2. UNCHANGED <<disk, queue, current>>
  BY DEF Check
<1>3. CASE In(d, t) # NoSession /\ Restored(d, t, In(d, t))
  <2>1. In(d, t) = S(d)
    BY <1>1 DEF In, S, Calm, OneStore
  <2>2. In(d, t) = Rec[d]
    BY <1>3, <2>1, RecType DEF TypeInv
  <2> QED
    BY <1>1, <1>2, <1>3, <2>2, RestoredReads
<1>4. CASE /\ In(d, t) = NoSession /\ Goto(d, t, "load")
           /\ UNCHANGED <<store, fresh, sends, keys, reused, rejected>>
  <2>1. PICK a : Goes(d, t, a) /\ a.step = "load"
    BY <1>1, <1>4, GotoEffect
  <2>2. PICK b : b = act[d][t] /\ b.step = "check"
    BY <1>1
  <2>3. a \in Activation /\ a.op = b.op /\ a.batch = b.batch /\ Becomes(d, t, a)
    BY <2>1, <2>2 DEF Goes, Becomes
  <2>4. /\ act'[d][t] = a
        /\ \A c \in Device, u \in Task : <<c, u>> # <<d, t>> => act'[c][u] = act[c][u]
    BY <2>3, BecomesIs
  <2>5. OutOf(a) = OutOf(act[d][t]) /\ Waiting(a) = Waiting(act[d][t])
    BY <2>1, <2>2, <2>3, SameLines
  <2>6. UNCHANGED <<disk, queue, store, current, keys, fresh, rejected>> /\ a.step # "bundle"
    BY <1>2, <1>4, <2>1
  <2> QED
    BY <2>4, <2>5, <2>6, GoesOn
<1> QED
  BY <1>3, <1>4 DEF Check

LEMMA ImportReads ==
  ASSUME TypeInv, Calm, Reading, NEW d \in Device, NEW t \in Task, Import(d, t), ~reused'
  PROVE  Reading'
<1>1. PICK bytes : bytes = act[d][t].bytes
  OBVIOUS
<1>2. PICK r : r = IF bytes = NoSession THEN In(d, t) ELSE bytes
  OBVIOUS
<1>3. /\ act[d][t].step = "import" /\ act[d][t].store \in Store /\ Restored(d, t, r)
      /\ UNCHANGED <<disk, queue, current>>
  BY <1>1, <1>2, ActParts DEF Import, Shape
<1>4. r \in Record
  BY <1>1, <1>2, <1>3, ActParts
<1>5. S(d) = NoSession
  BY <1>3 DEF Restoring, Calm, OneRestores
<1>6. In(d, t) = NoSession /\ bytes = disk[d]
  BY <1>1, <1>3, <1>5 DEF In, S, Calm, OneStore, Loaded
<1>7. r = Rec[d]
  BY <1>2, <1>5, <1>6, RecType DEF TypeInv
<1> QED
  BY <1>3, <1>4, <1>7, RestoredReads

LEMMA EstablishReads ==
  ASSUME TypeInv, Calm, Reading, NEW d \in Device, NEW t \in Task, Establish(d, t), ~reused'
  PROVE  Reading'
<1>1. act[d][t].step = "bundle" /\ fresh \in Nat
  BY DEF Establish, TypeInv, TypeOK
<1>2. S(d) = NoSession /\ disk[d] = NoSession
  BY <1>1 DEF Restoring, Calm, OneRestores, Reading, Bundled
<1>3. In(d, t) = NoSession /\ Rec[d] = NoSession
  BY <1>1, <1>2, RecType DEF In, S, Calm, OneStore, TypeInv
<1>4. PICK r \in Record : r = Established(NoSession, fresh) /\ r # NoSession
  BY <1>1, NoSessionType, EstablishedIs
<1>5. Encrypt(d, t, r, fresh + 1) /\ UNCHANGED <<disk, queue, current>>
  BY <1>3, <1>4 DEF Establish
<1>6. fresh + 1 \in Nat /\ act[d][t].step # "none"
  BY <1>1
<1>7. PICK a : Encrypts(d, t, r, fresh + 1, a)
  BY <1>4, <1>5, <1>6, EncryptEffect
<1> QED
  BY <1>1, <1>3, <1>4, <1>5, <1>6, <1>7, EncryptReads

LEMMA ReplyReads ==
  ASSUME TypeInv, Calm, Reading, NEW d \in Device, NEW t \in Task, Reply(d, t), ~reused'
  PROVE  Reading'
<1>1. act[d][t].step = "reply" /\ fresh \in Nat /\ In(d, t) \in Record
  BY ActParts DEF Reply, Shape, TypeInv, TypeOK
<1>2. PICK r \in Record : r = In(d, t) /\ r # NoSession
  BY <1>1 DEF TypeInv, Works, Uses
<1>3. r = S(d)
  BY <1>1, <1>2 DEF In, S, Calm, OneStore
<1>4. r = Rec[d]
  BY <1>2, <1>3, RecType DEF TypeInv
<1>5. Encrypt(d, t, r, fresh) /\ UNCHANGED <<disk, queue, current>>
  BY <1>2 DEF Reply
<1>6. PICK a : Encrypts(d, t, r, fresh, a)
  BY <1>1, <1>2, <1>5, EncryptEffect
<1> QED
  BY <1>1, <1>2, <1>4, <1>5, <1>6, EncryptReads

LEMMA SameReading == UNCHANGED vars => Reading' = Reading
<1> SUFFICES ASSUME UNCHANGED vars PROVE Reading' = Reading
  OBVIOUS
<1>1. /\ disk' = disk /\ queue' = queue /\ store' = store /\ current' = current /\ act' = act
      /\ fresh' = fresh /\ keys' = keys /\ rejected' = rejected
  BY DEF vars, past
<1>2. Rec' = Rec /\ \A d \in Device : S(d)' = S(d)
  BY <1>1 DEF Rec, S
<1>3. \A d : Lines(d)' = Lines(d)
  BY <1>1 DEF Lines
<1>4. \A d : Linked(d)' = Linked(d)
  BY <1>1, <1>2, <1>3 DEF Linked
<1>5. Bundled' = Bundled
  BY <1>1 DEF Bundled
<1> QED
  BY <1>1, <1>3, <1>4, <1>5 DEF Reading

(* What was a disturbance stays one *)
LEMMA Disturbing ==
  ASSUME TypeInv, Next, Undisturbed'
  PROVE  Undisturbed
<1>1. \A d \in Device, t \in Task : Check(d, t) => (raced => raced') /\ UNCHANGED <<parted, cut>>
  BY DEF Check
<1>2. \A d \in Device, t \in Task : CreateGroup(d, t) => ~Undisturbed'
  BY DEF CreateGroup, Undisturbed
<1>3. \A d \in Device, t \in Task : Fail(d, t) => ~Undisturbed'
  BY DEF Fail, Undisturbed
<1>4. \A d \in Device : EnterScreen(d) => (parted => parted') /\ UNCHANGED <<raced, cut>>
  BY DEF EnterScreen
<1>5. \A d \in Device : Reload(d) => (cut => cut') /\ UNCHANGED <<raced, parted>>
  BY DEF Reload
<1>6. \A d \in Device, t \in Task :
        \/ Begin(d, t, "send") \/ Begin(d, t, "poll") \/ LoadSession(d, t)
        \/ Import(d, t) \/ Establish(d, t) \/ Reply(d, t) \/ SendMessage(d, t)
        \/ Persist(d, t) \/ FetchMessages(d, t)
        => UNCHANGED <<raced, parted, cut>>
  BY DEF Begin, LoadSession, Import, Establish, Reply, SendMessage, Persist, FetchMessages, past
<1> QED
  BY <1>1, <1>2, <1>3, <1>4, <1>5, <1>6 DEF Next, Undisturbed

LEMMA NextReads ==
  ASSUME Inv, Inv', ReadInv, [Next]_vars
  PROVE  ReadInv'
<1> SUFFICES ASSUME Undisturbed' PROVE Reading'
  BY DEF ReadInv
<1>1. TypeInv /\ ~reused'
  BY DEF Inv, Calm
<1>2. CASE UNCHANGED vars
  <2>1. Undisturbed
    BY <1>2 DEF Undisturbed, vars, past
  <2> QED
    BY <1>2, <2>1, SameReading DEF ReadInv
<1>3. CASE Next
  <2>1. Undisturbed
    BY <1>1, <1>3, Disturbing
  <2>2. Calm /\ Reading /\ ~parted' /\ ~cut'
    BY <2>1 DEF Inv, ReadInv, Undisturbed
  <2>3. ASSUME NEW d \in Device, EnterScreen(d) PROVE Reading'
    BY <1>1, <2>2, <2>3, EnterReads
  <2>4. ASSUME NEW d \in Device, Reload(d) PROVE Reading'
    BY <1>1, <2>2, <2>4, ReloadReads
  <2>5. ASSUME NEW d \in Device, NEW t \in Task, Begin(d, t, "send") \/ Begin(d, t, "poll")
        PROVE  Reading'
    BY <1>1, <2>2, <2>5, BeginReads
  <2>6. ASSUME NEW d \in Device, NEW t \in Task, CreateGroup(d, t) \/ Fail(d, t)
        PROVE  Reading'
    BY <2>2, <2>6 DEF CreateGroup, Fail
  <2>7. ASSUME NEW d \in Device, NEW t \in Task,
               Check(d, t) \/ LoadSession(d, t) \/ Import(d, t)
        PROVE  Reading'
    BY <1>1, <2>2, <2>7, CheckReads, LoadReads, ImportReads
  <2>8. ASSUME NEW d \in Device, NEW t \in Task, Establish(d, t) \/ Reply(d, t)
        PROVE  Reading'
    BY <1>1, <2>2, <2>8, EstablishReads, ReplyReads
  <2>9. ASSUME NEW d \in Device, NEW t \in Task,
               SendMessage(d, t) \/ Persist(d, t) \/ FetchMessages(d, t)
        PROVE  Reading'
    BY <1>1, <2>2, <2>9, SendReads, PersistReads, FetchReads
  <2> QED
    BY <1>3, <2>3, <2>4, <2>5, <2>6, <2>7, <2>8, <2>9 DEF Next
<1> QED
  BY <1>2, <1>3

(* Two devices without a session, and two in touch *)
LEMMA Unlinked == Link({}, {}, {}, {}, {}, 1)
  BY DEF Link, Half

LEMMA LinkEmpty ==
  ASSUME NEW D \in SUBSET EndState, NEW E \in SUBSET EndState, NEW F \in SUBSET Envelopes,
         NEW G \in SUBSET Envelopes, NEW ks \in SUBSET Key, NEW f \in Nat, f # 0
  PROVE  LinkTypes(D, E, F, G, ks, f)
  BY DEF LinkTypes

LEMMA InTouchLinked ==
  ASSUME NEW d \in Device, NEW key, key = [chain |-> 1, n |-> 0]
  PROVE  \A e \in Device : Link(Ends(InTouch(d)[e]), Ends(InTouch(d)[Peer(e)]), {}, {}, {key}, 3)
<1>1. PICK p : p = Peer(d) /\ p \in Device /\ p # d /\ Peer(p) = d
               /\ \A c \in Device : c = d \/ c = p
  BY Pair
<1>2. PICK none \in SUBSET EndState : none = {}
  OBVIOUS
<1>3. PICK empty \in SUBSET Envelopes : empty = {}
  OBVIOUS
<1>4. PICK nokey \in SUBSET Key : nokey = {}
  OBVIOUS
<1>5. PICK one, two, three \in Nat : one = 1 /\ two = one + 1 /\ three = two + 1
  OBVIOUS
<1>6. PICK r \in Record : r = Established(NoSession, one) /\ r # NoSession
  BY <1>5, NoSessionType, EstablishedIs
<1>7. PICK s \in EndState : /\ Ends(r) = {s}
                            /\ s.sid = one /\ s.own = one /\ s.on = Prekey
                            /\ s.acked = FALSE /\ s.seen = {}
  BY <1>5, <1>6, EstablishedEnds
<1>8. PICK D \in SUBSET EndState : D = none \cup {s}
  BY <1>2
<1>9. Link(D, none, empty, empty, nokey, two) /\ LinkTypes(D, none, empty, empty, nokey, two)
  <2>1. Link(none, none, empty, empty, nokey, one)
    BY <1>2, <1>3, <1>4, <1>5, Unlinked
  <2>2. LinkTypes(none, none, empty, empty, nokey, one)
    BY <1>5, LinkEmpty
  <2>3. Link(none \cup {s}, none, empty, empty, nokey, one + 1)
    BY <1>7, <2>1, <2>2, LinkEstablishes
  <2> QED
    BY <1>5, <1>8, <2>3, LinkEmpty
<1>10. PICK e \in Envelopes : e = First /\ e = Envelope(r)
  BY <1>5, <1>6, FirstIs DEF First
<1>11. e.sid = s.sid /\ e.chain = s.own /\ e.on = s.on /\ e.prekey = ~s.acked /\ KeyOf(e) = key
  <2>1. \E c \in Ends(r) : e.sid = c.sid /\ e.chain = c.own /\ e.on = c.on /\ e.prekey = ~c.acked
    BY <1>6, <1>10, EncryptedEnds
  <2> QED
    BY <1>7, <1>10, <2>1, FirstIs DEF KeyOf
<1>12. PICK ks \in SUBSET Key : ks = nokey \cup {KeyOf(e)}
  <2>1. KeyOf(e) \in Key
    BY DEF KeyOf, Key, Envelopes
  <2> QED
    BY <2>1
<1>13. PICK F \in SUBSET Envelopes : F = empty \cup {e}
  BY <1>3
<1>14. Link(D, none, F, empty, ks, two)
  <2>1. s \in D /\ KeyOf(e) \notin nokey
    BY <1>4, <1>8
  <2> QED
    BY <1>9, <1>11, <1>12, <1>13, <2>1, LinkEncrypts
<1>15. Link(none, D, empty, F, ks, two) /\ LinkTypes(none, D, empty, F, ks, two)
  BY <1>5, <1>14, LinkSwaps, LinkEmpty
<1>16. PICK new : new = Decrypted(NoSession, e, two)
  OBVIOUS
<1>17. PICK c \in EndState : Ends(new) = none \cup {c} /\ Becoming(Answer(e), c, e, two)
  <2>1. Decryptable(NoSession, e) /\ NoSession \in Record /\ OwnChains(NoSession)
    BY <1>10, FirstIs, NoSessionType DEF OwnChains
  <2>2. \E c \in EndState :
           \/ \E t \in Ends(NoSession) :
                /\ Ends(Decrypted(NoSession, e, two)) = (Ends(NoSession) \ {t}) \cup {c}
                /\ Opens(t, e) /\ Becoming(t, c, e, two)
           \/ /\ Ends(Decrypted(NoSession, e, two)) = Ends(NoSession) \cup {c}
              /\ \A t \in Ends(NoSession) : t.sid # e.sid
              /\ e.on = Prekey /\ Becoming(Answer(e), c, e, two)
    BY <1>5, <2>1, DecryptedEnds
  <2> QED
    BY <1>2, <1>16, <2>2, NoEnds
<1>18. c.sid = e.sid /\ c.own = two /\ c.on = e.chain /\ c.acked = TRUE /\ c.seen = {KeyOf(e)}
  <2>1. Answer(e).sid = e.sid /\ Answer(e).seen = {}
    BY DEF Answer
  <2>2. ~Trails(Answer(e), e.chain)
    BY <2>1 DEF Trails
  <2> QED
    BY <1>17, <2>1, <2>2 DEF Becoming
<1>19. Link(none \cup {c}, D, empty, empty, ks, two + 1)
  <2>1. e \in F /\ (\A t \in none : t.sid # e.sid) /\ e.on = Prekey
    BY <1>2, <1>7, <1>11, <1>13
  <2>2. empty \in SUBSET F /\ \A g \in empty : KeyOf(g) # KeyOf(e)
    BY <1>3
  <2> QED
    BY <1>15, <1>18, <2>1, <2>2, LinkAnswers
<1>20. Link(D, none \cup {c}, empty, empty, ks, two + 1)
  BY <1>19, LinkSwaps
<1>21. /\ InTouch(d)[d] = Encrypted(r) /\ InTouch(d)[p] = new
  BY <1>1, <1>5, <1>6, <1>10, <1>16 DEF InTouch
<1>22. Ends(InTouch(d)[d]) = D /\ Ends(InTouch(d)[p]) = none \cup {c}
  BY <1>2, <1>6, <1>7, <1>8, <1>17, <1>21, EncryptedEnds
<1>23. ks = {key} /\ two + 1 = 3
  BY <1>4, <1>5, <1>11, <1>12
<1> QED
  BY <1>1, <1>3, <1>19, <1>20, <1>22, <1>23

LEMMA InitReads == Init => ReadInv
<1> SUFFICES ASSUME Init PROVE Reading
  BY DEF ReadInv
<1>1. \A d \in Device, t \in Task : act[d][t] = Idle
  BY DEF Init
<1>2. \A d \in Device : queue[d] = <<>>
  BY DEF Init
<1>3. Rec = disk
  <2>1. \A d \in Device : S(d) = NoSession
    BY DEF Init, S, Pages
  <2>2. disk = [d \in Device |-> disk[d]]
    BY DEF Init, InTouch
  <2> QED
    BY <2>1, <2>2 DEF Rec
<1>4. ASSUME NEW d \in Device, NEW l \in Line PROVE Lines(d)[l] = <<>>
  BY <1>1, <1>2, IdleLines, Pair, LineCases, LinesAre
<1>5. ASSUME NEW d \in Device PROVE Apart(Lines(d)) /\ Flights(Lines(d)) = {}
  <2>1. DOMAIN Lines(d) = Line
    BY DEF Lines
  <2>2. \A l \in Line : 1..Len(Lines(d)[l]) = {}
    BY <1>4
  <2> QED
    BY <2>1, <2>2 DEF Apart, Flights
<1>6. \A d \in Device : Link(Ends(disk[d]), Ends(disk[Peer(d)]), {}, {}, keys, fresh)
  <2>1. CASE disk = [d \in Device |-> NoSession] /\ keys = {} /\ fresh = 1
    BY <2>1, NoEnds, Pair, Unlinked
  <2>2. CASE \E d \in Device :
               disk = InTouch(d) /\ keys = {[chain |-> 1, n |-> 0]} /\ fresh = 3
    BY <2>2, InTouchLinked
  <2> QED
    BY <2>1, <2>2 DEF Init
<1>7. \A d \in Device : Linked(d)
  BY <1>3, <1>5, <1>6, Pair DEF Linked
<1>8. Bundled
  BY <1>1, IdleIs DEF Bundled
<1> QED
  BY <1>5, <1>7, <1>8 DEF Reading, Init

(* EverythingRead: however the two devices send, poll, establish sessions at   *)
(* once and lose messages, every envelope that a poll receives decrypts, under *)
(* the conditions of KeysOnce.                                                 *)
THEOREM EverythingRead == Spec => []Readable
<1>1. ReadInv => Readable
  BY DEF ReadInv, Reading, Readable
<1>2. Inv /\ ReadInv /\ [Next]_vars => Inv' /\ ReadInv'
  BY NextInv, NextReads
<1>3. Init => Inv /\ ReadInv
  BY InitInv, InitReads
<1> QED
  BY <1>1, <1>2, <1>3, PTL DEF Spec

=============================================================================
