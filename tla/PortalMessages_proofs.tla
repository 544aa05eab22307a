------------------------ MODULE PortalMessages_proofs ------------------------
(***************************************************************************)
(* The notifications of one participant, for any number of them, any time   *)
(* they are kept and any number of broken connections: the client processes *)
(* them in order, the buffer holds the recent ones, and the portal's        *)
(* numbering, buffering and replaying implements MessageDelivery.           *)
(*                                                                          *)
(* With protocol 1.2 the buffer is a run of notifications that ends with    *)
(* the latest one, and what is on the wire takes up where the client is:    *)
(* its count is the number of the last notification it has, or the next.    *)
(* With 1.1 everything on the wire, and after it all that is pending, is    *)
(* newer than what the client has.                                          *)
(***************************************************************************)
EXTENDS PortalMessages, SequenceTheorems, WellFoundedInduction, TLAPS

Entry == [data : Messages, seq : Nat, time : (0..MaxTime) \cup {NoTime}]
Items == {Event(m) : m \in Messages} \cup {Answer(b) : b \in Seq(Entry)}

\* Types, and that of the parts of lists.
Typed ==
  /\ protocol_version \in {"1.1", "1.2"}
  /\ state \in {"connected", "waiting_for_reconnecting", "initialized"}
  /\ message_seq \in Nat /\ sequence \in Nat
  /\ message_buffer \in Seq(Entry) /\ wire \in Seq(Items)
  /\ pending_messages \in Seq(Messages) /\ received \in Seq(Messages)
  /\ notified \in Seq(0..MaxTime) /\ Len(notified) <= MaxMessages
  /\ now \in 0..MaxTime /\ breaks \in 0..MaxBreaks
  /\ link \in {"up", "broken", "down"}

\* A client that is reached is connected, and nothing is on a socket that is not up.
LinkAgrees ==
  /\ link = "up" => state = "connected"
  /\ link # "up" => wire = <<>>

\* Nothing happens in the future, and an entry is no older than its notification.
TimesAgree ==
  /\ \A m \in 1..Len(notified) : notified[m] <= now
  /\ \A i \in 1..Len(message_buffer) :
       /\ message_buffer[i].data <= Len(notified)
       /\ message_buffer[i].time # NoTime =>
            /\ message_buffer[i].time <= now
            /\ notified[message_buffer[i].data] <= message_buffer[i].time

\* A notification is in the buffer or was too old when the latest one was sent.
Kept ==
  \A m \in 1..Len(notified) :
    \/ \E i \in 1..Len(message_buffer) : message_buffer[i].data = m
    \/ notified[Len(notified)] - notified[m] > messageKeepTime

\* The number of the last notification the client has processed.
LastGot == IF received = <<>> THEN 0 ELSE received[Len(received)]

Ascending(list) == \A i, j \in 1..Len(list) : i < j => list[i] <= list[j]
StrictlyAscending(list) == \A i, j \in 1..Len(list) : i < j => list[i] < list[j]

\* The entries of successive notifications, of which e is the last one.
Run(entries, e) ==
  /\ Len(entries) <= e
  /\ \A i \in 1..Len(entries) :
       entries[i].data = e - Len(entries) + i /\ entries[i].seq = e - Len(entries) + i

\* What the wire carries when only its first item may be the answer to a relogin: the answer
\* reaches back as far as the buffer does, and the events go on where it ends.
Replays ==
  /\ \A i \in 1..Len(wire) :
       \/ wire[i] = Event(Len(notified) - Len(wire) + i)
       \/ i = 1 /\ \E b \in Seq(Entry) :
            /\ wire[1] = Answer(b) /\ Run(b, Len(notified) - Len(wire) + 1)
            /\ Len(message_buffer) <= Len(b) + Len(wire) - 1
            /\ Len(notified) - Len(wire) + 1 > 0 => b # <<>>
  /\ Len(wire) <= Len(notified) + 1
  /\ link = "up" => \/ wire # <<>> /\ wire[1].type = "relogin" /\ LastGot <= Len(notified) - Len(wire) + 1
                    \/ (wire # <<>> => wire[1].type # "relogin") /\ LastGot = Len(notified) - Len(wire)

\* The numbers of the buffer, the client and the wire continue each other.  What the client has
\* missed has left the buffer.
Continues ==
  /\ message_seq = Len(notified) /\ Run(message_buffer, Len(notified))
  /\ Ascending(received) /\ LastGot <= Len(notified)
  /\ sequence \in {LastGot, LastGot + 1}
  /\ \A m \in 1..Len(notified) : m < LastGot /\ (\A i \in 1..Len(received) : received[i] # m)
       => m <= Len(notified) - Len(message_buffer)
  /\ Replays

\* Protocol 1.2.
Numbered == protocol_version = "1.2" => Continues

\* Protocol 1.1.
Pending ==
  protocol_version = "1.1" =>
    /\ state = "connected" => pending_messages = <<>>
    /\ StrictlyAscending(received) /\ LastGot <= Len(notified)
    /\ StrictlyAscending(pending_messages)
    /\ \A i \in 1..Len(pending_messages) :
         LastGot < pending_messages[i] /\ pending_messages[i] <= Len(notified)
    /\ \A i \in 1..Len(wire) :
         \/ wire[i] = Answer(<<>>)
         \/ \E m \in Messages : wire[i] = Event(m) /\ LastGot < m /\ m <= Len(notified)
    /\ \A i, j \in 1..Len(wire) : i < j /\ wire[i].type = "event" /\ wire[j].type = "event"
         => wire[i].messages[1] < wire[j].messages[1]

MessageInv == Typed /\ LinkAgrees /\ TimesAgree /\ Kept /\ Numbered /\ Pending

-----------------------------------------------------------------------------
(* Lists                                                                    *)

LEMMA MinIs ==
  ASSUME NEW I, I \subseteq Nat, I # {}
  PROVE  Min(I) \in I /\ \A i \in I : Min(I) <= i
<1> DEFINE R == {p \in Nat \X Nat : p[1] < p[2]}
<1>1. IsWellFoundedOn(R, Nat)
  BY NatLessThanWellFounded DEF OpToRel
<1>2. PICK x \in I : \A y \in I : ~(<<y, x>> \in R)
  BY <1>1, WFMin
<1>3. \A y \in I : x <= y
  <2> SUFFICES ASSUME NEW y \in I PROVE x <= y
    OBVIOUS
  <2>1. <<y, x>> \notin R /\ x \in Nat /\ y \in Nat
    BY <1>2
  <2>2. <<y, x>> \in R <=> y < x
    BY <2>1
  <2> QED
    BY <2>1, <2>2
<1>4. \E y \in I : \A z \in I : y <= z
  BY <1>3
<1> QED
  BY <1>4, Zenon DEF Min

\* A list from one of its places on.
LEMMA FromOnIs ==
  ASSUME NEW S, NEW list \in Seq(S), NEW first \in 1..Len(list)
  PROVE  /\ FromOn(list, first) \in Seq(S)
         /\ Len(FromOn(list, first)) = Len(list) - first + 1
         /\ \A i \in 1..Len(FromOn(list, first)) : FromOn(list, first)[i] = list[first + i - 1]
BY SubSeqProperties DEF FromOn

\* Trimmed cuts off what is expired, up to the first entry that is not.
LEMMA TrimmedIs ==
  ASSUME NEW buffer \in Seq(Entry), NEW k \in 1..Len(buffer), ~Expired(buffer[k])
  PROVE  \E first \in 1..k :
           /\ Trimmed(buffer) = FromOn(buffer, first)
           /\ \A i \in 1..Len(buffer) : i < first => Expired(buffer[i])
<1> DEFINE I == {i \in 1..Len(buffer) : ~Expired(buffer[i])}
<1>1. k \in I /\ I \subseteq Nat
  OBVIOUS
<1>2. Min(I) \in I /\ \A i \in I : Min(I) <= i
  BY <1>1, MinIs
<1>3. SelectInSeq(buffer, LAMBDA entry : ~Expired(entry)) = Min(I)
  BY <1>1 DEF SelectInSeq
<1>4. Trimmed(buffer) = FromOn(buffer, Min(I))
  BY <1>3 DEF Trimmed
<1>5. Min(I) \in 1..k
  BY <1>1, <1>2
<1>6. \A i \in 1..Len(buffer) : i < Min(I) => Expired(buffer[i])
  <2> SUFFICES ASSUME NEW i \in 1..Len(buffer), i < Min(I), ~Expired(buffer[i]) PROVE FALSE
    OBVIOUS
  <2>1. i \in I
    OBVIOUS
  <2> QED
    BY <1>2, <1>5, <2>1
<1> QED
  BY <1>4, <1>5, <1>6

\* The client takes of an answer what follows the first entry with its count, or nothing.
LEMMA UnseenIs ==
  ASSUME NEW b \in Seq(Entry)
  PROVE  \/ Unseen(b) = <<>> /\ \A i \in 1..Len(b) : ~(b[i].seq >= sequence)
         \/ \E first \in 1..Len(b) :
              /\ Unseen(b) = FromOn(b, first) /\ b[first].seq >= sequence
              /\ \A i \in 1..Len(b) : i < first => ~(b[i].seq >= sequence)
<1> DEFINE I == {i \in 1..Len(b) : b[i].seq >= sequence}
<1>1. SelectInSeq(b, LAMBDA entry : entry.seq >= sequence) = IF I # {} THEN Min(I) ELSE 0
  BY DEF SelectInSeq
<1>2. CASE I = {}
  BY <1>1, <1>2 DEF Unseen, FromOn
<1>3. CASE I # {}
  <2>1. I \subseteq Nat
    OBVIOUS
  <2>2. Min(I) \in I /\ \A i \in I : Min(I) <= i
    BY <1>3, <2>1, MinIs
  <2>3. Min(I) \in 1..Len(b) /\ b[Min(I)].seq >= sequence
    BY <2>2
  <2>4. \A i \in 1..Len(b) : i < Min(I) => ~(b[i].seq >= sequence)
    BY <2>2, <2>3
  <2>5. Unseen(b) = FromOn(b, Min(I))
    BY <1>1, <1>3 DEF Unseen
  <2> QED
    BY <2>3, <2>4, <2>5
<1> QED
  BY <1>2, <1>3

-----------------------------------------------------------------------------
(* The buffer                                                               *)

LEMMA EntriesAre ==
  ASSUME Typed, NEW messages \in Seq(Messages)
  PROVE  /\ Entries(messages) \in Seq(Entry) /\ Len(Entries(messages)) = Len(messages)
         /\ \A i \in 1..Len(messages) :
              Entries(messages)[i] = [data |-> messages[i], seq |-> message_seq + i, time |-> now]
<1>1. DOMAIN messages = 1..Len(messages) /\ Len(messages) \in Nat
  OBVIOUS
<1>2. \A i \in 1..Len(messages) :
        [data |-> messages[i], seq |-> message_seq + i, time |-> now] \in Entry
  BY <1>1 DEF Typed, Entry
<1>3. Entries(messages) \in [1..Len(messages) -> Entry]
  BY <1>1, <1>2 DEF Entries
<1>4. Entries(messages) \in Seq(Entry) /\ Len(Entries(messages)) = Len(messages)
  BY <1>1, <1>3, SeqDef
<1> QED
  BY <1>1, <1>4 DEF Entries

LEMMA HandedIs ==
  ASSUME Typed
  PROVE  /\ Handed \in Seq(Entry) /\ Len(Handed) = Len(message_buffer)
         /\ \A i \in 1..Len(message_buffer) :
              Handed[i] = [message_buffer[i] EXCEPT !.time = NoTime]
<1>1. DOMAIN message_buffer = 1..Len(message_buffer) /\ Len(message_buffer) \in Nat
  BY DEF Typed
<1>2. \A i \in 1..Len(message_buffer) : [message_buffer[i] EXCEPT !.time = NoTime] \in Entry
  <2> SUFFICES ASSUME NEW i \in 1..Len(message_buffer)
               PROVE  [message_buffer[i] EXCEPT !.time = NoTime] \in Entry
    OBVIOUS
  <2>1. message_buffer[i] \in Entry
    BY ElementOfSeq DEF Typed
  <2> QED
    BY <2>1 DEF Entry
<1>3. Handed \in [1..Len(message_buffer) -> Entry]
  BY <1>1, <1>2 DEF Handed
<1>4. Handed \in Seq(Entry) /\ Len(Handed) = Len(message_buffer)
  BY <1>1, <1>3, SeqDef
<1> QED
  BY <1>1, <1>4 DEF Handed

\* The entry sendMessage makes of a notification.
Sent == [data |-> Len(notified) + 1, seq |-> message_seq + 1, time |-> now]

\* After sendMessage the buffer is what it was, but for what has expired, and the new entry.
LEMMA BufferSent ==
  ASSUME Typed, Len(notified) < MaxMessages,
         NEW b, b = Trimmed(message_buffer \o Entries(<<Len(notified) + 1>>))
  PROVE  \E first \in 1..Len(message_buffer) + 1 :
           /\ b \in Seq(Entry) /\ Len(b) = Len(message_buffer) + 2 - first
           /\ \A i \in 1..Len(b) : b[i] = IF first + i - 1 <= Len(message_buffer)
                                          THEN message_buffer[first + i - 1] ELSE Sent
           /\ \A i \in 1..Len(message_buffer) : i < first => Expired(message_buffer[i])
<1> DEFINE n == Len(message_buffer) + 1
           es == Entries(<<Len(notified) + 1>>)
           all == message_buffer \o es
<1>1. message_buffer \in Seq(Entry) /\ Len(message_buffer) \in Nat /\ n \in Nat
  BY DEF Typed
<1>2. es \in Seq(Entry) /\ Len(es) = 1 /\ es[1] = Sent
  <2> DEFINE ms == <<Len(notified) + 1>>
  <2>1. ms \in Seq(Messages) /\ Len(ms) = 1 /\ ms[1] = Len(notified) + 1
    BY MessageAssumption DEF Typed, Messages
  <2>2. es = Entries(ms)
    OBVIOUS
  <2> HIDE DEF ms, es
  <2>3. /\ es \in Seq(Entry) /\ Len(es) = 1
        /\ es[1] = [data |-> ms[1], seq |-> message_seq + 1, time |-> now]
    BY <2>1, <2>2, EntriesAre
  <2> QED
    BY <2>1, <2>3 DEF Sent
<1> HIDE DEF es
<1>3. /\ all \in Seq(Entry) /\ Len(all) = n
      /\ \A i \in 1..n : all[i] = IF i <= Len(message_buffer) THEN message_buffer[i] ELSE Sent
  <2>1. /\ all \in Seq(Entry) /\ Len(all) = Len(message_buffer) + Len(es)
        /\ \A i \in 1..(Len(message_buffer) + Len(es)) :
             all[i] = IF i <= Len(message_buffer) THEN message_buffer[i]
                                                  ELSE es[i - Len(message_buffer)]
    BY <1>1, <1>2, ConcatProperties
  <2>2. \A i \in 1..n : ~(i <= Len(message_buffer)) => i - Len(message_buffer) = 1
    BY <1>1
  <2> QED
    BY <1>1, <1>2, <2>1, <2>2
<1> HIDE DEF all
<1>4. ~Expired(all[n])
  <2>1. all[n] = Sent
    BY <1>1, <1>3
  <2> QED
    BY <2>1, MessageAssumption DEF Expired, Sent, Typed
<1>5. n \in 1..Len(all)
  BY <1>1, <1>3
<1>6. PICK first \in 1..n : /\ Trimmed(all) = FromOn(all, first)
                            /\ \A i \in 1..Len(all) : i < first => Expired(all[i])
  BY <1>3, <1>4, <1>5, TrimmedIs
<1>7. b = Trimmed(all)
  BY DEF all, es
<1>8. /\ b \in Seq(Entry) /\ Len(b) = n - first + 1
      /\ \A i \in 1..Len(b) : b[i] = all[first + i - 1]
  <2>1. first \in 1..Len(all)
    BY <1>3
  <2>2. /\ FromOn(all, first) \in Seq(Entry) /\ Len(FromOn(all, first)) = Len(all) - first + 1
        /\ \A i \in 1..Len(FromOn(all, first)) : FromOn(all, first)[i] = all[first + i - 1]
    BY <1>3, <2>1, FromOnIs
  <2>3. b = FromOn(all, first)
    BY <1>6, <1>7
  <2> HIDE DEF n
  <2> QED
    BY <1>3, <2>2, <2>3
<1>9. \A i \in 1..Len(b) : b[i] = IF first + i - 1 <= Len(message_buffer)
                                  THEN message_buffer[first + i - 1] ELSE Sent
  <2>1. \A i \in 1..Len(b) : first + i - 1 \in 1..n
    BY <1>1, <1>8
  <2> QED
    BY <1>3, <1>8, <2>1
<1>10. \A i \in 1..Len(message_buffer) : i < first => Expired(message_buffer[i])
  BY <1>1, <1>3, <1>6
<1>11. first \in 1..Len(message_buffer) + 1 /\ Len(b) = Len(message_buffer) + 2 - first
  BY <1>1, <1>8
<1> QED
  BY <1>8, <1>9, <1>10, <1>11

\* A relogin hands over the whole buffer without times, and adds what drainPendingMessages
\* sends: nothing of it has expired.
LEMMA BufferHandedOver ==
  ASSUME Typed, NEW b, b = Trimmed(Handed \o Entries(Drained))
  PROVE  /\ Drained \in Seq(Messages)
         /\ b \in Seq(Entry) /\ Len(b) = Len(message_buffer) + Len(Drained)
         /\ \A i \in 1..Len(b) :
              b[i] = IF i <= Len(message_buffer)
                     THEN [message_buffer[i] EXCEPT !.time = NoTime]
                     ELSE [data |-> Drained[i - Len(message_buffer)],
                           seq |-> message_seq + (i - Len(message_buffer)), time |-> now]
<1> DEFINE es == Entries(Drained)
           all == Handed \o es
<1>1. Drained \in Seq(Messages) /\ Len(Drained) \in Nat /\ Len(message_buffer) \in Nat
  BY DEF Typed, Drained
<1>2. /\ es \in Seq(Entry) /\ Len(es) = Len(Drained)
      /\ \A i \in 1..Len(Drained) :
           es[i] = [data |-> Drained[i], seq |-> message_seq + i, time |-> now]
  BY <1>1, EntriesAre
<1> HIDE DEF es
<1>3. /\ all \in Seq(Entry) /\ Len(all) = Len(message_buffer) + Len(Drained)
      /\ \A i \in 1..Len(all) : all[i] = IF i <= Len(message_buffer) THEN Handed[i]
                                         ELSE es[i - Len(message_buffer)]
  <2>1. Handed \in Seq(Entry) /\ Len(Handed) = Len(message_buffer)
    BY HandedIs
  <2>2. /\ all \in Seq(Entry) /\ Len(all) = Len(Handed) + Len(es)
        /\ \A i \in 1..(Len(Handed) + Len(es)) :
             all[i] = IF i <= Len(Handed) THEN Handed[i] ELSE es[i - Len(Handed)]
    <3> DEFINE h == Handed
    <3>1. h \in Seq(Entry) /\ es \in Seq(Entry)
      BY <1>2, <2>1
    <3> HIDE DEF h
    <3>2. h \o es \in Seq(Entry)
      BY <3>1, ConcatProperties
    <3>3. Len(h \o es) = Len(h) + Len(es)
      BY <3>1, ConcatProperties
    <3>4. \A i \in 1..(Len(h) + Len(es)) :
             (h \o es)[i] = IF i <= Len(h) THEN h[i] ELSE es[i - Len(h)]
      BY <3>1, ConcatProperties
    <3> QED
      BY <3>2, <3>3, <3>4 DEF h
  <2> QED
    BY <1>2, <2>1, <2>2
<1> HIDE DEF all
<1>4. b = all
  <2>1. CASE all = <<>>
    BY <2>1, <1>3 DEF Trimmed, FromOn, SelectInSeq, all, es
  <2>2. CASE all # <<>>
    <3>1. 1 \in 1..Len(all)
      BY <2>2, <1>3
    <3>2. ~Expired(all[1])
      <4>1. all[1] = IF 1 <= Len(message_buffer) THEN Handed[1] ELSE es[1 - Len(message_buffer)]
        BY <1>3, <3>1
      <4>2. CASE 1 <= Len(message_buffer)
        <5>1. all[1].time = NoTime
          <6>1. 1 \in 1..Len(message_buffer)
            BY <1>1, <4>2
          <6>2. message_buffer[1] \in Entry
            BY <6>1, ElementOfSeq DEF Typed
          <6> QED
            BY <4>1, <4>2, <6>1, <6>2, HandedIs DEF Entry
        <5> QED
          BY <5>1 DEF Expired
      <4>3. CASE ~(1 <= Len(message_buffer))
        <5>1. Len(message_buffer) = 0 /\ 1 \in 1..Len(Drained)
          BY <1>1, <1>3, <3>1, <4>3
        <5>2. all[1] = es[1]
          BY <4>1, <4>3, <5>1
        <5>3. all[1].time = now
          <6>1. es[1] = [data |-> Drained[1], seq |-> message_seq + 1, time |-> now]
            BY <1>2, <5>1, Zenon
          <6> QED
            BY <5>2, <6>1
        <5> QED
          BY <5>3, MessageAssumption DEF Expired, Typed
      <4> QED
        BY <4>2, <4>3
    <3>3. PICK first \in 1..1 : Trimmed(all) = FromOn(all, first)
      BY <1>3, <3>1, <3>2, TrimmedIs
    <3>4. Trimmed(all) = all
      BY <1>3, <3>1, <3>3, SubSeqFull DEF FromOn
    <3> QED
      BY <3>4 DEF all, es
  <2> QED
    BY <2>1, <2>2
<1>5. \A i \in 1..Len(b) : ~(i <= Len(message_buffer)) => i - Len(message_buffer) \in 1..Len(Drained)
  BY <1>1, <1>3, <1>4
<1> QED
  BY <1>1, <1>2, <1>3, <1>4, <1>5, HandedIs

-----------------------------------------------------------------------------
(* The wire                                                                 *)

LEMMA ItemsAre ==
  /\ \A m \in Messages : Event(m) \in Items
  /\ \A b \in Seq(Entry) : Answer(b) \in Items
  /\ \A item \in Items : item.type = "event" => \E m \in Messages : item = Event(m)
  /\ \A item \in Items : item.type # "event" => \E b \in Seq(Entry) : item = Answer(b)
<1>1. /\ \A m \in Messages : Event(m) \in Items
      /\ \A b \in Seq(Entry) : Answer(b) \in Items
      /\ \A item \in Items : \/ \E m \in Messages : item = Event(m)
                             \/ \E b \in Seq(Entry) : item = Answer(b)
  BY DEF Items
<1>2. /\ \A m \in Messages : Event(m).type = "event"
      /\ \A b \in Seq(Entry) : Answer(b).type = "relogin"
  BY DEF Event, Answer
<1> QED
  BY <1>1, <1>2

\* After a relogin the answer is on the wire, and behind it what was pending.
LEMMA WireReplaced ==
  ASSUME Typed,
         NEW w, w = <<Answer(Replayed)>> \o [i \in DOMAIN Drained |-> Event(Drained[i])]
  PROVE  /\ Replayed \in Seq(Entry) /\ w \in Seq(Items) /\ Len(w) = 1 + Len(Drained)
         /\ w[1] = Answer(Replayed)
         /\ \A i \in 2..Len(w) : w[i] = Event(Drained[i - 1])
<1> DEFINE head == <<Answer(Replayed)>>
           tail == [i \in DOMAIN Drained |-> Event(Drained[i])]
<1>1. Replayed \in Seq(Entry)
  <2>1. Handed \in Seq(Entry)
    BY HandedIs
  <2> QED
    BY <2>1 DEF Replayed
<1>2. head \in Seq(Items) /\ Len(head) = 1 /\ head[1] = Answer(Replayed)
  BY <1>1, ItemsAre
<1>3. /\ tail \in Seq(Items) /\ Len(tail) = Len(Drained) /\ Len(Drained) \in Nat
      /\ \A i \in 1..Len(Drained) : tail[i] = Event(Drained[i])
  <2>1. Drained \in Seq(Messages)
    BY DEF Typed, Drained
  <2>2. /\ Len(Drained) \in Nat /\ DOMAIN Drained = 1..Len(Drained)
        /\ \A i \in 1..Len(Drained) : Drained[i] \in Messages
    BY <2>1, LenProperties, ElementOfSeq
  <2>3. \A i \in 1..Len(Drained) : Event(Drained[i]) \in Items
    BY <2>2, ItemsAre
  <2>4. tail \in [1..Len(Drained) -> Items]
    BY <2>2, <2>3
  <2>5. tail \in Seq(Items)
    BY <2>2, <2>4, SeqDef
  <2> QED
    BY <2>2, <2>4, <2>5
<1> HIDE DEF head, tail
<1>4. /\ head \o tail \in Seq(Items) /\ Len(head \o tail) = Len(head) + Len(tail)
      /\ \A i \in 1..(Len(head) + Len(tail)) :
           (head \o tail)[i] = IF i <= Len(head) THEN head[i] ELSE tail[i - Len(head)]
  <2>1. head \in Seq(Items) /\ tail \in Seq(Items)
    BY <1>2, <1>3
  <2> QED
    BY <2>1, ConcatProperties
<1>5. w = head \o tail
  BY DEF head, tail
<1>6. w \in Seq(Items) /\ Len(w) = 1 + Len(Drained) /\ w[1] = Answer(Replayed)
  BY <1>2, <1>3, <1>4, <1>5
<1>7. \A i \in 2..Len(w) : w[i] = Event(Drained[i - 1])
  <2> SUFFICES ASSUME NEW i \in 2..Len(w) PROVE w[i] = Event(Drained[i - 1])
    OBVIOUS
  <2>1. i - 1 \in 1..Len(Drained) /\ i \in 1..(Len(head) + Len(tail)) /\ ~(i <= Len(head))
    BY <1>2, <1>3, <1>6
  <2>2. w[i] = tail[i - 1]
    BY <1>2, <1>4, <1>5, <2>1
  <2> QED
    BY <1>3, <2>1, <2>2
<1> QED
  BY <1>1, <1>6, <1>7

LEMMA DataOfIs ==
  ASSUME NEW es \in Seq(Entry)
  PROVE  /\ DataOf(es) \in Seq(Messages) /\ Len(DataOf(es)) = Len(es)
         /\ \A i \in 1..Len(es) : DataOf(es)[i] = es[i].data
<1>1. /\ DOMAIN es = 1..Len(es) /\ Len(es) \in Nat
      /\ \A i \in 1..Len(es) : es[i].data \in Messages
  <2>1. DOMAIN es = 1..Len(es) /\ Len(es) \in Nat /\ \A i \in 1..Len(es) : es[i] \in Entry
    BY LenProperties, ElementOfSeq
  <2> QED
    BY <2>1 DEF Entry
<1>2. DataOf(es) \in [1..Len(es) -> Messages]
  BY <1>1 DEF DataOf
<1>3. DataOf(es) \in Seq(Messages) /\ Len(DataOf(es)) = Len(es)
  BY <1>1, <1>2, SeqDef
<1> QED
  BY <1>1, <1>3 DEF DataOf

\* The first item is off the wire.
LEMMA TakenOff ==
  ASSUME Typed, Receive
  PROVE  /\ Len(wire) \in Nat \ {0} /\ wire[1] \in Items
         /\ wire' \in Seq(Items) /\ Len(wire') = Len(wire) - 1
         /\ \A i \in 1..Len(wire') : wire'[i] = wire[i + 1]
         /\ wire' = Tail(wire) /\ Head(wire) = wire[1]
<1>1. wire \in Seq(Items) /\ wire # <<>> /\ wire' = Tail(wire)
  BY DEF Typed, Receive
<1>2. /\ Head(wire) \in Items /\ Tail(wire) \in Seq(Items) /\ Len(Tail(wire)) = Len(wire) - 1
      /\ \A i \in 1..Len(Tail(wire)) : Tail(wire)[i] = wire[i + 1]
  BY <1>1, HeadTailProperties
<1>3. Len(wire) \in Nat \ {0} /\ Head(wire) = wire[1]
  BY <1>1
<1> QED
  BY <1>1, <1>2, <1>3

\* The client processes an event.
LEMMA EventReceived ==
  ASSUME Typed, Receive, NEW m \in Messages, wire[1] = Event(m)
  PROVE  /\ received' \in Seq(Messages) /\ Len(received') = Len(received) + 1
         /\ \A i \in 1..Len(received) : received'[i] = received[i]
         /\ received'[Len(received) + 1] = m
         /\ sequence' = sequence + 1
<1>1. received' = received \o <<m>> /\ sequence' = sequence + 1
  <2>1. Head(wire) = Event(m)
    BY TakenOff
  <2>2. Head(wire).type = "event" /\ Head(wire).messages = <<m>>
    BY <2>1 DEF Event
  <2> QED
    BY <2>2 DEF Receive
<1>2. received' = Append(received, m) /\ received \in Seq(Messages)
  BY <1>1 DEF Typed
<1> QED
  BY <1>1, <1>2, AppendProperties

\* The client processes the answer to a relogin: what it has not seen, or nothing.
LEMMA AnswerReceived ==
  ASSUME Typed, Receive, NEW b \in Seq(Entry), wire[1] = Answer(b)
  PROVE  \/ /\ received' = received /\ sequence' = sequence
            /\ \A i \in 1..Len(b) : b[i].seq < sequence
         \/ \E first \in 1..Len(b) :
              /\ b[first].seq >= sequence
              /\ \A i \in 1..Len(b) : i < first => b[i].seq < sequence
              /\ sequence' = b[Len(b)].seq + 1
              /\ received' \in Seq(Messages)
              /\ Len(received') = Len(received) + Len(b) - first + 1
              /\ \A i \in 1..Len(received) : received'[i] = received[i]
              /\ \A i \in first..Len(b) : received'[Len(received) + i - first + 1] = b[i].data
<1>1. /\ received' = received \o DataOf(Unseen(b))
      /\ sequence' = IF Unseen(b) = <<>> THEN sequence ELSE Last(Unseen(b)).seq + 1
  <2>1. Head(wire) = Answer(b)
    BY TakenOff
  <2>2. Head(wire).type # "event" /\ Head(wire).messages = b
    BY <2>1 DEF Answer
  <2> QED
    BY <2>2 DEF Receive
<1>2. /\ received \in Seq(Messages) /\ Len(received) \in Nat /\ Len(b) \in Nat /\ sequence \in Nat
      /\ \A i \in 1..Len(b) : b[i].seq \in Nat
  <2>1. \A i \in 1..Len(b) : b[i] \in Entry
    BY ElementOfSeq
  <2> QED
    BY <2>1 DEF Typed, Entry
<1>3. CASE Unseen(b) = <<>> /\ \A i \in 1..Len(b) : ~(b[i].seq >= sequence)
  <2>1. DataOf(Unseen(b)) = <<>>
    BY <1>3 DEF DataOf
  <2>2. received' = received
    BY <1>1, <1>2, <2>1, ConcatEmptySeq
  <2> QED
    BY <1>1, <1>2, <1>3, <2>2
<1>4. CASE \E first \in 1..Len(b) :
              /\ Unseen(b) = FromOn(b, first) /\ b[first].seq >= sequence
              /\ \A i \in 1..Len(b) : i < first => ~(b[i].seq >= sequence)
  <2>1. PICK first \in 1..Len(b) :
              /\ Unseen(b) = FromOn(b, first) /\ b[first].seq >= sequence
              /\ \A i \in 1..Len(b) : i < first => ~(b[i].seq >= sequence)
    BY <1>4
  <2> DEFINE u == Unseen(b)
             d == DataOf(u)
  <2>2. /\ u \in Seq(Entry) /\ Len(u) = Len(b) - first + 1
        /\ \A i \in 1..Len(u) : u[i] = b[first + i - 1]
    <3> DEFINE f == FromOn(b, first)
    <3>1. /\ f \in Seq(Entry) /\ Len(f) = Len(b) - first + 1
          /\ \A i \in 1..Len(f) : f[i] = b[first + i - 1]
      BY FromOnIs
    <3>2. u = f
      BY <2>1
    <3> HIDE DEF f, u
    <3> QED
      BY <3>1, <3>2
  <2>3. /\ d \in Seq(Messages) /\ Len(d) = Len(u)
        /\ \A i \in 1..Len(u) : d[i] = u[i].data
    BY <2>2, DataOfIs
  <2>4. received' = received \o d /\ sequence' = IF u = <<>> THEN sequence ELSE u[Len(u)].seq + 1
    BY <1>1 DEF Last
  <2> HIDE DEF u, d
  <2>5. /\ received' \in Seq(Messages) /\ Len(received') = Len(received) + Len(d)
        /\ \A i \in 1..(Len(received) + Len(d)) :
             received'[i] = IF i <= Len(received) THEN received[i] ELSE d[i - Len(received)]
    <3>1. received \in Seq(Messages) /\ d \in Seq(Messages)
      BY <1>2, <2>3
    <3>2. /\ received \o d \in Seq(Messages) /\ Len(received \o d) = Len(received) + Len(d)
          /\ \A i \in 1..(Len(received) + Len(d)) :
               (received \o d)[i] = IF i <= Len(received) THEN received[i] ELSE d[i - Len(received)]
      BY <3>1, ConcatProperties
    <3> QED
      BY <2>4, <3>2
  <2>6. sequence' = b[Len(b)].seq + 1
    <3>1. u # <<>> /\ Len(u) \in 1..Len(u) /\ first + Len(u) - 1 = Len(b)
      BY <1>2, <2>2
    <3> QED
      BY <2>2, <2>4, <3>1
  <2>7. \A i \in first..Len(b) : received'[Len(received) + i - first + 1] = b[i].data
    <3> SUFFICES ASSUME NEW i \in first..Len(b)
                 PROVE  received'[Len(received) + i - first + 1] = b[i].data
      OBVIOUS
    <3> DEFINE k == Len(received) + i - first + 1
    <3>1. /\ i - first + 1 \in 1..Len(u) /\ first + (i - first + 1) - 1 = i
          /\ k \in 1..(Len(received) + Len(d)) /\ ~(k <= Len(received))
          /\ k - Len(received) = i - first + 1
      BY <1>2, <2>2, <2>3
    <3>2. received'[k] = d[i - first + 1]
      <4> HIDE DEF k
      <4>1. received'[k] = IF k <= Len(received) THEN received[k] ELSE d[k - Len(received)]
        BY <2>5, <3>1
      <4> QED
        BY <3>1, <4>1
    <3>3. u[i - first + 1] = b[i]
      BY <2>2, <3>1
    <3> QED
      BY <2>3, <3>1, <3>2, <3>3
  <2>8. /\ Len(received') = Len(received) + Len(b) - first + 1
        /\ \A i \in 1..Len(received) : received'[i] = received[i]
    <3>1. Len(d) = Len(b) - first + 1 /\ Len(d) \in Nat
      BY <1>2, <2>2, <2>3
    <3>2. \A i \in 1..Len(received) : i \in 1..(Len(received) + Len(d)) /\ i <= Len(received)
      BY <1>2, <3>1
    <3> QED
      BY <1>2, <2>5, <3>1, <3>2
  <2>9. \A i \in 1..Len(b) : i < first => b[i].seq < sequence
    BY <1>2, <2>1
  <2> QED
    BY <2>1, <2>5, <2>6, <2>7, <2>8, <2>9
<1> QED
  BY <1>3, <1>4, UnseenIs

-----------------------------------------------------------------------------
(* Types, the link and times                                                *)

\* A notification goes through sendMessage.
LEMMA MessageSent ==
  ASSUME Typed, SendMessage
  PROVE  /\ Len(notified) \in Nat /\ Len(notified) < MaxMessages
         /\ notified' \in Seq(0..MaxTime) /\ Len(notified') = Len(notified) + 1
         /\ \A i \in 1..Len(notified) : notified'[i] = notified[i]
         /\ notified'[Len(notified) + 1] = now
         /\ Len(notified) + 1 \in Messages
<1>1. Len(notified) \in Nat /\ Len(notified) < MaxMessages /\ notified' = Append(notified, now)
  BY MessageAssumption DEF Typed, SendMessage
<1>2. notified \in Seq(0..MaxTime) /\ now \in 0..MaxTime
  BY DEF Typed
<1>3. Len(notified) + 1 \in Messages
  BY <1>1, MessageAssumption DEF Messages
<1> QED
  BY <1>1, <1>2, <1>3, AppendProperties

\* It goes out on a link that is up, or joins what is pending.
LEMMA MessagePassedOn ==
  ASSUME Typed, SendMessage, NEW m, m = Len(notified) + 1
  PROVE  /\ IF state = "connected" /\ link = "up"
            THEN /\ wire' \in Seq(Items) /\ Len(wire') = Len(wire) + 1
                 /\ \A i \in 1..Len(wire) : wire'[i] = wire[i]
                 /\ wire'[Len(wire) + 1] = Event(m)
            ELSE wire' = wire
         /\ IF state = "connected"
            THEN pending_messages' = pending_messages
            ELSE /\ pending_messages' \in Seq(Messages)
                 /\ Len(pending_messages') = Len(pending_messages) + 1
                 /\ \A i \in 1..Len(pending_messages) : pending_messages'[i] = pending_messages[i]
                 /\ pending_messages'[Len(pending_messages) + 1] = m
<1>1. m \in Messages /\ Event(m) \in Items
  BY MessageSent, ItemsAre
<1>2. wire \in Seq(Items) /\ pending_messages \in Seq(Messages)
  BY DEF Typed
<1>3. /\ wire' = IF state = "connected" /\ link = "up" THEN Append(wire, Event(m)) ELSE wire
      /\ pending_messages' = IF state = "connected" THEN pending_messages
                                                    ELSE Append(pending_messages, m)
  BY DEF SendMessage
<1>4. /\ Append(wire, Event(m)) \in Seq(Items) /\ Len(Append(wire, Event(m))) = Len(wire) + 1
      /\ \A i \in 1..Len(wire) : Append(wire, Event(m))[i] = wire[i]
      /\ Append(wire, Event(m))[Len(wire) + 1] = Event(m)
  BY <1>1, <1>2, AppendProperties
<1>5. /\ Append(pending_messages, m) \in Seq(Messages)
      /\ Len(Append(pending_messages, m)) = Len(pending_messages) + 1
      /\ \A i \in 1..Len(pending_messages) : Append(pending_messages, m)[i] = pending_messages[i]
      /\ Append(pending_messages, m)[Len(pending_messages) + 1] = m
  BY <1>1, <1>2, AppendProperties
<1> QED
  BY <1>3, <1>4, <1>5

LEMMA InitTyped == Init => Typed
BY MessageAssumption DEF Init, Typed

LEMMA TypedStep == Typed /\ [Next]_vars => Typed'
<1> SUFFICES ASSUME Typed, [Next]_vars PROVE Typed'
  OBVIOUS
<1>1. ASSUME SendMessage PROVE Typed'
  <2>1. message_buffer' \in Seq(Entry)
    BY <1>1, BufferSent, MessageSent DEF SendMessage
  <2>2. notified' \in Seq(0..MaxTime) /\ Len(notified') <= MaxMessages
    BY <1>1, MessageSent, MessageAssumption
  <2>3. wire' \in Seq(Items) /\ pending_messages' \in Seq(Messages)
    BY <1>1, MessagePassedOn DEF Typed
  <2>4. message_seq' \in Nat
    BY <1>1 DEF Typed, SendMessage
  <2> QED
    BY <1>1, <2>1, <2>2, <2>3, <2>4 DEF Typed, SendMessage, clientVars
<1>2. ASSUME Relogin PROVE Typed'
  <2>1. message_buffer' \in Seq(Entry)
    BY <1>2, BufferHandedOver DEF Relogin
  <2>2. wire' \in Seq(Items)
    BY <1>2, WireReplaced DEF Relogin
  <2>3. message_seq' \in Nat
    <3>1. Drained \in Seq(Messages)
      BY DEF Drained, Typed
    <3> QED
      BY <1>2, <3>1 DEF Relogin, MessageSeq, Typed
  <2>4. pending_messages' \in Seq(Messages)
    BY <1>2 DEF Relogin, PendingAfterRelogin, Typed
  <2> QED
    BY <1>2, <2>1, <2>2, <2>3, <2>4 DEF Typed, Relogin, clientVars
<1>3. ASSUME Receive PROVE Typed'
  <2>1. wire' \in Seq(Items) /\ wire[1] \in Items
    BY <1>3, TakenOff
  <2>2. CASE wire[1].type = "event"
    <3>1. PICK m \in Messages : wire[1] = Event(m)
      BY <2>1, <2>2, ItemsAre
    <3>2. received' \in Seq(Messages) /\ sequence' = sequence + 1
      BY <1>3, <3>1, EventReceived
    <3> QED
      BY <1>3, <2>1, <3>2 DEF Typed, Receive, serverVars
  <2>3. CASE wire[1].type # "event"
    <3>1. PICK b \in Seq(Entry) : wire[1] = Answer(b)
      BY <2>1, <2>3, ItemsAre
    <3>2. \A i \in 1..Len(b) : b[i].seq \in Nat
      <4>1. \A i \in 1..Len(b) : b[i] \in Entry
        BY ElementOfSeq
      <4> QED
        BY <4>1 DEF Entry
    <3>3. received' \in Seq(Messages) /\ sequence' \in Nat
      <4>1. CASE received' = received /\ sequence' = sequence
        BY <4>1 DEF Typed
      <4>2. CASE received' \in Seq(Messages) /\ sequence' = b[Len(b)].seq + 1 /\ Len(b) \in 1..Len(b)
        BY <3>2, <4>2
      <4>3. \A first \in 1..Len(b) : Len(b) \in 1..Len(b)
        OBVIOUS
      <4> QED
        BY <1>3, <3>1, <4>1, <4>2, <4>3, AnswerReceived
    <3> QED
      BY <1>3, <2>1, <3>3 DEF Typed, Receive, serverVars
  <2> QED
    BY <2>2, <2>3
<1>4. ASSUME Disconnect \/ TimerFires PROVE Typed'
  BY <1>4 DEF Typed, Disconnect, TimerFires, clientVars
<1>5. ASSUME Break PROVE Typed'
  BY <1>5, MessageAssumption DEF Typed, Break, clientVars, serverVars
<1>6. ASSUME Tick PROVE Typed'
  BY <1>6, MessageAssumption DEF Typed, Tick, clientVars, serverVars
<1>7. ASSUME UNCHANGED vars PROVE Typed'
  BY <1>7 DEF Typed, vars, clientVars, serverVars
<1> QED
  BY <1>1, <1>2, <1>3, <1>4, <1>5, <1>6, <1>7 DEF Next

LEMMA LinkStep == Typed /\ LinkAgrees /\ [Next]_vars => LinkAgrees'
<1> SUFFICES ASSUME Typed, LinkAgrees, [Next]_vars PROVE LinkAgrees'
  OBVIOUS
<1>1. ASSUME Receive PROVE LinkAgrees'
  BY <1>1 DEF LinkAgrees, Receive, serverVars
<1>2. ASSUME SendMessage PROVE LinkAgrees'
  BY <1>2 DEF LinkAgrees, SendMessage
<1>3. ASSUME Disconnect \/ Relogin \/ TimerFires PROVE LinkAgrees'
  BY <1>3 DEF LinkAgrees, Disconnect, Relogin, TimerFires
<1>4. ASSUME Break \/ Tick \/ UNCHANGED vars PROVE LinkAgrees'
  BY <1>4 DEF LinkAgrees, Break, Tick, vars, serverVars
<1> QED
  BY <1>1, <1>2, <1>3, <1>4 DEF Next

LEMMA EntryIs ==
  ASSUME Typed
  PROVE  /\ Len(message_buffer) \in Nat
         /\ \A i \in 1..Len(message_buffer) :
              /\ message_buffer[i] \in Entry
              /\ message_buffer[i].data \in Messages /\ message_buffer[i].seq \in Nat
              /\ message_buffer[i].time \in (0..MaxTime) \cup {NoTime}
<1>1. message_buffer \in Seq(Entry)
  BY DEF Typed
<1>2. Len(message_buffer) \in Nat /\ \A i \in 1..Len(message_buffer) : message_buffer[i] \in Entry
  BY <1>1, LenProperties, ElementOfSeq
<1> QED
  BY <1>2 DEF Entry

\* Whatever becomes of an entry in a relogin, its notification stays the same.
LEMMA DataHandedOver ==
  ASSUME Typed, Relogin
  PROVE  /\ Len(message_buffer') = Len(message_buffer) + Len(Drained) /\ Len(Drained) \in Nat
         /\ \A i \in 1..Len(message_buffer) :
              /\ message_buffer'[i].data = message_buffer[i].data
              /\ message_buffer'[i].seq = message_buffer[i].seq
              /\ message_buffer'[i].time = NoTime
         /\ \A i \in 1..Len(message_buffer') : i > Len(message_buffer) =>
              /\ i - Len(message_buffer) \in 1..Len(Drained)
              /\ message_buffer'[i].data = Drained[i - Len(message_buffer)]
              /\ message_buffer'[i].time = now
<1>1. /\ Drained \in Seq(Messages)
      /\ Len(message_buffer') = Len(message_buffer) + Len(Drained)
      /\ \A i \in 1..Len(message_buffer') :
           message_buffer'[i] = IF i <= Len(message_buffer)
                                THEN [message_buffer[i] EXCEPT !.time = NoTime]
                                ELSE [data |-> Drained[i - Len(message_buffer)],
                                      seq |-> message_seq + (i - Len(message_buffer)), time |-> now]
  BY BufferHandedOver DEF Relogin
<1>2. Len(Drained) \in Nat /\ Len(message_buffer) \in Nat
  BY <1>1, EntryIs
<1>3. \A i \in 1..Len(message_buffer) :
              /\ message_buffer'[i].data = message_buffer[i].data
              /\ message_buffer'[i].seq = message_buffer[i].seq
              /\ message_buffer'[i].time = NoTime
  <2> SUFFICES ASSUME NEW i \in 1..Len(message_buffer)
               PROVE  /\ message_buffer'[i].data = message_buffer[i].data
                      /\ message_buffer'[i].seq = message_buffer[i].seq
                      /\ message_buffer'[i].time = NoTime
    OBVIOUS
  <2>1. message_buffer'[i] = [message_buffer[i] EXCEPT !.time = NoTime] /\ message_buffer[i] \in Entry
    BY <1>1, <1>2, EntryIs
  <2> QED
    BY <2>1 DEF Entry
<1>4. \A i \in 1..Len(message_buffer') : i > Len(message_buffer) =>
              /\ i - Len(message_buffer) \in 1..Len(Drained)
              /\ message_buffer'[i].data = Drained[i - Len(message_buffer)]
              /\ message_buffer'[i].time = now
  BY <1>1, <1>2
<1> QED
  BY <1>1, <1>2, <1>3, <1>4

\* What drainPendingMessages sends has been notified.
LEMMA DrainedIs ==
  ASSUME Typed, Pending
  PROVE  /\ Drained \in Seq(Messages) /\ Len(Drained) \in Nat
         /\ protocol_version = "1.2" => Drained = <<>>
         /\ protocol_version = "1.1" => Drained = pending_messages
         /\ \A i \in 1..Len(Drained) : Drained[i] \in 1..Len(notified)
<1>1. /\ Drained \in Seq(Messages) /\ Len(Drained) \in Nat
      /\ protocol_version = "1.2" => Drained = <<>>
      /\ protocol_version = "1.1" => Drained = pending_messages
      /\ protocol_version \in {"1.1", "1.2"}
  BY DEF Drained, Typed
<1>2. \A i \in 1..Len(Drained) : Drained[i] \in Nat \ {0} /\ Drained[i] <= Len(notified)
  <2>1. \A i \in 1..Len(Drained) : Drained[i] \in Messages
    BY <1>1
  <2>2. protocol_version = "1.1" =>
          \A i \in 1..Len(pending_messages) : pending_messages[i] <= Len(notified)
    BY DEF Pending
  <2> QED
    BY <1>1, <2>1, <2>2 DEF Messages
<1> QED
  BY <1>1, <1>2 DEF Typed

LEMMA NotifiedIs ==
  ASSUME Typed
  PROVE  /\ Len(notified) \in Nat /\ now \in Nat
         /\ \A m \in 1..Len(notified) : notified[m] \in Nat
<1>1. notified \in Seq(0..MaxTime) /\ now \in 0..MaxTime /\ MaxTime \in Nat
  BY MessageAssumption DEF Typed
<1>2. \A m \in 1..Len(notified) : notified[m] \in 0..MaxTime
  BY <1>1, ElementOfSeq
<1> QED
  BY <1>1, <1>2

LEMMA TimesStep == Typed /\ TimesAgree /\ Pending /\ [Next]_vars => TimesAgree'
<1> SUFFICES ASSUME Typed, TimesAgree, Pending, [Next]_vars PROVE TimesAgree'
  OBVIOUS
<1>1. ASSUME SendMessage PROVE TimesAgree'
  <2>1. /\ Len(notified) \in Nat /\ Len(notified') = Len(notified) + 1
        /\ \A i \in 1..Len(notified) : notified'[i] = notified[i]
        /\ notified'[Len(notified) + 1] = now /\ now' = now /\ now \in Nat
    BY <1>1, MessageSent, NotifiedIs DEF SendMessage
  <2>2. \A m \in 1..Len(notified') : notified'[m] <= now'
    BY <2>1 DEF TimesAgree
  <2>3. PICK first \in 1..Len(message_buffer) + 1 :
             \A i \in 1..Len(message_buffer') :
                message_buffer'[i] = IF first + i - 1 <= Len(message_buffer)
                                     THEN message_buffer[first + i - 1] ELSE Sent
    BY <1>1, BufferSent, MessageSent DEF SendMessage
  <2>4. ASSUME NEW i \in 1..Len(message_buffer')
        PROVE  /\ message_buffer'[i].data <= Len(notified')
               /\ message_buffer'[i].time # NoTime =>
                    /\ message_buffer'[i].time <= now'
                    /\ notified'[message_buffer'[i].data] <= message_buffer'[i].time
    <3>1. CASE message_buffer'[i] = Sent
      BY <2>1, <3>1 DEF Sent
    <3>2. CASE first + i - 1 <= Len(message_buffer)
      <4>1. /\ first + i - 1 \in 1..Len(message_buffer)
            /\ message_buffer'[i] = message_buffer[first + i - 1]
        BY <2>3, <3>2, EntryIs
      <4>2. PICK k \in 1..Len(message_buffer) : message_buffer'[i] = message_buffer[k]
        BY <4>1
      <4>3. message_buffer[k].data \in 1..Len(notified)
        BY <2>1, EntryIs DEF TimesAgree, Messages
      <4> QED
        BY <2>1, <4>2, <4>3 DEF TimesAgree
    <3> QED
      BY <2>3, <3>1, <3>2
  <2> QED
    BY <2>2, <2>4 DEF TimesAgree
<1>2. ASSUME Relogin PROVE TimesAgree'
  <2>1. notified' = notified /\ now' = now
    BY <1>2 DEF Relogin
  <2>2. ASSUME NEW i \in 1..Len(message_buffer')
        PROVE  /\ message_buffer'[i].data <= Len(notified)
               /\ message_buffer'[i].time # NoTime =>
                    /\ message_buffer'[i].time <= now
                    /\ notified[message_buffer'[i].data] <= message_buffer'[i].time
    <3>1. CASE i <= Len(message_buffer)
      BY <1>2, <3>1, DataHandedOver, EntryIs DEF TimesAgree
    <3>2. CASE i > Len(message_buffer)
      <4>1. /\ message_buffer'[i].data \in 1..Len(notified) /\ message_buffer'[i].time = now
        BY <1>2, <3>2, DataHandedOver, DrainedIs
      <4> QED
        BY <4>1, NotifiedIs DEF TimesAgree
    <3> QED
      BY <3>1, <3>2, EntryIs, <1>2, DataHandedOver
  <2> QED
    BY <2>1, <2>2 DEF TimesAgree
<1>3. ASSUME Tick PROVE TimesAgree'
  <2>1. now' = now + 1 /\ notified' = notified /\ message_buffer' = message_buffer
    BY <1>3 DEF Tick, serverVars
  <2>2. \A i \in 1..Len(message_buffer) : message_buffer[i].time # NoTime => message_buffer[i].time \in Nat
    BY EntryIs, MessageAssumption
  <2> QED
    BY <2>1, <2>2, NotifiedIs DEF TimesAgree
<1>4. ASSUME UNCHANGED <<now, notified, message_buffer>> PROVE TimesAgree'
  BY <1>4 DEF TimesAgree
<1> QED
  BY <1>1, <1>2, <1>3, <1>4 DEF Next, Receive, Break, Disconnect, TimerFires, vars, serverVars

LEMMA KeptStep == Typed /\ TimesAgree /\ Kept /\ [Next]_vars => Kept'
<1> SUFFICES ASSUME Typed, TimesAgree, Kept, [Next]_vars PROVE Kept'
  OBVIOUS
<1>1. ASSUME SendMessage PROVE Kept'
  <2> DEFINE n == Len(notified)
  <2>1. /\ n \in Nat /\ Len(notified') = n + 1 /\ now \in Nat
        /\ \A i \in 1..n : notified'[i] = notified[i] /\ notified[i] \in Nat /\ notified[i] <= now
        /\ notified'[n + 1] = now
    BY <1>1, MessageSent, NotifiedIs DEF TimesAgree
  <2>2. PICK first \in 1..Len(message_buffer) + 1 :
             /\ Len(message_buffer') = Len(message_buffer) + 2 - first
             /\ \A i \in 1..Len(message_buffer') :
                  message_buffer'[i] = IF first + i - 1 <= Len(message_buffer)
                                       THEN message_buffer[first + i - 1] ELSE Sent
             /\ \A i \in 1..Len(message_buffer) : i < first => Expired(message_buffer[i])
    BY <1>1, BufferSent, MessageSent DEF SendMessage
  <2>3. ASSUME NEW m \in 1..Len(notified')
        PROVE  \/ \E i \in 1..Len(message_buffer') : message_buffer'[i].data = m
               \/ notified'[Len(notified')] - notified'[m] > messageKeepTime
    <3>1. CASE m = n + 1
      <4>1. Len(message_buffer') \in 1..Len(message_buffer')
            /\ message_buffer'[Len(message_buffer')] = Sent
        BY <2>2, EntryIs
      <4> QED
        BY <3>1, <4>1 DEF Sent
    <3>2. CASE m \in 1..n /\ notified[n] - notified[m] > messageKeepTime
      BY <2>1, <3>2, MessageAssumption
    <3>3. CASE m \in 1..n /\ \E i \in 1..Len(message_buffer) : message_buffer[i].data = m
      <4>1. PICK i \in 1..Len(message_buffer) : message_buffer[i].data = m
        BY <3>3
      <4>2. CASE i < first
        <5>1. message_buffer[i].time # NoTime /\ now - message_buffer[i].time > messageKeepTime
          BY <2>2, <4>2 DEF Expired
        <5>2. notified[m] <= message_buffer[i].time /\ message_buffer[i].time \in Nat
          BY <4>1, <5>1, EntryIs, MessageAssumption DEF TimesAgree
        <5> QED
          BY <2>1, <3>3, <5>1, <5>2, MessageAssumption
      <4>3. CASE ~(i < first)
        <5>1. i - first + 1 \in 1..Len(message_buffer') /\ first + (i - first + 1) - 1 = i
          BY <2>2, <4>3, EntryIs
        <5>2. message_buffer'[i - first + 1] = message_buffer[i]
          BY <2>2, <5>1
        <5> QED
          BY <4>1, <5>1, <5>2
      <4> QED
        BY <4>2, <4>3
    <3> QED
      BY <2>1, <3>1, <3>2, <3>3 DEF Kept
  <2> QED
    BY <2>3 DEF Kept
<1>2. ASSUME Relogin PROVE Kept'
  <2>1. notified' = notified
    BY <1>2 DEF Relogin
  <2>2. \A i \in 1..Len(message_buffer) :
          i \in 1..Len(message_buffer') /\ message_buffer'[i].data = message_buffer[i].data
    BY <1>2, DataHandedOver, EntryIs
  <2> QED
    BY <2>1, <2>2 DEF Kept
<1>3. ASSUME UNCHANGED <<notified, message_buffer>> PROVE Kept'
  BY <1>3 DEF Kept
<1> QED
  BY <1>1, <1>2, <1>3 DEF Next, Receive, Break, Disconnect, TimerFires, Tick, vars, serverVars

-----------------------------------------------------------------------------
(* What the client has                                                      *)

LEMMA GotIs ==
  ASSUME Typed, Ascending(received)
  PROVE  /\ Len(received) \in Nat /\ LastGot \in Nat
         /\ \A i \in 1..Len(received) : received[i] \in Nat \ {0} /\ received[i] <= LastGot
         /\ received # <<>> => Len(received) \in 1..Len(received) /\ received[Len(received)] = LastGot
         /\ received = <<>> => LastGot = 0
<1>1. Len(received) \in Nat /\ \A i \in 1..Len(received) : received[i] \in Nat \ {0}
  <2>1. received \in Seq(Messages)
    BY DEF Typed
  <2>2. Len(received) \in Nat /\ \A i \in 1..Len(received) : received[i] \in Messages
    BY <2>1, LenProperties, ElementOfSeq
  <2> QED
    BY <2>2 DEF Messages
<1>2. CASE received = <<>>
  BY <1>1, <1>2 DEF LastGot
<1>3. CASE received # <<>>
  <2>1. Len(received) \in 1..Len(received)
    BY <1>1, <1>3 DEF Typed
  <2>2. LastGot = received[Len(received)]
    BY <1>3 DEF LastGot
  <2>3. \A i \in 1..Len(received) : received[i] <= LastGot
    BY <1>1, <2>1, <2>2 DEF Ascending
  <2> QED
    BY <1>1, <1>3, <2>1, <2>2, <2>3
<1> QED
  BY <1>2, <1>3

LEMMA StrictlyIsAscending ==
  ASSUME Typed, StrictlyAscending(received)
  PROVE  Ascending(received)
<1>1. \A i \in 1..Len(received) : received[i] \in Nat
  <2>1. received \in Seq(Messages)
    BY DEF Typed
  <2>2. \A i \in 1..Len(received) : received[i] \in Messages
    BY <2>1, ElementOfSeq
  <2> QED
    BY <2>2 DEF Messages
<1> QED
  BY <1>1 DEF StrictlyAscending, Ascending

\* The client has processed an event.
LEMMA EventGot ==
  ASSUME Typed, Receive, NEW m \in Messages, wire[1] = Event(m)
  PROVE  LastGot' = m
<1>1. /\ received' \in Seq(Messages) /\ Len(received') = Len(received) + 1
      /\ received'[Len(received) + 1] = m /\ Len(received) \in Nat
  BY EventReceived DEF Typed
<1>2. received' # <<>>
  BY <1>1
<1> QED
  BY <1>1, <1>2 DEF LastGot

-----------------------------------------------------------------------------
(* Protocol 1.1                                                             *)

LEMMA PendingStep == Typed /\ LinkAgrees /\ Pending /\ [Next]_vars => Pending'
<1> SUFFICES ASSUME Typed, LinkAgrees, Pending, [Next]_vars, protocol_version' = "1.1"
             PROVE  Pending'
  BY DEF Pending
<1>0. protocol_version = "1.1"
  BY DEF Next, vars, serverVars, SendMessage, Disconnect, Relogin, TimerFires, Break, Receive, Tick
<1>a. /\ state = "connected" => pending_messages = <<>>
      /\ StrictlyAscending(received) /\ LastGot <= Len(notified)
      /\ StrictlyAscending(pending_messages)
      /\ \A i \in 1..Len(pending_messages) :
           LastGot < pending_messages[i] /\ pending_messages[i] <= Len(notified)
      /\ \A i \in 1..Len(wire) :
           \/ wire[i].type = "relogin" /\ wire[i] = Answer(<<>>)
           \/ wire[i].type = "event" /\ \E m \in Messages : wire[i] = Event(m) /\ LastGot < m /\ m <= Len(notified)
      /\ \A i, j \in 1..Len(wire) : i < j /\ wire[i].type = "event" /\ wire[j].type = "event"
           => wire[i].messages[1] < wire[j].messages[1]
  <2>1. Answer(<<>>).type = "relogin" /\ \A m \in Messages : Event(m).type = "event"
    BY DEF Answer, Event
  <2> QED
    BY <1>0, <2>1 DEF Pending
<1>b. /\ LastGot \in Nat /\ Len(notified) \in Nat /\ Len(wire) \in Nat /\ Len(pending_messages) \in Nat
      /\ Ascending(received)
  BY <1>a, StrictlyIsAscending, GotIs, NotifiedIs DEF Typed
<1>c. \A m : Event(m).type = "event" /\ Event(m).messages[1] = m
  BY DEF Event
<1>1. ASSUME SendMessage PROVE Pending'
  <2> DEFINE n == Len(notified) + 1
  <2>1. n \in Messages /\ Len(notified') = n /\ UNCHANGED <<received, state>> /\ LastGot' = LastGot
    BY <1>1, MessageSent DEF SendMessage, clientVars, LastGot
  <2> HIDE DEF n
  <2>2. n = Len(notified) + 1
    BY DEF n
  <2>3. IF state = "connected" /\ link = "up"
        THEN /\ wire' \in Seq(Items) /\ Len(wire') = Len(wire) + 1
             /\ \A i \in 1..Len(wire) : wire'[i] = wire[i]
             /\ wire'[Len(wire) + 1] = Event(n)
        ELSE wire' = wire
    BY <1>1, <2>2, MessagePassedOn
  <2>4. IF state = "connected"
        THEN pending_messages' = pending_messages
        ELSE /\ pending_messages' \in Seq(Messages)
             /\ Len(pending_messages') = Len(pending_messages) + 1
             /\ \A i \in 1..Len(pending_messages) : pending_messages'[i] = pending_messages[i]
             /\ pending_messages'[Len(pending_messages) + 1] = n
    BY <1>1, <2>2, MessagePassedOn
  <2>5. /\ state' = "connected" => pending_messages' = <<>>
        /\ StrictlyAscending(received') /\ LastGot' <= Len(notified')
    BY <1>a, <1>b, <2>1, <2>2, <2>4 DEF StrictlyAscending
  <2>6. /\ StrictlyAscending(pending_messages')
        /\ \A i \in 1..Len(pending_messages') :
             LastGot' < pending_messages'[i] /\ pending_messages'[i] <= Len(notified')
    <3>1. \A i \in 1..Len(pending_messages) : pending_messages[i] \in Nat
      <4>1. \A i \in 1..Len(pending_messages) : pending_messages[i] \in Messages
        BY ElementOfSeq DEF Typed
      <4> QED
        BY <4>1 DEF Messages
    <3>2. CASE state = "connected"
      BY <1>a, <1>b, <2>1, <2>2, <2>4, <3>1, <3>2 DEF StrictlyAscending
    <3>3. CASE state # "connected"
      <4>1. \A i \in 1..Len(pending_messages') : \/ i \in 1..Len(pending_messages)
                                                  \/ i = Len(pending_messages) + 1
        BY <1>b, <2>4, <3>3
      <4>2. \A i \in 1..Len(pending_messages) :
              pending_messages'[i] = pending_messages[i] /\ pending_messages[i] < n
        BY <1>a, <1>b, <2>2, <2>4, <3>1, <3>3
      <4>3. \A i \in 1..Len(pending_messages') :
              LastGot' < pending_messages'[i] /\ pending_messages'[i] <= Len(notified')
        BY <1>a, <1>b, <2>1, <2>2, <2>4, <3>1, <3>3, <4>1, <4>2
      <4>4. ASSUME NEW i \in 1..Len(pending_messages'), NEW j \in 1..Len(pending_messages'), i < j
            PROVE  pending_messages'[i] < pending_messages'[j]
        <5>1. i \in 1..Len(pending_messages)
          BY <1>b, <4>1, <4>4
        <5>2. CASE j \in 1..Len(pending_messages)
          BY <1>a, <4>2, <4>4, <5>1, <5>2 DEF StrictlyAscending
        <5>3. CASE j = Len(pending_messages) + 1
          BY <2>4, <3>3, <4>2, <5>1, <5>3
        <5> QED
          BY <4>1, <5>2, <5>3
      <4> QED
        BY <4>3, <4>4 DEF StrictlyAscending
    <3> QED
      BY <3>2, <3>3
  <2>7. \A i \in 1..Len(wire') : \/ i \in 1..Len(wire) /\ wire'[i] = wire[i]
                                 \/ /\ i = Len(wire) + 1 /\ wire'[i] = Event(n)
                                    /\ \A j \in 1..Len(wire') : j < i => j \in 1..Len(wire)
    BY <1>b, <2>3
  <2>8. \A i \in 1..Len(wire') :
           \/ wire'[i].type = "relogin" /\ wire'[i] = Answer(<<>>)
           \/ wire'[i].type = "event" /\ \E m \in Messages : wire'[i] = Event(m) /\ LastGot' < m /\ m <= Len(notified')
    <3> SUFFICES ASSUME NEW i \in 1..Len(wire')
                 PROVE  \/ wire'[i].type = "relogin" /\ wire'[i] = Answer(<<>>)
                        \/ /\ wire'[i].type = "event"
                           /\ \E m \in Messages : wire'[i] = Event(m) /\ LastGot' < m /\ m <= Len(notified')
      OBVIOUS
    <3>1. CASE i \in 1..Len(wire) /\ wire'[i] = wire[i]
      <4>1. \A m \in Messages : m <= Len(notified) => m <= Len(notified')
        BY <1>b, <2>1, <2>2 DEF Messages
      <4> QED
        BY <1>a, <2>1, <3>1, <4>1
    <3>2. CASE wire'[i] = Event(n)
      BY <1>a, <1>b, <1>c, <2>1, <2>2, <3>2
    <3> QED
      BY <2>7, <3>1, <3>2
  <2>9. ASSUME NEW i \in 1..Len(wire'), NEW j \in 1..Len(wire'), i < j, wire'[i].type = "event",
               wire'[j].type = "event"
        PROVE  wire'[i].messages[1] < wire'[j].messages[1]
    <3>1. i \in 1..Len(wire) /\ wire'[i] = wire[i]
      BY <1>b, <2>7, <2>9
    <3>2. CASE j \in 1..Len(wire) /\ wire'[j] = wire[j]
      BY <1>a, <2>9, <3>1, <3>2
    <3>3. CASE wire'[j] = Event(n)
      <4>1. PICK m \in Messages : wire[i] = Event(m) /\ m <= Len(notified)
        BY <1>a, <2>9, <3>1, Zenon DEF Answer
      <4> QED
        BY <1>b, <1>c, <2>2, <3>1, <3>3, <4>1 DEF Messages
    <3> QED
      BY <2>7, <3>2, <3>3
  <2> QED
    BY <2>5, <2>6, <2>8, <2>9 DEF Pending
<1>2. ASSUME Relogin PROVE Pending'
  <2>1. /\ link # "up" /\ pending_messages' = <<>>
        /\ UNCHANGED <<received, notified>> /\ LastGot' = LastGot
    BY <1>0, <1>2 DEF Relogin, PendingAfterRelogin, clientVars, LastGot
  <2>2. /\ Drained = pending_messages /\ Replayed = <<>>
        /\ \A i \in 1..Len(Drained) : Drained[i] \in Messages
    <3>1. Drained = pending_messages /\ Replayed = <<>>
      BY <1>0 DEF Drained, Replayed
    <3> QED
      BY <3>1, ElementOfSeq DEF Typed
  <2>3. /\ Len(wire') = 1 + Len(Drained) /\ wire'[1] = Answer(<<>>)
        /\ \A i \in 2..Len(wire') : wire'[i] = Event(Drained[i - 1])
    BY <1>2, <2>2, WireReplaced DEF Relogin
  <2>4. \A i \in 1..Len(wire') : i # 1 =>
           i \in 2..Len(wire') /\ i - 1 \in 1..Len(pending_messages) /\ wire'[i] = Event(pending_messages[i - 1])
    BY <1>b, <2>2, <2>3
  <2>5. Answer(<<>>).type = "relogin"
    BY DEF Answer
  <2>6. \A i \in 1..Len(wire') :
           \/ wire'[i].type = "relogin" /\ wire'[i] = Answer(<<>>)
           \/ wire'[i].type = "event" /\ \E m \in Messages : wire'[i] = Event(m) /\ LastGot' < m /\ m <= Len(notified')
    BY <1>a, <1>c, <2>1, <2>2, <2>3, <2>4, <2>5
  <2>7. ASSUME NEW i \in 1..Len(wire'), NEW j \in 1..Len(wire'), i < j, wire'[i].type = "event",
               wire'[j].type = "event"
        PROVE  wire'[i].messages[1] < wire'[j].messages[1]
    <3>1. i # 1 /\ j # 1
      BY <2>3, <2>5, <2>7
    <3>2. i - 1 \in 1..Len(pending_messages) /\ j - 1 \in 1..Len(pending_messages) /\ i - 1 < j - 1
      BY <2>4, <2>7, <3>1
    <3>3. pending_messages[i - 1] < pending_messages[j - 1]
      BY <1>a, <3>2 DEF StrictlyAscending
    <3> QED
      BY <1>c, <2>4, <3>1, <3>3
  <2> QED
    BY <1>a, <2>1, <2>6, <2>7 DEF Pending, StrictlyAscending
<1>3. ASSUME Receive PROVE Pending'
  <2>1. /\ Len(wire) \in Nat \ {0} /\ wire[1] \in Items
        /\ wire' \in Seq(Items) /\ Len(wire') = Len(wire) - 1
        /\ \A i \in 1..Len(wire') : i + 1 \in 1..Len(wire) /\ wire'[i] = wire[i + 1]
    <3>1. /\ Len(wire) \in Nat \ {0} /\ wire[1] \in Items
          /\ wire' \in Seq(Items) /\ Len(wire') = Len(wire) - 1
          /\ \A i \in 1..Len(wire') : wire'[i] = wire[i + 1]
      BY <1>3, TakenOff
    <3> QED
      BY <3>1
  <2>2. /\ pending_messages' = <<>> /\ UNCHANGED <<state, notified>>
    <3>1. link = "up" /\ wire # <<>>
      BY <1>3 DEF LinkAgrees, Receive
    <3> QED
      BY <1>3, <1>a, <3>1 DEF LinkAgrees, Receive, serverVars
  <2>5. ASSUME NEW i \in 1..Len(wire'), NEW j \in 1..Len(wire'), i < j, wire'[i].type = "event",
               wire'[j].type = "event"
        PROVE  wire'[i].messages[1] < wire'[j].messages[1]
    <3>1. i + 1 \in 1..Len(wire) /\ j + 1 \in 1..Len(wire) /\ i + 1 < j + 1
      BY <2>1, <2>5
    <3>2. wire'[i] = wire[i + 1] /\ wire'[j] = wire[j + 1]
      BY <2>1
    <3> QED
      BY <1>a, <2>5, <3>1, <3>2
  <2>3. CASE wire[1].type = "event"
    <3>1. PICK m \in Messages : wire[1] = Event(m) /\ LastGot < m /\ m <= Len(notified)
      BY <1>a, <2>1, <2>3 DEF Answer
    <3>2. /\ Len(received') = Len(received) + 1 /\ Len(received) \in Nat
          /\ \A i \in 1..Len(received) : received'[i] = received[i] /\ received[i] \in Nat /\ received[i] <= LastGot
          /\ received'[Len(received) + 1] = m /\ LastGot' = m
      BY <1>3, <1>b, <3>1, EventReceived, EventGot, GotIs
    <3>3. StrictlyAscending(received')
      <4>1. m \in Nat
        BY DEF Messages
      <4>2. \A i \in 1..Len(received') : i \in 1..Len(received) \/ i = Len(received) + 1
        BY <3>2
      <4> SUFFICES ASSUME NEW i \in 1..Len(received'), NEW j \in 1..Len(received'), i < j
                   PROVE  received'[i] < received'[j]
        BY DEF StrictlyAscending
      <4>3. i \in 1..Len(received)
        BY <3>2, <4>2
      <4>4. CASE j \in 1..Len(received)
        BY <1>a, <3>2, <4>3, <4>4 DEF StrictlyAscending
      <4>5. CASE j = Len(received) + 1
        BY <1>b, <3>1, <3>2, <4>1, <4>3, <4>5
      <4> QED
        BY <4>2, <4>4, <4>5
    <3>4. \A i \in 1..Len(wire') :
           \/ wire'[i].type = "relogin" /\ wire'[i] = Answer(<<>>)
           \/ wire'[i].type = "event" /\ \E k \in Messages : wire'[i] = Event(k) /\ LastGot' < k /\ k <= Len(notified')
      <4> SUFFICES ASSUME NEW i \in 1..Len(wire'), ~(wire'[i].type = "relogin" /\ wire'[i] = Answer(<<>>))
                   PROVE  /\ wire'[i].type = "event"
                          /\ \E k \in Messages : wire'[i] = Event(k) /\ LastGot' < k /\ k <= Len(notified')
        OBVIOUS
      <4>1. i + 1 \in 1..Len(wire) /\ 1 \in 1..Len(wire) /\ 1 < i + 1 /\ wire'[i] = wire[i + 1]
        BY <2>1
      <4>2. PICK k \in Messages : wire[i + 1] = Event(k) /\ k <= Len(notified)
        BY <1>a, <4>1
      <4>3. wire[1].messages[1] < wire[i + 1].messages[1]
        BY <1>a, <1>c, <2>3, <4>1, <4>2
      <4>4. m < k
        BY <1>c, <3>1, <4>2, <4>3
      <4> QED
        BY <1>c, <2>2, <3>2, <4>1, <4>2, <4>4
    <3> QED
      BY <2>2, <3>1, <3>2, <3>3, <3>4, <2>5 DEF Pending, StrictlyAscending
  <2>4. CASE wire[1].type # "event"
    <3>1. wire[1] = Answer(<<>>)
      BY <1>a, <2>1, <2>4
    <3>2. received' = received /\ LastGot' = LastGot
      <4>1. <<>> \in Seq(Entry) /\ Len(<<>>) = 0
        OBVIOUS
      <4>2. received' = received
        <5>1. \A first : ~(first \in 1..Len(<<>>))
          BY <4>1
        <5> QED
          BY <1>3, <3>1, <4>1, <5>1, AnswerReceived, Zenon
      <4> QED
        BY <4>2 DEF LastGot
    <3>3. \A i \in 1..Len(wire') :
           \/ wire'[i].type = "relogin" /\ wire'[i] = Answer(<<>>)
           \/ wire'[i].type = "event" /\ \E m \in Messages : wire'[i] = Event(m) /\ LastGot' < m /\ m <= Len(notified')
      BY <1>a, <2>1, <2>2, <3>2
    <3> QED
      BY <1>a, <2>2, <2>5, <3>2, <3>3 DEF Pending, StrictlyAscending
  <2> QED
    BY <2>3, <2>4
<1>4. ASSUME Break PROVE Pending'
  <2>1. wire' = <<>> /\ UNCHANGED <<state, pending_messages, received, notified>>
    BY <1>4 DEF Break, serverVars, clientVars
  <2> QED
    BY <1>a, <2>1 DEF Pending, StrictlyAscending, LastGot
<1>5. ASSUME Disconnect \/ TimerFires PROVE Pending'
  <2>1. UNCHANGED <<wire, pending_messages, received, notified>> /\ state' # "connected"
    BY <1>5 DEF Disconnect, TimerFires, clientVars
  <2> QED
    BY <1>a, <2>1 DEF Pending, StrictlyAscending, LastGot
<1>6. ASSUME Tick \/ UNCHANGED vars PROVE Pending'
  <2>1. UNCHANGED <<wire, pending_messages, received, notified, state>>
    BY <1>6 DEF Tick, vars, clientVars, serverVars
  <2> QED
    BY <1>a, <2>1 DEF Pending, StrictlyAscending, LastGot
<1> QED
  BY <1>1, <1>2, <1>3, <1>4, <1>5, <1>6 DEF Next

-----------------------------------------------------------------------------
(* Protocol 1.2                                                             *)

\* The buffer goes on where it was, from one notification to the next.
LEMMA RunSent ==
  ASSUME Typed, SendMessage, message_seq = Len(notified), Run(message_buffer, Len(notified))
  PROVE  /\ Run(message_buffer', Len(notified')) /\ message_seq' = Len(notified')
         /\ Len(message_buffer') \in Nat /\ Len(message_buffer') <= Len(message_buffer) + 1
<1> DEFINE n == Len(notified)
<1>1. n \in Nat /\ Len(notified') = n + 1 /\ message_seq' = n + 1 /\ Len(message_buffer) \in Nat
  BY MessageSent, EntryIs DEF SendMessage
<1>2. PICK first \in 1..Len(message_buffer) + 1 :
           /\ message_buffer' \in Seq(Entry) /\ Len(message_buffer') = Len(message_buffer) + 2 - first
           /\ \A i \in 1..Len(message_buffer') :
                message_buffer'[i] = IF first + i - 1 <= Len(message_buffer)
                                     THEN message_buffer[first + i - 1] ELSE Sent
  BY BufferSent, MessageSent DEF SendMessage
<1>3. ASSUME NEW i \in 1..Len(message_buffer')
      PROVE  /\ message_buffer'[i].data = (n + 1) - Len(message_buffer') + i
             /\ message_buffer'[i].seq = (n + 1) - Len(message_buffer') + i
  <2>1. CASE first + i - 1 <= Len(message_buffer)
    <3>1. first + i - 1 \in 1..Len(message_buffer) /\ message_buffer'[i] = message_buffer[first + i - 1]
      BY <1>1, <1>2, <2>1
    <3>2. PICK k \in 1..Len(message_buffer) : k = first + i - 1 /\ message_buffer'[i] = message_buffer[k]
      BY <3>1
    <3> QED
      BY <1>1, <1>2, <3>2 DEF Run
  <2>2. CASE ~(first + i - 1 <= Len(message_buffer))
    <3>0. i = Len(message_buffer')
      <4>1. Len(message_buffer') = Len(message_buffer) + 2 - first /\ i \in 1..Len(message_buffer')
        BY <1>2
      <4> QED
        BY <1>1, <2>2, <4>1
    <3>1. i = Len(message_buffer') /\ message_buffer'[i] = Sent
      BY <1>2, <2>2, <3>0
    <3> QED
      BY <1>1, <1>2, <3>1 DEF Sent
  <2> QED
    BY <2>1, <2>2
<1> QED
  BY <1>1, <1>2, <1>3 DEF Run

LEMMA NumberedSend ==
  ASSUME Typed, LinkAgrees, Continues, SendMessage
  PROVE  Continues'
<1> DEFINE n == Len(notified)
<1>1. /\ n \in Nat /\ Len(notified') = n + 1 /\ Len(message_buffer) \in Nat
      /\ UNCHANGED <<received, sequence, link>> /\ LastGot' = LastGot
  BY MessageSent, EntryIs DEF SendMessage, clientVars, LastGot
<1>2. /\ Run(message_buffer', n + 1) /\ message_seq' = n + 1
      /\ Len(message_buffer') \in Nat /\ Len(message_buffer') <= Len(message_buffer) + 1
  BY <1>1, RunSent DEF Continues
<1>3. LastGot \in Nat /\ Len(wire) \in Nat /\ \A i \in 1..Len(received) : received[i] \in Nat /\ received[i] <= LastGot
  BY GotIs DEF Continues, Typed
<1>4. ASSUME NEW m \in 1..(n + 1), m < LastGot, \A i \in 1..Len(received) : received[i] # m
      PROVE  m <= n + 1 - Len(message_buffer')
  BY <1>1, <1>2, <1>3, <1>4 DEF Continues
<1>5. IF link = "up"
      THEN /\ wire' \in Seq(Items) /\ Len(wire') = Len(wire) + 1
           /\ \A i \in 1..Len(wire) : wire'[i] = wire[i]
           /\ wire'[Len(wire) + 1] = Event(n + 1)
      ELSE wire' = <<>> /\ Len(wire') = 0
  BY MessagePassedOn DEF LinkAgrees
<1>6. CASE link # "up"
  <2>1. wire' = <<>> /\ Len(wire') = 0 /\ link' # "up"
    BY <1>1, <1>5, <1>6
  <2>2. Replays'
    BY <1>1, <2>1 DEF Replays
  <2>3. Ascending(received') /\ LastGot' <= n + 1 /\ sequence' \in {LastGot', LastGot' + 1}
    BY <1>1, <1>3 DEF Continues, Ascending
  <2> QED
    BY <1>1, <1>2, <1>4, <2>2, <2>3 DEF Continues, Ascending
<1>7. CASE link = "up"
  <2>1. ASSUME NEW i \in 1..Len(wire')
        PROVE  \/ wire'[i] = Event(n + 1 - Len(wire') + i)
               \/ i = 1 /\ \E b \in Seq(Entry) :
                    /\ wire'[1] = Answer(b) /\ Run(b, n + 1 - Len(wire') + 1)
                    /\ Len(message_buffer') <= Len(b) + Len(wire') - 1
                    /\ n + 1 - Len(wire') + 1 > 0 => b # <<>>
    <3>1. n + 1 - Len(wire') = n - Len(wire)
      BY <1>1, <1>3, <1>5, <1>7
    <3>2. CASE i \in 1..Len(wire) /\ wire[i] = Event(n - Len(wire) + i)
      BY <1>5, <1>7, <3>1, <3>2
    <3>3. CASE i = Len(wire) + 1
      <4>1. n - Len(wire) + i = n + 1
        BY <1>1, <1>3, <3>3
      <4> QED
        BY <1>5, <1>7, <3>1, <3>3, <4>1
    <3>4. CASE i = 1 /\ i \in 1..Len(wire) /\
                 \E b \in Seq(Entry) : /\ wire[1] = Answer(b) /\ Run(b, n - Len(wire) + 1)
                                       /\ Len(message_buffer) <= Len(b) + Len(wire) - 1
                                       /\ n - Len(wire) + 1 > 0 => b # <<>>
      <4>1. PICK b \in Seq(Entry) : /\ wire[1] = Answer(b) /\ Run(b, n - Len(wire) + 1)
                                    /\ Len(message_buffer) <= Len(b) + Len(wire) - 1
                                    /\ n - Len(wire) + 1 > 0 => b # <<>>
        BY <3>4
      <4>2. Len(message_buffer') <= Len(b) + Len(wire') - 1
        BY <1>1, <1>2, <1>3, <1>5, <1>7, <4>1
      <4>3. wire'[1] = Answer(b)
        BY <1>5, <1>7, <3>4, <4>1
      <4> QED
        BY <3>1, <3>4, <4>1, <4>2, <4>3
    <3>5. i \in 1..Len(wire) \/ i = Len(wire) + 1
      BY <1>3, <1>5, <1>7
    <3> QED
      BY <3>2, <3>3, <3>4, <3>5 DEF Continues, Replays
  <2>2. Len(wire') <= n + 1 + 1
    BY <1>1, <1>3, <1>5, <1>7 DEF Continues, Replays
  <2>3. \/ wire' # <<>> /\ wire'[1].type = "relogin" /\ LastGot <= n + 1 - Len(wire') + 1
        \/ (wire' # <<>> => wire'[1].type # "relogin") /\ LastGot = n + 1 - Len(wire')
    <3>1. n + 1 - Len(wire') = n - Len(wire) /\ wire' # <<>>
      BY <1>1, <1>3, <1>5, <1>7
    <3>2. CASE wire = <<>>
      <4>1. wire'[1].type = "event"
        BY <1>5, <1>7, <3>2 DEF Event
      <4>2. LastGot = n - Len(wire)
        BY <1>7, <3>2 DEF Continues, Replays
      <4> QED
        BY <3>1, <4>1, <4>2
    <3>3. CASE wire # <<>>
      <4>1. wire'[1] = wire[1]
        <5>1. 1 \in 1..Len(wire)
          BY <3>3 DEF Typed
        <5> QED
          BY <1>5, <1>7, <5>1
      <4>2. \/ wire[1].type = "relogin" /\ LastGot <= n - Len(wire) + 1
            \/ wire[1].type # "relogin" /\ LastGot = n - Len(wire)
        BY <1>7, <3>3 DEF Continues, Replays
      <4> QED
        BY <3>1, <4>1, <4>2
    <3> QED
      BY <3>2, <3>3
  <2>4. Replays'
    BY <1>1, <2>1, <2>2, <2>3 DEF Replays
  <2> QED
    BY <1>1, <1>2, <1>3, <1>4, <2>4 DEF Continues, Ascending
<1> QED
  BY <1>6, <1>7

LEMMA NumberedRelogin ==
  ASSUME Typed, LinkAgrees, Kept, Continues, Relogin, protocol_version = "1.2"
  PROVE  Continues'
<1> DEFINE n == Len(notified)
<1>1. /\ UNCHANGED <<received, sequence, notified>> /\ LastGot' = LastGot
      /\ Drained = <<>> /\ Len(Drained) = 0 /\ Replayed = Handed
      /\ message_seq' = message_seq /\ n \in Nat /\ Len(message_buffer) \in Nat
  BY NotifiedIs, EntryIs DEF Relogin, clientVars, LastGot, Drained, Replayed, MessageSeq
<1>2. /\ Handed \in Seq(Entry) /\ Len(Handed) = Len(message_buffer)
      /\ \A i \in 1..Len(message_buffer) : /\ Handed[i].data = message_buffer[i].data
                                           /\ Handed[i].seq = message_buffer[i].seq
  <2>1. /\ Handed \in Seq(Entry) /\ Len(Handed) = Len(message_buffer)
        /\ \A i \in 1..Len(message_buffer) : Handed[i] = [message_buffer[i] EXCEPT !.time = NoTime]
    BY HandedIs
  <2>2. \A i \in 1..Len(message_buffer) : message_buffer[i] \in Entry
    BY EntryIs
  <2> QED
    BY <2>1, <2>2 DEF Entry
<1>3. /\ Len(message_buffer') = Len(message_buffer)
      /\ \A i \in 1..Len(message_buffer) : /\ message_buffer'[i].data = message_buffer[i].data
                                           /\ message_buffer'[i].seq = message_buffer[i].seq
  BY <1>1, DataHandedOver
<1>4. Run(message_buffer', n) /\ Run(Handed, n)
  BY <1>2, <1>3 DEF Continues, Run
<1>5. n > 0 => Handed # <<>>
  <2> SUFFICES ASSUME n > 0, Handed = <<>> PROVE FALSE
    OBVIOUS
  <2>1. n \in 1..n /\ notified[n] - notified[n] = 0
    BY <1>1, NotifiedIs
  <2>2. Len(message_buffer) = 0
    BY <1>2
  <2> QED
    BY <2>1, <2>2, MessageAssumption DEF Kept
<1>6. Len(wire') = 1 /\ wire'[1] = Answer(Handed) /\ wire'[1].type = "relogin" /\ wire' # <<>>
  <2>1. /\ wire' \in Seq(Items) /\ Len(wire') = 1 /\ wire'[1] = Answer(Handed)
    BY <1>1, WireReplaced DEF Relogin
  <2>2. Answer(Handed).type = "relogin"
    BY DEF Answer
  <2>3. wire' # <<>>
    <3>1. Len(<<>>) = 0 /\ 1 # 0
      OBVIOUS
    <3> QED
      BY <2>1, <3>1, Zenon
  <2> QED
    BY <2>1, <2>2, <2>3
<1>7. n - 1 + 1 = n /\ Len(Handed) + 1 - 1 = Len(message_buffer) /\ Len(message_buffer) <= Len(message_buffer)
  BY <1>1, <1>2
<1>8. \A i \in 1..Len(wire') :
        i = 1 /\ \E b \in Seq(Entry) :
          /\ wire'[1] = Answer(b) /\ Run(b, n - Len(wire') + 1)
          /\ Len(message_buffer') <= Len(b) + Len(wire') - 1
          /\ n - Len(wire') + 1 > 0 => b # <<>>
  <2>1. Len(message_buffer') <= Len(Handed) + Len(wire') - 1 /\ n - Len(wire') + 1 = n
    BY <1>1, <1>2, <1>3, <1>6
  <2>2. \A i \in 1..Len(wire') : i = 1
    BY <1>6
  <2> QED
    BY <1>2, <1>4, <1>5, <1>6, <2>1, <2>2
<1>9. Replays'
  <2>1. Len(wire') <= n + 1 /\ LastGot' <= n - Len(wire') + 1
    BY <1>1, <1>6 DEF Continues
  <2> QED
    BY <1>1, <1>6, <1>8, <2>1 DEF Replays
<1> QED
  BY <1>1, <1>3, <1>4, <1>9 DEF Continues, Ascending

\* The client is sent an event that follows what it has.
LEMMA NumberedEvent ==
  ASSUME Typed, LinkAgrees, Continues, Receive, wire[1].type = "event"
  PROVE  Continues'
<1> DEFINE n == Len(notified)
<1>1. /\ Len(wire) \in Nat \ {0} /\ wire[1] \in Items /\ 1 \in 1..Len(wire)
      /\ wire' \in Seq(Items) /\ Len(wire') = Len(wire) - 1
      /\ \A i \in 1..Len(wire') : i + 1 \in 1..Len(wire) /\ i + 1 # 1 /\ wire'[i] = wire[i + 1]
  <2>1. /\ Len(wire) \in Nat \ {0} /\ wire[1] \in Items
        /\ wire' \in Seq(Items) /\ Len(wire') = Len(wire) - 1
        /\ \A i \in 1..Len(wire') : wire'[i] = wire[i + 1]
    BY TakenOff
  <2> QED
    BY <2>1
<1>2. n \in Nat /\ UNCHANGED <<message_seq, message_buffer, notified, link>> /\ link = "up" /\ wire # <<>>
  BY NotifiedIs DEF Receive, serverVars, LinkAgrees
<1>3. /\ LastGot \in Nat /\ Len(received) \in Nat
      /\ \A i \in 1..Len(received) : received[i] \in Nat /\ received[i] <= LastGot
      /\ received # <<>> => Len(received) \in 1..Len(received) /\ received[Len(received)] = LastGot
      /\ received = <<>> => LastGot = 0
  BY GotIs DEF Continues
<1>4. LastGot = n - Len(wire)
  BY <1>2 DEF Continues, Replays
<1>5. wire[1] = Event(LastGot + 1) /\ LastGot + 1 \in Messages
  <2>1. PICK m \in Messages : wire[1] = Event(m)
    BY <1>1, ItemsAre
  <2>2. wire[1] = Event(n - Len(wire) + 1)
    <3>1. \A b : Answer(b).type # "event"
      BY DEF Answer
    <3> QED
      BY <1>1, <3>1 DEF Continues, Replays
  <2>3. m = n - Len(wire) + 1
    BY <2>1, <2>2 DEF Event
  <2> QED
    BY <1>4, <2>1, <2>3
<1>6. /\ received' \in Seq(Messages) /\ Len(received') = Len(received) + 1
      /\ \A i \in 1..Len(received) : received'[i] = received[i]
      /\ received'[Len(received) + 1] = LastGot + 1
      /\ sequence' = sequence + 1 /\ LastGot' = LastGot + 1
  BY <1>5, EventReceived, EventGot
<1>7. Ascending(received')
  <2> SUFFICES ASSUME NEW i \in 1..Len(received'), NEW j \in 1..Len(received'), i < j
               PROVE  received'[i] <= received'[j]
    BY DEF Ascending
  <2>1. i \in 1..Len(received) /\ (j \in 1..Len(received) \/ j = Len(received) + 1)
    BY <1>3, <1>6
  <2>2. CASE j \in 1..Len(received)
    BY <1>6, <2>1, <2>2 DEF Continues, Ascending
  <2>3. CASE j = Len(received) + 1
    BY <1>3, <1>6, <2>1, <2>3
  <2> QED
    BY <2>1, <2>2, <2>3
<1>8. LastGot' <= n /\ sequence' \in {LastGot', LastGot' + 1}
  <2>1. sequence \in {LastGot, LastGot + 1}
    BY DEF Continues
  <2>2. LastGot + 1 <= n
    BY <1>1, <1>2, <1>4
  <2> QED
    BY <1>3, <1>6, <2>1, <2>2
<1>9. ASSUME NEW m \in 1..n, m < LastGot', \A i \in 1..Len(received') : received'[i] # m
      PROVE  m <= n - Len(message_buffer)
  <2>1. \A i \in 1..Len(received) : received[i] # m
    <3>1. \A i \in 1..Len(received) : i \in 1..Len(received')
      BY <1>3, <1>6
    <3> QED
      BY <1>6, <1>9, <3>1
  <2>2. m # LastGot
    BY <1>3, <2>1
  <2>3. m < LastGot
    BY <1>3, <1>6, <1>9, <2>2
  <2> QED
    BY <2>1, <2>3 DEF Continues
<1>10. \A i \in 1..Len(wire') : wire'[i] = Event(n - Len(wire') + i)
  <2> SUFFICES ASSUME NEW i \in 1..Len(wire') PROVE wire'[i] = Event(n - Len(wire') + i)
    OBVIOUS
  <2>1. i + 1 \in 1..Len(wire) /\ i + 1 # 1 /\ wire'[i] = wire[i + 1]
    BY <1>1
  <2>2. wire[i + 1] = Event(n - Len(wire) + (i + 1))
    BY <2>1 DEF Continues, Replays
  <2>3. n - Len(wire) + (i + 1) = n - Len(wire') + i
    BY <1>1, <1>2
  <2> QED
    BY <2>1, <2>2, <2>3
<1>11. Replays'
  <2>1. wire' # <<>> => wire'[1].type # "relogin"
    <3>1. wire' # <<>> => 1 \in 1..Len(wire')
      BY <1>1
    <3>2. \A m : Event(m).type # "relogin"
      BY DEF Event
    <3> QED
      BY <1>10, <3>1, <3>2
  <2>2. Len(wire') <= n + 1 /\ LastGot' = n - Len(wire')
    BY <1>1, <1>2, <1>4, <1>6 DEF Continues, Replays
  <2> QED
    BY <1>2, <1>10, <2>1, <2>2 DEF Replays
<1> QED
  BY <1>2, <1>7, <1>8, <1>9, <1>11 DEF Continues, Run

\* What the answer to a relogin brings the client: it goes on where the client is, or where the
\* buffer begins.
LEMMA AnswerGot ==
  ASSUME Typed, LinkAgrees, Continues, Receive, NEW b \in Seq(Entry), wire[1] = Answer(b),
         NEW e \in Nat, e = Len(notified) - Len(wire) + 1
  PROVE  /\ LastGot' = e /\ sequence' \in {e, e + 1} /\ Ascending(received')
         /\ \/ received' = received /\ LastGot = e
            \/ \E first \in 1..Len(b) :
                 /\ LastGot <= e - Len(b) + first
                 /\ first = 1 \/ e - Len(b) + first <= LastGot + 1
                 /\ Len(received') = Len(received) + Len(b) - first + 1
                 /\ \A i \in 1..Len(received) : received'[i] = received[i]
                 /\ \A i \in first..Len(b) :
                      received'[Len(received) + i - first + 1] = e - Len(b) + i
<1> DEFINE n == Len(notified)
<1>1. /\ n \in Nat /\ Len(wire) \in Nat \ {0} /\ link = "up" /\ wire # <<>> /\ 1 \in 1..Len(wire)
  BY NotifiedIs, TakenOff DEF Receive, LinkAgrees
<1>2. /\ LastGot \in Nat /\ Len(received) \in Nat
      /\ \A i \in 1..Len(received) : received[i] \in Nat /\ received[i] <= LastGot
      /\ \A i, j \in 1..Len(received) : i < j => received[i] <= received[j]
      /\ sequence \in {LastGot, LastGot + 1}
  BY GotIs DEF Continues, Ascending
<1>3. LastGot <= e
  <2>1. wire[1].type = "relogin"
    BY DEF Answer
  <2> QED
    BY <1>1, <2>1 DEF Continues, Replays
<1>4. Run(b, e) /\ (e > 0 => b # <<>>)
  <2>1. \A m : Event(m) # Answer(b)
    BY DEF Event, Answer
  <2>2. \A c : Answer(c) = Answer(b) => c = b
    BY DEF Answer
  <2> QED
    BY <1>1, <2>1, <2>2 DEF Continues, Replays
<1>5. /\ Len(b) \in Nat /\ Len(b) <= e /\ (e > 0 => Len(b) \in 1..Len(b))
      /\ \A i \in 1..Len(b) : b[i].data = e - Len(b) + i /\ b[i].seq = e - Len(b) + i
  <2>1. Len(b) \in Nat /\ (b # <<>> => Len(b) # 0)
    OBVIOUS
  <2> QED
    BY <1>4, <2>1 DEF Run
<1>6. CASE received' = received /\ sequence' = sequence /\ \A i \in 1..Len(b) : b[i].seq < sequence
  <2>1. LastGot' = LastGot
    BY <1>6 DEF LastGot
  <2>2. LastGot = e
    <3>1. CASE e = 0
      BY <1>2, <1>3, <3>1
    <3>2. CASE e > 0
      <4>1. e < sequence
        <5>1. Len(b) \in 1..Len(b) /\ e - Len(b) + Len(b) = e
          BY <1>5, <3>2
        <5> QED
          BY <1>5, <1>6, <5>1
      <4>2. LastGot \in Nat /\ (sequence = LastGot \/ sequence = LastGot + 1)
        BY <1>2
      <4> QED
        BY <1>3, <4>1, <4>2
    <3> QED
      BY <3>1, <3>2
  <2> QED
    BY <1>2, <1>6, <2>1, <2>2 DEF Ascending
<1>7. CASE \E first \in 1..Len(b) :
              /\ b[first].seq >= sequence
              /\ \A i \in 1..Len(b) : i < first => b[i].seq < sequence
              /\ sequence' = b[Len(b)].seq + 1
              /\ received' \in Seq(Messages)
              /\ Len(received') = Len(received) + Len(b) - first + 1
              /\ \A i \in 1..Len(received) : received'[i] = received[i]
              /\ \A i \in first..Len(b) : received'[Len(received) + i - first + 1] = b[i].data
  <2>1. PICK first \in 1..Len(b) :
              /\ b[first].seq >= sequence
              /\ \A i \in 1..Len(b) : i < first => b[i].seq < sequence
              /\ sequence' = b[Len(b)].seq + 1
              /\ received' \in Seq(Messages)
              /\ Len(received') = Len(received) + Len(b) - first + 1
              /\ \A i \in 1..Len(received) : received'[i] = received[i]
              /\ \A i \in first..Len(b) : received'[Len(received) + i - first + 1] = b[i].data
    BY <1>7
  <2>2. \A i \in first..Len(b) : received'[Len(received) + i - first + 1] = e - Len(b) + i
    <3>1. \A i \in first..Len(b) : i \in 1..Len(b)
      BY <1>5
    <3> QED
      BY <1>5, <2>1, <3>1
  <2>3. LastGot <= e - Len(b) + first
    <3>1. e - Len(b) + first >= sequence
      BY <1>5, <2>1
    <3> QED
      BY <1>2, <1>5, <3>1
  <2>4. first = 1 \/ e - Len(b) + first <= LastGot + 1
    <3> SUFFICES ASSUME first # 1 PROVE e - Len(b) + first <= LastGot + 1
      OBVIOUS
    <3>1. first - 1 \in 1..Len(b) /\ first - 1 < first
      BY <1>5
    <3>2. b[first - 1].seq < sequence /\ b[first - 1].seq = e - Len(b) + (first - 1)
      BY <1>5, <2>1, <3>1
    <3> QED
      BY <1>2, <1>5, <3>2
  <2>5. sequence' = e + 1
    <3>1. Len(b) \in 1..Len(b) /\ e - Len(b) + Len(b) = e
      BY <1>5
    <3> QED
      BY <1>5, <2>1, <3>1
  <2>6. LastGot' = e
    <3>1. Len(b) \in first..Len(b) /\ e - Len(b) + Len(b) = e
          /\ Len(received) + Len(b) - first + 1 > 0
      BY <1>2, <1>5
    <3>2. received'[Len(received')] = e
      BY <2>1, <2>2, <3>1
    <3>3. received' # <<>>
      BY <2>1, <3>1
    <3> QED
      BY <3>2, <3>3 DEF LastGot
  <2>7. Ascending(received')
    <3> SUFFICES ASSUME NEW i \in 1..Len(received'), NEW j \in 1..Len(received'), i < j
                 PROVE  received'[i] <= received'[j]
      BY DEF Ascending
    <3>1. ASSUME NEW k \in 1..Len(received'), ~(k \in 1..Len(received))
          PROVE  received'[k] = e - Len(b) + (k - Len(received) + first - 1)
      <4> DEFINE l == k - Len(received) + first - 1
      <4>1. l \in first..Len(b) /\ Len(received) + l - first + 1 = k
        BY <1>2, <1>5, <2>1, <3>1
      <4> HIDE DEF l
      <4>2. received'[k] = e - Len(b) + l
        BY <2>2, <4>1
      <4> QED
        BY <4>2 DEF l
    <3>2. CASE j \in 1..Len(received)
      <4>1. i \in 1..Len(received)
        BY <1>2, <2>1, <3>2
      <4> QED
        BY <1>2, <2>1, <3>2, <4>1
    <3>3. CASE ~(j \in 1..Len(received)) /\ ~(i \in 1..Len(received))
      BY <1>2, <1>5, <2>1, <3>1, <3>3
    <3>4. CASE ~(j \in 1..Len(received)) /\ i \in 1..Len(received)
      <4>1. received'[j] = e - Len(b) + (j - Len(received) + first - 1) /\ j > Len(received)
        BY <1>2, <2>1, <3>1, <3>4
      <4>2. received'[i] \in Nat /\ received'[i] <= LastGot
        BY <1>2, <2>1, <3>4
      <4> QED
        BY <1>2, <1>5, <2>3, <4>1, <4>2
    <3> QED
      BY <3>2, <3>3, <3>4
  <2> QED
    BY <2>1, <2>2, <2>3, <2>4, <2>5, <2>6, <2>7
<1> QED
  BY <1>6, <1>7, AnswerReceived

\* What the client misses of a relogin's answer was not in the buffer any more.
LEMMA NumberedAnswer ==
  ASSUME Typed, LinkAgrees, Continues, Receive, wire[1].type # "event"
  PROVE  Continues'
<1> DEFINE n == Len(notified)
           e == n - Len(wire) + 1
<1>1. /\ Len(wire) \in Nat \ {0} /\ wire[1] \in Items /\ 1 \in 1..Len(wire)
      /\ wire' \in Seq(Items) /\ Len(wire') = Len(wire) - 1
      /\ \A i \in 1..Len(wire') : i + 1 \in 1..Len(wire) /\ i + 1 # 1 /\ wire'[i] = wire[i + 1]
  <2>1. /\ Len(wire) \in Nat \ {0} /\ wire[1] \in Items
        /\ wire' \in Seq(Items) /\ Len(wire') = Len(wire) - 1
        /\ \A i \in 1..Len(wire') : wire'[i] = wire[i + 1]
    BY TakenOff
  <2> QED
    BY <2>1
<1>2. /\ n \in Nat /\ Len(message_buffer) \in Nat
      /\ UNCHANGED <<message_seq, message_buffer, notified, link>> /\ link = "up" /\ wire # <<>>
  BY NotifiedIs, EntryIs DEF Receive, serverVars, LinkAgrees
<1>3. PICK b \in Seq(Entry) : wire[1] = Answer(b)
  BY <1>1, ItemsAre
<1>4. /\ Run(b, e) /\ Len(message_buffer) <= Len(b) + Len(wire) - 1 /\ Len(wire) <= n + 1
  <2>1. \A m : Event(m) # Answer(b)
    BY DEF Event, Answer
  <2>2. \A c : Answer(c) = Answer(b) => c = b
    BY DEF Answer
  <2> QED
    BY <1>1, <1>3, <2>1, <2>2 DEF Continues, Replays
<1>5. e \in Nat /\ e <= n /\ Len(b) \in Nat /\ e = n - Len(wire) + 1
  BY <1>1, <1>2, <1>4
<1> HIDE DEF e
<1>6. /\ LastGot' = e /\ sequence' \in {e, e + 1} /\ Ascending(received')
      /\ \/ received' = received /\ LastGot = e
         \/ \E first \in 1..Len(b) :
              /\ LastGot <= e - Len(b) + first
              /\ first = 1 \/ e - Len(b) + first <= LastGot + 1
              /\ Len(received') = Len(received) + Len(b) - first + 1
              /\ \A i \in 1..Len(received) : received'[i] = received[i]
              /\ \A i \in first..Len(b) : received'[Len(received) + i - first + 1] = e - Len(b) + i
  BY <1>3, <1>5, AnswerGot
<1>7. /\ LastGot \in Nat /\ Len(received) \in Nat
      /\ received # <<>> => Len(received) \in 1..Len(received) /\ received[Len(received)] = LastGot
      /\ received = <<>> => LastGot = 0
  BY GotIs DEF Continues
<1>8. ASSUME NEW m \in 1..n, m < LastGot', \A i \in 1..Len(received') : received'[i] # m
      PROVE  m <= n - Len(message_buffer)
  <2>1. CASE received' = received /\ LastGot = e
    BY <1>6, <1>8, <2>1 DEF Continues
  <2>2. CASE \E first \in 1..Len(b) :
              /\ LastGot <= e - Len(b) + first
              /\ first = 1 \/ e - Len(b) + first <= LastGot + 1
              /\ Len(received') = Len(received) + Len(b) - first + 1
              /\ \A i \in 1..Len(received) : received'[i] = received[i]
              /\ \A i \in first..Len(b) : received'[Len(received) + i - first + 1] = e - Len(b) + i
    <3>1. PICK first \in 1..Len(b) :
              /\ LastGot <= e - Len(b) + first
              /\ first = 1 \/ e - Len(b) + first <= LastGot + 1
              /\ Len(received') = Len(received) + Len(b) - first + 1
              /\ \A i \in 1..Len(received) : received'[i] = received[i]
              /\ \A i \in first..Len(b) : received'[Len(received) + i - first + 1] = e - Len(b) + i
      BY <2>2
    <3>2. \A i \in 1..Len(received) : received[i] # m
      <4>1. \A i \in 1..Len(received) : i \in 1..Len(received')
        BY <1>5, <1>7, <3>1
      <4> QED
        BY <1>8, <3>1, <4>1
    <3>3. m # LastGot
      BY <1>7, <3>2
    <3>4. CASE m < LastGot
      BY <3>2, <3>4 DEF Continues
    <3>5. CASE m > LastGot
      <4>1. m < e - Len(b) + first
        <5> SUFFICES ASSUME m >= e - Len(b) + first PROVE FALSE
          BY <1>5
        <5> DEFINE i == m - e + Len(b)
                   k == Len(received) + i - first + 1
        <5>1. i \in first..Len(b) /\ e - Len(b) + i = m
          BY <1>5, <1>6, <1>8
        <5>2. received'[k] = m
          <6> HIDE DEF i
          <6> QED
            BY <3>1, <5>1
        <5>3. k \in 1..Len(received')
          <6>1. /\ i \in Int /\ first <= i /\ i <= Len(b) /\ first >= 1
                /\ first \in Int /\ Len(b) \in Nat /\ Len(received) \in Nat
            BY <1>5, <1>7, <5>1
          <6>2. Len(received') = Len(received) + Len(b) - first + 1
            BY <3>1
          <6> HIDE DEF i
          <6> QED
            BY <6>1, <6>2
        <5> QED
          BY <1>8, <5>2, <5>3
      <4>2. first = 1
        BY <1>5, <1>7, <3>1, <3>5, <4>1
      <4>3. m <= e - Len(b)
        BY <1>5, <4>1, <4>2
      <4> QED
        BY <1>1, <1>2, <1>4, <1>5, <4>3
    <3> QED
      BY <1>7, <3>3, <3>4, <3>5
  <2> QED
    BY <1>6, <2>1, <2>2
<1>9. \A i \in 1..Len(wire') : wire'[i] = Event(n - Len(wire') + i)
  <2> SUFFICES ASSUME NEW i \in 1..Len(wire') PROVE wire'[i] = Event(n - Len(wire') + i)
    OBVIOUS
  <2>1. i + 1 \in 1..Len(wire) /\ i + 1 # 1 /\ wire'[i] = wire[i + 1]
    BY <1>1
  <2>2. wire[i + 1] = Event(n - Len(wire) + (i + 1))
    BY <2>1 DEF Continues, Replays
  <2>3. n - Len(wire) + (i + 1) = n - Len(wire') + i
    BY <1>1, <1>2
  <2> QED
    BY <2>1, <2>2, <2>3
<1>10. Replays'
  <2>1. wire' # <<>> => wire'[1].type # "relogin"
    <3>1. wire' # <<>> => 1 \in 1..Len(wire')
      BY <1>1
    <3>2. \A m : Event(m).type # "relogin"
      BY DEF Event
    <3> QED
      BY <1>9, <3>1, <3>2
  <2>2. Len(wire') <= n + 1 /\ LastGot' = n - Len(wire')
    BY <1>1, <1>2, <1>4, <1>5, <1>6
  <2> QED
    BY <1>2, <1>9, <2>1, <2>2 DEF Replays
<1> QED
  BY <1>2, <1>5, <1>6, <1>8, <1>10 DEF Continues, Run

LEMMA NumberedStep == Typed /\ LinkAgrees /\ Kept /\ Numbered /\ [Next]_vars => Numbered'
<1> SUFFICES ASSUME Typed, LinkAgrees, Kept, Numbered, [Next]_vars, protocol_version' = "1.2"
             PROVE  Continues'
  BY DEF Numbered
<1>1. protocol_version = "1.2" /\ Continues
  BY DEF Numbered, Next, vars, serverVars, SendMessage, Disconnect, Relogin, TimerFires, Break,
         Receive, Tick
<1>2. CASE SendMessage
  BY <1>1, <1>2, NumberedSend
<1>3. CASE Relogin
  BY <1>1, <1>3, NumberedRelogin
<1>4. CASE Receive
  BY <1>1, <1>4, NumberedEvent, NumberedAnswer
<1>5. CASE Break
  <2>1. /\ wire' = <<>> /\ Len(wire') = 0 /\ link' # "up"
        /\ UNCHANGED <<message_seq, message_buffer, received, sequence, notified>>
    BY <1>5 DEF Break, serverVars, clientVars
  <2>2. LastGot' = LastGot /\ Len(notified) \in Nat
    BY <2>1, NotifiedIs DEF LastGot
  <2>3. Replays'
    BY <2>1, <2>2 DEF Replays
  <2> QED
    BY <1>1, <2>1, <2>2, <2>3 DEF Continues, Run, Ascending
<1>6. CASE Disconnect
  <2>1. /\ link # "up" /\ link' # "up"
        /\ UNCHANGED <<message_seq, message_buffer, received, sequence, notified, wire>>
    BY <1>6 DEF Disconnect, clientVars
  <2>2. LastGot' = LastGot /\ Replays'
    BY <1>1, <2>1 DEF LastGot, Continues, Replays, Run
  <2> QED
    BY <1>1, <2>1, <2>2 DEF Continues, Run, Ascending
<1>7. CASE TimerFires \/ Tick \/ UNCHANGED vars
  <2>1. UNCHANGED <<message_seq, message_buffer, received, sequence, notified, wire, link>>
    BY <1>7 DEF TimerFires, Tick, vars, serverVars, clientVars
  <2>2. LastGot' = LastGot /\ Replays'
    BY <1>1, <2>1 DEF LastGot, Continues, Replays, Run
  <2> QED
    BY <1>1, <2>1, <2>2 DEF Continues, Run, Ascending
<1> QED
  BY <1>2, <1>3, <1>4, <1>5, <1>6, <1>7 DEF Next

-----------------------------------------------------------------------------
(* The invariant, and what follows from it                                  *)

LEMMA InitMessageInv == Init => MessageInv
<1> SUFFICES ASSUME Init PROVE MessageInv
  OBVIOUS
<1>1. Typed
  BY InitTyped
<1>2. LastGot = 0 /\ Len(<<>>) = 0
  BY DEF Init, LastGot
<1> QED
  BY <1>1, <1>2 DEF Init, MessageInv, LinkAgrees, TimesAgree, Kept, Numbered, Continues, Run, Replays,
                    Pending, Ascending, StrictlyAscending

LEMMA MessageStep == MessageInv /\ [Next]_vars => MessageInv'
BY TypedStep, LinkStep, TimesStep, KeptStep, NumberedStep, PendingStep DEF MessageInv

LEMMA MessagesAgree == Spec => []MessageInv
<1>1. Init => MessageInv
  BY InitMessageInv
<1>2. MessageInv /\ [Next]_vars => MessageInv'
  BY MessageStep
<1> QED
  BY <1>1, <1>2, PTL DEF Spec

\* The types of the portal's and the client's state.
THEOREM MessageTypes == Spec => []TypeOK
<1>1. MessageInv => TypeOK
  <2> SUFFICES ASSUME MessageInv PROVE TypeOK
    OBVIOUS
  <2>1. Typed
    BY DEF MessageInv
  <2>2. \A i \in DOMAIN message_buffer : message_buffer[i] \in Entry
    BY <2>1 DEF Typed
  <2>3. \A i \in DOMAIN wire : wire[i].type \in {"event", "relogin"}
    <3>1. \A i \in DOMAIN wire : wire[i] \in Items
      BY <2>1 DEF Typed
    <3>2. /\ \A m \in Messages : Event(m).type = "event"
          /\ \A b \in Seq(Entry) : Answer(b).type = "relogin"
      BY DEF Event, Answer
    <3> QED
      BY <3>1, <3>2 DEF Items
  <2> QED
    BY <2>1, <2>2, <2>3 DEF TypeOK, Typed, Entry
<1> QED
  BY <1>1, MessagesAgree, PTL

\* The client processes notifications in the order they were sent, with protocol 1.1 none twice:
\* sendMessage, relogin and drainPendingMessages put nothing older behind what the client has.
THEOREM ClientGoesOn == Spec => []InOrder
<1>1. MessageInv => InOrder
  <2> SUFFICES ASSUME MessageInv PROVE InOrder
    OBVIOUS
  <2>1. Typed /\ Numbered /\ Pending
    BY DEF MessageInv
  <2>2. received \in Seq(Messages) /\ protocol_version \in {"1.1", "1.2"} /\ DOMAIN received = 1..Len(received)
    BY <2>1 DEF Typed
  <2>3. CASE protocol_version = "1.2"
    BY <2>1, <2>2, <2>3 DEF Numbered, Continues, Ascending, InOrder
  <2>4. CASE protocol_version = "1.1"
    BY <2>1, <2>2, <2>4, StrictlyIsAscending DEF Pending, Ascending, StrictlyAscending, InOrder
  <2> QED
    BY <2>2, <2>3, <2>4
<1> QED
  BY <1>1, MessagesAgree, PTL

\* sendMessage drops from the buffer only what is older than message_keep_time, whatever the
\* reconnections before it.
THEOREM RecentIsKept == Spec => []BufferHoldsRecent
<1>1. MessageInv => BufferHoldsRecent
  <2> SUFFICES ASSUME MessageInv, NEW m \in DOMAIN notified,
                      notified[Len(notified)] - notified[m] <= messageKeepTime
               PROVE  InBuffer(m)
    BY DEF BufferHoldsRecent
  <2>1. Typed /\ Kept
    BY DEF MessageInv
  <2>2. DOMAIN notified = 1..Len(notified) /\ DOMAIN message_buffer = 1..Len(message_buffer)
    BY <2>1 DEF Typed
  <2>3. /\ notified[Len(notified)] \in Nat /\ notified[m] \in Nat
    BY <2>1, <2>2, NotifiedIs
  <2>4. \E i \in 1..Len(message_buffer) : message_buffer[i].data = m
    BY <2>1, <2>2, <2>3, MessageAssumption DEF Kept
  <2> QED
    BY <2>2, <2>4 DEF InBuffer
<1> QED
  BY <1>1, MessagesAgree, PTL

-----------------------------------------------------------------------------
(* The portal implements MessageDelivery                                    *)

LEMMA GotSet ==
  ASSUME Typed
  PROVE  /\ ToSet(received) = {received[i] : i \in 1..Len(received)}
         /\ DOMAIN notified = 1..Len(notified) /\ DOMAIN message_buffer = 1..Len(message_buffer)
BY DEF Typed, ToSet

\* With protocol 1.2 a notification is in the buffer exactly if it is one of the last ones, as
\* many as the buffer has.
LEMMA InRun ==
  Typed /\ Numbered /\ protocol_version = "1.2" =>
    NotKept = {m \in 1..Len(notified) : m <= Len(notified) - Len(message_buffer)}
<1> SUFFICES ASSUME Typed, Numbered, protocol_version = "1.2"
             PROVE  NotKept = {m \in 1..Len(notified) : m <= Len(notified) - Len(message_buffer)}
  OBVIOUS
<1>1. /\ Len(notified) \in Nat /\ Len(message_buffer) \in Nat
      /\ Len(message_buffer) <= Len(notified)
      /\ \A i \in 1..Len(message_buffer) :
           message_buffer[i].data = Len(notified) - Len(message_buffer) + i
  BY NotifiedIs, EntryIs DEF Numbered, Continues, Run
<1>2. ASSUME NEW m \in 1..Len(notified)
      PROVE  InBuffer(m) <=> ~(m <= Len(notified) - Len(message_buffer))
  <2>1. ASSUME InBuffer(m) PROVE ~(m <= Len(notified) - Len(message_buffer))
    <3>1. PICK i \in 1..Len(message_buffer) : message_buffer[i].data = m
      BY <2>1, GotSet DEF InBuffer
    <3> QED
      BY <1>1, <3>1
  <2>2. ASSUME ~(m <= Len(notified) - Len(message_buffer)) PROVE InBuffer(m)
    <3> DEFINE i == m - (Len(notified) - Len(message_buffer))
    <3>1. i \in 1..Len(message_buffer) /\ Len(notified) - Len(message_buffer) + i = m
      BY <1>1, <2>2
    <3> HIDE DEF i
    <3> QED
      BY <1>1, <3>1, GotSet DEF InBuffer
  <2> QED
    BY <2>1, <2>2
<1> QED
  BY <1>2, GotSet DEF NotKept

LEMMA SendImplements ==
  ASSUME MessageInv, MessageInv', SendMessage
  PROVE  Delivery!Send
<1>1. /\ Typed /\ Typed' /\ Numbered /\ Numbered' /\ protocol_version \in {"1.1", "1.2"}
      /\ UNCHANGED <<protocol_version, received>>
  BY DEF MessageInv, Typed, SendMessage, clientVars
<1>2. Len(notified) \in Nat /\ Len(notified') = Len(notified) + 1
  BY <1>1, MessageSent
<1>3. NotKept \subseteq NotKept' /\ NotKept' \subseteq 1..Len(notified')
  <2>1. CASE protocol_version = "1.1"
    <3>1. NotKept = 1..Len(notified)
      BY <1>1, <2>1, GotSet DEF NotKept
    <3>2. NotKept' = DOMAIN notified'
      BY <1>1, <2>1 DEF NotKept
    <3>3. DOMAIN notified' = 1..Len(notified')
      BY <1>1 DEF Typed
    <3> QED
      BY <1>2, <3>1, <3>2, <3>3
  <2>2. CASE protocol_version = "1.2"
    <3>1. /\ NotKept = {m \in 1..Len(notified) : m <= Len(notified) - Len(message_buffer)}
          /\ Len(message_buffer) \in Nat
      BY <1>1, <2>2, InRun, EntryIs
    <3>2. /\ message_seq = Len(notified) /\ Run(message_buffer, Len(notified))
      BY <1>1, <2>2 DEF Numbered, Continues
    <3>3. /\ Len(message_buffer') \in Nat /\ Len(message_buffer') <= Len(message_buffer) + 1
      BY <1>1, <3>2, RunSent
    <3>4. NotKept' = {m \in 1..Len(notified') : m <= Len(notified') - Len(message_buffer')}
      <4>1. (Typed /\ Numbered /\ protocol_version = "1.2")'
        BY <1>1, <2>2
      <4>2. (NotKept = {m \in 1..Len(notified) : m <= Len(notified) - Len(message_buffer)})'
        BY <4>1, InRun, PTL
      <4> QED
        BY <4>2
    <3> QED
      BY <1>2, <3>1, <3>3, <3>4
  <2> QED
    BY <1>1, <2>1, <2>2
<1>4. ToSet(received)' = ToSet(received)
  BY <1>1 DEF ToSet
<1> QED
  BY <1>2, <1>3, <1>4 DEF Delivery!Send

LEMMA ReceiveImplements ==
  ASSUME MessageInv, MessageInv', Receive
  PROVE  Delivery!Deliver
<1> DEFINE n == Len(notified)
<1>1. /\ Typed /\ Typed' /\ LinkAgrees /\ Numbered /\ Numbered' /\ Pending /\ Pending'
      /\ protocol_version \in {"1.1", "1.2"}
      /\ UNCHANGED <<protocol_version, notified, message_buffer>>
  BY DEF MessageInv, Typed, Receive, serverVars
<1>2. /\ n \in Nat /\ Len(message_buffer) \in Nat /\ Len(received) \in Nat /\ Len(received') \in Nat
      /\ wire[1] \in Items
  <2>1. received \in Seq(Messages) /\ received' \in Seq(Messages)
    BY <1>1 DEF Typed
  <2>2. Len(received) \in Nat /\ Len(received') \in Nat
    BY <2>1
  <2>3. n \in Nat /\ Len(message_buffer) \in Nat /\ wire[1] \in Items
    BY <1>1, NotifiedIs, EntryIs, TakenOff
  <2> QED
    BY <2>2, <2>3
<1>0. \A i \in 1..Len(received') : received'[i] \in Nat \ {0}
  <2>1. received' \in Seq(Messages)
    BY <1>1 DEF Typed
  <2>2. \A i \in 1..Len(received') : received'[i] \in Messages
    BY <2>1, ElementOfSeq
  <2> QED
    BY <2>2 DEF Messages
<1>3. /\ ToSet(received) = {received[i] : i \in 1..Len(received)}
      /\ ToSet(received') = {received'[i] : i \in 1..Len(received')}
  <2>1. DOMAIN received = 1..Len(received) /\ DOMAIN received' = 1..Len(received')
    BY <1>1 DEF Typed
  <2> QED
    BY <2>1 DEF ToSet
<1>4. Ascending(received) /\ Ascending(received') /\ LastGot' <= n
  <2>1. CASE protocol_version = "1.2"
    BY <1>1, <2>1 DEF Numbered, Continues, Ascending
  <2>2. CASE protocol_version = "1.1"
    <3>1. StrictlyAscending(received) /\ StrictlyAscending(received') /\ LastGot' <= n
      BY <1>1, <2>2 DEF Pending, StrictlyAscending
    <3> QED
      BY <1>0, <1>1, <3>1, StrictlyIsAscending DEF Ascending, StrictlyAscending
  <2> QED
    BY <1>1, <2>1, <2>2
<1>5. /\ LastGot \in Nat /\ LastGot' \in Nat
      /\ \A i \in 1..Len(received) : received[i] \in Nat /\ received[i] <= LastGot
      /\ \A i \in 1..Len(received') : received'[i] \in 1..n /\ received'[i] <= LastGot'
  <2>1. /\ LastGot' \in Nat
        /\ \A i \in 1..Len(received') : received'[i] \in Nat \ {0} /\ received'[i] <= LastGot'
    <3>1. CASE received' = <<>>
      BY <1>2, <3>1 DEF LastGot
    <3>2. CASE received' # <<>>
      <4>1. received' \in Seq(Messages)
        BY <1>1 DEF Typed
      <4>2. Len(received') \in 1..Len(received')
        BY <3>2, <4>1
      <4>3. LastGot' = received'[Len(received')]
        BY <3>2 DEF LastGot
      <4> QED
        BY <1>0, <1>2, <1>4, <4>2, <4>3 DEF Ascending
    <3> QED
      BY <3>1, <3>2
  <2> QED
    BY <1>1, <1>2, <1>4, <2>1, GotIs
\* What is new goes beyond what the client had, and what it had stays.
<1>6. /\ \A i \in 1..Len(received) : i \in 1..Len(received') /\ received'[i] = received[i]
      /\ \A i \in 1..Len(received') : ~(i \in 1..Len(received)) => received'[i] >= LastGot
  <2>1. CASE wire[1].type = "event"
    <3>1. PICK m \in Messages : wire[1] = Event(m)
      BY <1>2, <2>1, ItemsAre
    <3>2. /\ Len(received') = Len(received) + 1
          /\ \A i \in 1..Len(received) : received'[i] = received[i]
          /\ received'[Len(received) + 1] = m /\ LastGot' = m
      BY <1>1, <3>1, EventReceived, EventGot
    <3>3. LastGot <= m
      <4>1. CASE Len(received) = 0
        <5>1. received = <<>>
          BY <1>1, <4>1 DEF Typed
        <5> QED
          BY <5>1 DEF LastGot, Messages
      <4>2. CASE Len(received) > 0
        <5>1. /\ Len(received) \in 1..Len(received') /\ Len(received) + 1 \in 1..Len(received')
              /\ Len(received) < Len(received) + 1 /\ Len(received) \in 1..Len(received)
          BY <1>2, <3>2, <4>2
        <5>2. received'[Len(received)] <= received'[Len(received) + 1]
          BY <1>4, <5>1 DEF Ascending
        <5>3. received # <<>> /\ LastGot = received[Len(received)]
          BY <4>2 DEF LastGot
        <5> QED
          BY <3>2, <5>1, <5>2, <5>3
      <4> QED
        BY <1>2, <4>1, <4>2
    <3>4. \A i \in 1..Len(received') : i \in 1..Len(received) \/ i = Len(received) + 1
      BY <1>2, <3>2
    <3> QED
      BY <1>2, <3>2, <3>3, <3>4
  <2>2. CASE wire[1].type # "event" /\ received' = received
    BY <2>2
  <2>3. CASE wire[1].type # "event" /\ received' # received
    <3>1. PICK b \in Seq(Entry) : wire[1] = Answer(b)
      BY <1>2, <2>3, ItemsAre
    <3>2. protocol_version = "1.2"
      <4> SUFFICES ASSUME protocol_version = "1.1" PROVE FALSE
        BY <1>1
      <4>1. wire[1] = Answer(<<>>)
        <5>1. \A m : Event(m).type = "event"
          BY DEF Event
        <5>2. 1 \in 1..Len(wire)
          BY TakenOff, <1>1
        <5> QED
          BY <1>1, <2>3, <5>1, <5>2 DEF Pending
      <4>2. <<>> \in Seq(Entry) /\ Len(<<>>) = 0 /\ \A first : ~(first \in 1..Len(<<>>))
        OBVIOUS
      <4>3. received' = received
        BY <1>1, <4>1, <4>2, AnswerReceived, Zenon
      <4> QED
        BY <2>3, <4>3
    <3>3. Continues /\ LinkAgrees /\ Typed
      BY <1>1, <3>2 DEF Numbered
    <3>4. n - Len(wire) + 1 \in Nat
      <4>1. Len(wire) \in Nat \ {0}
        BY <1>1, TakenOff
      <4> QED
        BY <1>2, <3>3, <4>1 DEF Continues, Replays
    <3>5. PICK e \in Nat : e = n - Len(wire) + 1
      BY <3>4
    <3>6. PICK first \in 1..Len(b) :
              /\ LastGot <= e - Len(b) + first
              /\ Len(received') = Len(received) + Len(b) - first + 1
              /\ \A i \in 1..Len(received) : received'[i] = received[i]
              /\ \A i \in first..Len(b) : received'[Len(received) + i - first + 1] = e - Len(b) + i
      BY <2>3, <3>1, <3>3, <3>5, AnswerGot
    <3>7. ASSUME NEW k \in 1..Len(received'), ~(k \in 1..Len(received))
          PROVE  received'[k] >= LastGot
      <4> DEFINE i == k - Len(received) + first - 1
      <4>1. i \in first..Len(b) /\ Len(received) + i - first + 1 = k
        BY <1>2, <3>6, <3>7
      <4> HIDE DEF i
      <4>2. received'[k] = e - Len(b) + i
        BY <3>6, <4>1
      <4> QED
        BY <1>5, <3>6, <4>1, <4>2
    <3>8. \A i \in 1..Len(received) : i \in 1..Len(received')
      BY <1>2, <3>6
    <3> QED
      BY <3>6, <3>7, <3>8
  <2> QED
    BY <2>1, <2>2, <2>3
<1>7. ToSet(received) \subseteq ToSet(received') /\ ToSet(received') \subseteq 1..n
  BY <1>3, <1>5, <1>6
<1>8. \A new \in ToSet(received') \ ToSet(received), old \in ToSet(received) : new > old
  <2> SUFFICES ASSUME NEW new \in ToSet(received') \ ToSet(received), NEW old \in ToSet(received)
               PROVE  new > old
    OBVIOUS
  <2>1. PICK i \in 1..Len(received') : new = received'[i] /\ ~(i \in 1..Len(received))
    BY <1>3, <1>6
  <2>2. new >= LastGot /\ new \in Nat
    BY <1>5, <1>6, <2>1
  <2>3. old \in Nat /\ old <= LastGot /\ old # new
    BY <1>3, <1>5
  <2> QED
    BY <1>5, <2>2, <2>3
<1>9. ASSUME NEW missed \in (1..n) \ ToSet(received'), NEW m \in ToSet(received'), m > missed
      PROVE  missed \in NotKept
  <2>1. missed < LastGot' /\ \A i \in 1..Len(received') : received'[i] # missed
    BY <1>3, <1>5, <1>9
  <2>2. CASE protocol_version = "1.2"
    <3>1. missed <= n - Len(message_buffer)
      BY <1>1, <2>1, <2>2 DEF Numbered, Continues
    <3> QED
      BY <1>1, <2>2, <3>1, InRun
  <2>3. CASE protocol_version = "1.1"
    BY <1>1, <2>3, GotSet DEF NotKept
  <2> QED
    BY <1>1, <2>2, <2>3
<1>10. NotKept' = NotKept
  BY <1>1 DEF NotKept, InBuffer
<1>11. ToSet(received)' = ToSet(received')
  BY DEF ToSet
<1> QED
  BY <1>1, <1>7, <1>8, <1>9, <1>10, <1>11 DEF Delivery!Deliver

\* Nothing else is visible to MessageDelivery.
LEMMA OthersStutter ==
  ASSUME MessageInv, MessageInv', Disconnect \/ Relogin \/ TimerFires \/ Break \/ Tick \/ UNCHANGED vars
  PROVE  UNCHANGED <<Len(notified), ToSet(received), NotKept>>
<1>1. UNCHANGED <<notified, received, protocol_version>>
  BY DEF Disconnect, Relogin, TimerFires, Break, Tick, vars, serverVars, clientVars
<1>2. ToSet(received)' = ToSet(received) /\ Len(notified)' = Len(notified)
  BY <1>1 DEF ToSet
<1>3. CASE UNCHANGED message_buffer
  BY <1>1, <1>2, <1>3 DEF NotKept, InBuffer
<1>4. CASE Relogin
  <2>1. Typed /\ Typed' /\ Pending /\ protocol_version \in {"1.1", "1.2"}
    BY DEF MessageInv, Typed
  <2>2. CASE protocol_version = "1.1"
    BY <1>1, <1>2, <2>2 DEF NotKept
  <2>3. CASE protocol_version = "1.2"
    <3>1. /\ Len(message_buffer') = Len(message_buffer)
          /\ \A i \in 1..Len(message_buffer) : message_buffer'[i].data = message_buffer[i].data
      <4>1. Drained = <<>> /\ Len(<<>>) = 0
        BY <2>3 DEF Drained
      <4> QED
        BY <1>4, <2>1, <4>1, DataHandedOver, EntryIs
    <3>2. DOMAIN message_buffer = 1..Len(message_buffer) /\ DOMAIN message_buffer' = 1..Len(message_buffer')
      BY <2>1 DEF Typed
    <3>3. NotKept' = NotKept
      BY <1>1, <3>1, <3>2 DEF NotKept, InBuffer
    <3> QED
      BY <1>2, <3>3
  <2> QED
    BY <2>1, <2>2, <2>3
<1> QED
  BY <1>3, <1>4 DEF Disconnect, TimerFires, Break, Tick, vars, serverVars

\* The portal's numbers, buffer and replays implement MessageDelivery: across any number of
\* reconnections the client misses nothing that is still kept, and is sent nothing late.
THEOREM PortalDelivers == Spec => DeliversInOrder
<1>1. Init => Delivery!Init
  BY DEF Init, Delivery!Init, ToSet, NotKept, InBuffer
<1>2. MessageInv /\ MessageInv' /\ [Next]_vars
        => [Delivery!Next]_<<Len(notified), ToSet(received), NotKept>>
  <2> SUFFICES ASSUME MessageInv, MessageInv', [Next]_vars
               PROVE  [Delivery!Next]_<<Len(notified), ToSet(received), NotKept>>
    OBVIOUS
  <2>1. CASE SendMessage
    BY <2>1, SendImplements DEF Delivery!Next
  <2>2. CASE Receive
    BY <2>2, ReceiveImplements DEF Delivery!Next
  <2>3. CASE Disconnect \/ Relogin \/ TimerFires \/ Break \/ Tick \/ UNCHANGED vars
    BY <2>3, OthersStutter
  <2> QED
    BY <2>1, <2>2, <2>3 DEF Next
<1> QED
  BY <1>1, <1>2, MessagesAgree, PTL DEF Spec, DeliversInOrder, Delivery!Spec
=============================================================================
