----------------------------- MODULE DaemonProofs ---------------------------
(* The parts of one daemon process, each a specification of its own: the    *)
(* queues of the calls to Telegram (CallQueue), the loop and the bridge     *)
(* (DaemonLoop), the dashboard (Dashboard), what agents say (Replies).      *)
EXTENDS CallQueue, DaemonLoop, Dashboard, Replies, FiniteSetTheorems, TLAPS

(**************************************************************************)
(* The call queues.  The ring of stamps is the record of the last Limit   *)
(* attempts: its slots, from the oldest on, are the last ages of the      *)
(* attempts, and what has left the ring is as old as a window.  A queue   *)
(* that waits to make an attempt waits long enough for both limits.       *)
(**************************************************************************)
CallSpec == CallInit /\ [][CallNext]_callVars

QueuePc == {"idle", "pace", "calling", "backoff", "draining", "stopped"}
LaneType == [pc : QueuePc, jobs : Seq(Callers), job : Callers \cup {"none"}, try : Nat, wait : Nat,
             stamps : [1..Limit -> 0..Window], head : 0..(Limit - 1), count : 0..Limit]

Slot(head, k) == ((head + k - 1) % Limit) + 1

Ring(stamps, head, count, ages) ==
  /\ count = IF Len(ages) < Limit THEN Len(ages) ELSE Limit
  /\ \A k \in 1..count : stamps[Slot(head, k)] = ages[Len(ages) - count + k]
Rings(q, ages) == Ring(q.stamps, q.head, q.count, ages)

Covers(wait, ages) ==
  /\ Len(ages) > 0 /\ ages[Len(ages)] < Window => wait >= Gap - ages[Len(ages)]
  /\ Len(ages) >= Limit => wait >= Window - ages[Len(ages) - Limit + 1]

LaneInv(q, ages) == /\ Rings(q, ages) /\ Spaced(ages)
                    /\ q.pc = "pace" => Covers(q.wait, ages)
CallTypes == queue \in [Lanes -> LaneType] /\ recent \in [Lanes -> Seq(0..Window)]
RateInv == /\ CallTypes
           /\ \A l \in Lanes : LaneInv(queue[l], recent[l])

(* What the remainder is on the indices a ring computes. *)
LEMMA ModIs ==
  ASSUME NEW n \in Nat \ {0}, NEW a \in Nat, a < n + n
  PROVE  a % n = IF a < n THEN a ELSE a - n
  OBVIOUS

LEMMA Positive == Limit \in Nat \ {0} /\ Window \in Nat \ {0} /\ Gap \in Nat \ {0}
  BY CallAssumption

LEMMA FreshAge == 0 \in 0..Window
  BY Positive

LEMMA ElementsIn ==
  ASSUME NEW S, NEW s \in Seq(S)
  PROVE  DOMAIN s = 1..Len(s) /\ Len(s) \in Nat /\ \A i \in 1..Len(s) : s[i] \in S
  OBVIOUS

LEMMA UpdatedIn ==
  ASSUME NEW S, NEW T, NEW f \in [S -> T], NEW i, NEW x \in T
  PROVE  [f EXCEPT ![i] = x] \in [S -> T]
  OBVIOUS

LEMMA SlotIs ==
  ASSUME NEW head \in 0..(Limit - 1), NEW k \in 1..Limit
  PROVE  /\ Slot(head, k) \in 1..Limit
         /\ Slot(head, k) = IF head + k <= Limit THEN head + k ELSE head + k - Limit
<1>1. PICK a \in Nat : a = head + k - 1
  BY Positive
<1>2. a % Limit = IF a < Limit THEN a ELSE a - Limit
  BY <1>1, Positive, ModIs
<1> QED BY <1>1, <1>2, Positive DEF Slot

LEMMA FoldedDiffer ==
  ASSUME NEW n \in Nat \ {0}, NEW h \in 0..(n - 1), NEW i \in 1..n, NEW j \in 1..n, i # j
  PROVE  (IF h + i <= n THEN h + i ELSE h + i - n) # (IF h + j <= n THEN h + j ELSE h + j - n)
  OBVIOUS

LEMMA FoldedAfter ==
  ASSUME NEW n \in Nat \ {0}, NEW h \in 0..(n - 1), NEW i \in 1..n, i # n,
         NEW x, x = IF h + 1 < n THEN h + 1 ELSE 0
  PROVE  (IF x + i <= n THEN x + i ELSE x + i - n) = (IF h + (i + 1) <= n THEN h + (i + 1) ELSE h + (i + 1) - n)
  OBVIOUS

LEMMA SlotsDiffer ==
  ASSUME NEW head \in 0..(Limit - 1), NEW k \in 1..Limit, NEW m \in 1..Limit, k # m
  PROVE  Slot(head, k) # Slot(head, m)
<1>2. Slot(head, k) = IF head + k <= Limit THEN head + k ELSE head + k - Limit
  BY SlotIs
<1>3. Slot(head, m) = IF head + m <= Limit THEN head + m ELSE head + m - Limit
  BY SlotIs
<1> QED BY <1>2, <1>3, FoldedDiffer, Positive

LEMMA SlotAfter ==
  ASSUME NEW head \in 0..(Limit - 1), NEW next \in 0..(Limit - 1), NEW k \in 1..Limit, NEW m \in 1..Limit,
         next = IF head + 1 < Limit THEN head + 1 ELSE 0, m = k + 1
  PROVE  Slot(next, k) = Slot(head, m)
<1>2. Slot(next, k) = IF next + k <= Limit THEN next + k ELSE next + k - Limit
  BY SlotIs
<1>3. Slot(head, m) = IF head + m <= Limit THEN head + m ELSE head + m - Limit
  BY SlotIs
<1>4. k # Limit
  BY Positive
<1> QED BY <1>2, <1>3, <1>4, FoldedAfter, Positive

(* stamp: the ring is that of the attempts with the new one. *)
LEMMA Fills ==
  ASSUME NEW stamps \in [1..Limit -> 0..Window], NEW head \in 0..(Limit - 1), NEW count \in 0..Limit,
         NEW ages \in Seq(0..Window), Ring(stamps, head, count, ages), count < Limit
  PROVE  Ring([stamps EXCEPT ![Slot(head, count + 1)] = 0], head, count + 1, Append(ages, 0))
<1>0. Append(ages, 0) \in Seq(0..Window)
  BY Positive
<1>1. PICK more \in Seq(0..Window) : more = Append(ages, 0)
  BY <1>0
<1>2. Len(ages) \in Nat /\ count = Len(ages)
  BY Positive DEF Ring
<1>3. Len(more) = count + 1 /\ more[count + 1] = 0 /\ \A i \in 1..count : more[i] = ages[i]
  BY <1>1, <1>2
<1>a. [stamps EXCEPT ![Slot(head, count + 1)] = 0] \in [1..Limit -> 0..Window]
  BY UpdatedIn, FreshAge
<1>4. PICK new \in [1..Limit -> 0..Window] : new = [stamps EXCEPT ![Slot(head, count + 1)] = 0]
  BY <1>a
<1>5. ASSUME NEW k \in 1..(count + 1) PROVE new[Slot(head, k)] = more[k]
  <2>1. k \in 1..Limit /\ count + 1 \in 1..Limit
    BY Positive
  <2>2. Slot(head, k) \in 1..Limit /\ Slot(head, count + 1) \in 1..Limit
    BY <2>1, SlotIs
  <2>3. CASE k = count + 1
    BY <2>2, <2>3, <1>3, <1>4
  <2>4. CASE k # count + 1
    <3>1. k \in 1..count
      BY <2>4
    <3>2. Slot(head, k) # Slot(head, count + 1)
      BY <2>1, <2>4, SlotsDiffer
    <3>3. stamps[Slot(head, k)] = ages[k]
      BY <3>1, <1>2 DEF Ring
    <3> QED BY <3>1, <3>2, <3>3, <2>2, <1>3, <1>4
  <2> QED BY <2>3, <2>4
<1>6. Ring(new, head, count + 1, more)
  <2>1. count + 1 = IF Len(more) < Limit THEN Len(more) ELSE Limit
    BY <1>3, Positive
  <2>2. ASSUME NEW k \in 1..(count + 1) PROVE new[Slot(head, k)] = more[Len(more) - (count + 1) + k]
    <3>1. Len(more) - (count + 1) + k = k
      BY <1>2, <1>3
    <3> QED BY <3>1, <1>5
  <2> QED BY <2>1, <2>2 DEF Ring
<1> QED BY <1>1, <1>4, <1>6

LEMMA Turns ==
  ASSUME NEW stamps \in [1..Limit -> 0..Window], NEW head \in 0..(Limit - 1),
         NEW ages \in Seq(0..Window), Ring(stamps, head, Limit, ages)
  PROVE  Ring([stamps EXCEPT ![head + 1] = 0], (head + 1) % Limit, Limit, Append(ages, 0))
<1>0. Append(ages, 0) \in Seq(0..Window)
  BY Positive
<1>1. PICK more \in Seq(0..Window) : more = Append(ages, 0)
  BY <1>0
<1>2. PICK n \in Nat : n = Len(ages) /\ n >= Limit
  BY Positive DEF Ring
<1>3. Len(more) = n + 1 /\ more[n + 1] = 0 /\ \A i \in 1..n : more[i] = ages[i]
  BY <1>1, <1>2
<1>a. [stamps EXCEPT ![head + 1] = 0] \in [1..Limit -> 0..Window]
  BY Positive
<1>4. PICK new \in [1..Limit -> 0..Window] : new = [stamps EXCEPT ![head + 1] = 0]
  BY <1>a
<1>b. PICK a \in Nat : a = head + 1 /\ a < Limit + Limit
  BY Positive
<1>c. a % Limit = IF a < Limit THEN a ELSE a - Limit
  BY <1>b, ModIs, Positive
<1>d. a % Limit \in 0..(Limit - 1)
  BY Positive
<1>5. PICK next \in 0..(Limit - 1) : next = (head + 1) % Limit /\ next = IF head + 1 < Limit THEN head + 1 ELSE 0
  BY <1>b, <1>c, <1>d, Positive, SMTT(60)
<1>6. ASSUME NEW k \in 1..Limit PROVE new[Slot(next, k)] = more[n + 1 - Limit + k]
  <2>1. Slot(next, k) = IF next + k <= Limit THEN next + k ELSE next + k - Limit
    BY SlotIs
  <2>2. CASE k = Limit
    <3>1. Slot(next, k) = head + 1
      BY <2>1, <2>2, <1>5, Positive, SMTT(60)
    <3> QED BY <3>1, <2>2, <1>2, <1>3, <1>4, Positive
  <2>3. CASE k # Limit
    <3>1. k + 1 \in 1..Limit
      BY <2>3, Positive
    <3>a. PICK m \in 1..Limit : m = k + 1
      BY <3>1
    <3>b. Slot(head, m) \in 1..Limit
      BY SlotIs
    <3>2. PICK s \in 1..Limit : s = Slot(head, k + 1)
      BY <3>a, <3>b
    <3>c. 1 \in 1..Limit /\ m # 1
      BY <3>a, Positive
    <3>d. Slot(head, 1) = head + 1 /\ Slot(head, m) # Slot(head, 1)
      BY <3>c, SlotIs, SlotsDiffer, Positive
    <3>3. Slot(next, k) = s /\ s # head + 1
      BY <3>a, <3>2, <3>d, <1>5, SlotAfter
    <3>4. stamps[s] = ages[n - Limit + (k + 1)]
      BY <3>1, <3>2, <1>2 DEF Ring
    <3>e. n - Limit + (k + 1) \in 1..n
      BY <3>1, <1>2, Positive
    <3>5. PICK i \in 1..n : i = n - Limit + (k + 1)
      BY <3>e
    <3>6. i = n + 1 - Limit + k
      BY <3>5, <1>2, Positive
    <3>7. new[s] = more[i]
      BY <3>3, <3>4, <3>5, <1>3, <1>4
    <3> QED BY <3>3, <3>6, <3>7
  <2> QED BY <2>2, <2>3
<1>7. Ring(new, next, Limit, more)
  BY <1>2, <1>3, <1>6, Positive DEF Ring
<1> QED BY <1>1, <1>4, <1>5, <1>7

LEMMA StampedIs ==
  ASSUME NEW q \in LaneType, NEW ages \in Seq(0..Window), Rings(q, ages)
  PROVE  /\ Stamped(q) \in LaneType /\ Stamped(q).pc = q.pc /\ Stamped(q).wait = q.wait
         /\ Rings(Stamped(q), Append(ages, 0))
<1>1. PICK stamps \in [1..Limit -> 0..Window], head \in 0..(Limit - 1), count \in 0..Limit :
        stamps = q.stamps /\ head = q.head /\ count = q.count
  BY DEF LaneType
<1>2. Ring(stamps, head, count, ages)
  BY <1>1 DEF Rings
<1>3. CASE count = Limit
  <2>a. [stamps EXCEPT ![head + 1] = 0] \in [1..Limit -> 0..Window] /\ (head + 1) % Limit \in 0..(Limit - 1)
    BY Positive
  <2>1. PICK new \in [1..Limit -> 0..Window] : new = [stamps EXCEPT ![head + 1] = 0]
    BY <2>a
  <2>2. PICK next \in 0..(Limit - 1) : next = (head + 1) % Limit
    BY <2>a
  <2>3. Stamped(q) = [q EXCEPT !.stamps = new, !.head = next]
    BY <1>1, <1>3, <2>1, <2>2 DEF Stamped, Full
  <2>4. Stamped(q) \in LaneType
    BY <2>3 DEF LaneType
  <2>5. /\ Stamped(q).pc = q.pc /\ Stamped(q).wait = q.wait
        /\ Stamped(q).stamps = new /\ Stamped(q).head = next /\ Stamped(q).count = q.count
    BY <2>3 DEF LaneType
  <2>6. Ring(new, next, Limit, Append(ages, 0))
    BY <1>2, <1>3, <2>1, <2>2, Turns
  <2> QED BY <1>1, <1>3, <2>4, <2>5, <2>6 DEF Rings
<1>4. CASE count # Limit
  <2>1. count < Limit /\ count + 1 \in 0..Limit
    BY <1>4, Positive
  <2>a. [stamps EXCEPT ![Slot(head, count + 1)] = 0] \in [1..Limit -> 0..Window]
    BY UpdatedIn, FreshAge
  <2>2. PICK new \in [1..Limit -> 0..Window] : new = [stamps EXCEPT ![Slot(head, count + 1)] = 0]
    BY <2>a
  <2>3. ((head + count) % Limit) + 1 = Slot(head, count + 1)
    BY Positive DEF Slot
  <2>4. Stamped(q) = [q EXCEPT !.stamps = new, !.count = count + 1]
    BY <1>1, <1>4, <2>2, <2>3 DEF Stamped, Full
  <2>5. Stamped(q) \in LaneType
    BY <2>1, <2>4 DEF LaneType
  <2>6. /\ Stamped(q).pc = q.pc /\ Stamped(q).wait = q.wait
        /\ Stamped(q).stamps = new /\ Stamped(q).head = q.head /\ Stamped(q).count = count + 1
    BY <2>1, <2>4 DEF LaneType
  <2>7. Ring(new, head, count + 1, Append(ages, 0))
    BY <1>2, <2>1, <2>2, Fills
  <2> QED BY <1>1, <2>5, <2>6, <2>7 DEF Rings
<1> QED BY <1>3, <1>4

(* A tick ages the ring and the attempts alike. *)
LEMMA AgedIs ==
  ASSUME NEW ages \in Seq(0..Window)
  PROVE  /\ Aged(ages) \in Seq(0..Window) /\ Len(Aged(ages)) = Len(ages)
         /\ \A i \in 1..Len(ages) : Aged(ages)[i] = IF ages[i] < Window THEN ages[i] + 1 ELSE Window
<1>1. Window \in Nat
  BY CallAssumption
<1>2. PICK n \in Nat : n = Len(ages)
  OBVIOUS
<1>3. DOMAIN ages = 1..n /\ \A i \in 1..n : ages[i] \in 0..Window
  BY <1>2, ElementsIn
<1>4. Aged(ages) = [i \in 1..n |-> Min2(ages[i] + 1, Window)]
  BY <1>3 DEF Aged
<1>5. \A i \in 1..n : Min2(ages[i] + 1, Window) = (IF ages[i] < Window THEN ages[i] + 1 ELSE Window)
                      /\ Min2(ages[i] + 1, Window) \in 0..Window
  BY <1>1, <1>3 DEF Min2
<1>6. Aged(ages) \in Seq(0..Window) /\ Len(Aged(ages)) = n
  BY <1>4, <1>5
<1> QED BY <1>2, <1>4, <1>5, <1>6

LEMMA WaitedIs ==
  ASSUME NEW q \in LaneType
  PROVE  /\ Waited(q) \in LaneType
         /\ Waited(q).pc = q.pc /\ Waited(q).head = q.head /\ Waited(q).count = q.count
         /\ Waited(q).wait = IF q.wait > 0 THEN q.wait - 1 ELSE 0
         /\ \A i \in 1..Limit : Waited(q).stamps[i] = IF q.stamps[i] < Window THEN q.stamps[i] + 1 ELSE Window
<1>1. Limit \in Nat /\ Window \in Nat /\ q.wait \in Nat /\ q.stamps \in [1..Limit -> 0..Window]
  BY CallAssumption DEF LaneType
<1>2. PICK s : s = Aged(q.stamps)
  OBVIOUS
<1>3. s = [i \in 1..Limit |-> Min2(q.stamps[i] + 1, Window)]
  BY <1>1, <1>2 DEF Aged
<1>4. \A i \in 1..Limit : Min2(q.stamps[i] + 1, Window) = (IF q.stamps[i] < Window THEN q.stamps[i] + 1 ELSE Window)
                          /\ Min2(q.stamps[i] + 1, Window) \in 0..Window
  BY <1>1 DEF Min2
<1>5. s \in [1..Limit -> 0..Window]
      /\ \A i \in 1..Limit : s[i] = IF q.stamps[i] < Window THEN q.stamps[i] + 1 ELSE Window
  BY <1>3, <1>4
<1>6. PICK w \in Nat : w = Max2(0, q.wait - 1) /\ w = IF q.wait > 0 THEN q.wait - 1 ELSE 0
  BY <1>1 DEF Max2
<1>7. Waited(q) = [q EXCEPT !.wait = w, !.stamps = s]
  BY <1>2, <1>6 DEF Waited
<1>8. Waited(q) \in LaneType
  BY <1>5, <1>7 DEF LaneType
<1>9. /\ Waited(q).pc = q.pc /\ Waited(q).head = q.head /\ Waited(q).count = q.count
      /\ Waited(q).wait = w /\ Waited(q).stamps = s
  BY <1>5, <1>7 DEF LaneType
<1> QED BY <1>5, <1>6, <1>8, <1>9

LEMMA RingAges ==
  ASSUME NEW q \in LaneType, NEW ages \in Seq(0..Window), Rings(q, ages)
  PROVE  Rings(Waited(q), Aged(ages))
<1>1. PICK p \in LaneType : p = Waited(q)
  BY WaitedIs
<1>2. PICK old \in Seq(0..Window) : old = Aged(ages)
  BY AgedIs
<1>3. /\ p.head = q.head /\ p.count = q.count
      /\ \A i \in 1..Limit : p.stamps[i] = IF q.stamps[i] < Window THEN q.stamps[i] + 1 ELSE Window
  BY <1>1, WaitedIs
<1>4. PICK n \in Nat : n = Len(ages)
  BY ElementsIn
<1>5. Len(old) = n /\ \A i \in 1..n : old[i] = IF ages[i] < Window THEN ages[i] + 1 ELSE Window
  BY <1>2, <1>4, AgedIs
<1>6. PICK head \in 0..(Limit - 1), count \in 0..Limit : head = q.head /\ count = q.count
  BY DEF LaneType
<1>7. count = (IF n < Limit THEN n ELSE Limit) /\ \A k \in 1..count : q.stamps[Slot(head, k)] = ages[n - count + k]
  BY <1>4, <1>6 DEF Rings, Ring
<1>8. ASSUME NEW k \in 1..count PROVE p.stamps[Slot(head, k)] = old[n - count + k]
  <2>1. k \in 1..Limit
    BY Positive
  <2>2. PICK s \in 1..Limit : s = Slot(head, k)
    BY <2>1, SlotIs
  <2>3. n - count + k \in 1..n
    BY <1>7, Positive
  <2>4. PICK i \in 1..n : i = n - count + k
    BY <2>3
  <2>5. q.stamps[s] = ages[i]
    BY <1>7, <2>2, <2>4
  <2>6. p.stamps[s] = old[i]
    BY <1>3, <1>5, <2>5
  <2> QED BY <2>2, <2>4, <2>6
<1>9. Ring(p.stamps, head, count, old)
  BY <1>5, <1>7, <1>8 DEF Ring
<1> QED BY <1>1, <1>2, <1>3, <1>6, <1>9 DEF Rings

(* What pace sleeps covers both limits. *)
LEMMA PaceCovers ==
  ASSUME NEW q \in LaneType, NEW ages \in Seq(0..Window), Rings(q, ages)
  PROVE  PaceWait(q) \in Nat /\ Covers(PaceWait(q), ages)
<1>1. PICK stamps \in [1..Limit -> 0..Window], head \in 0..(Limit - 1), count \in 0..Limit :
        stamps = q.stamps /\ head = q.head /\ count = q.count
  BY DEF LaneType
<1>2. PICK n \in Nat : n = Len(ages)
  BY ElementsIn
<1>3. count = (IF n < Limit THEN n ELSE Limit) /\ \A k \in 1..count : stamps[Slot(head, k)] = ages[n - count + k]
  BY <1>1, <1>2 DEF Rings, Ring
<1>4. ASSUME count > 0 PROVE Newest(q) = ages[n] /\ ages[n] \in 0..Window
  <2>1. count \in 1..count /\ n \in 1..n
    BY <1>3, <1>4, Positive
  <2>2. stamps[Slot(head, count)] = ages[n - count + count]
    BY <1>3, <2>1
  <2>3. n - count + count = n
    BY <1>3, Positive
  <2> QED BY <1>1, <1>2, <2>1, <2>2, <2>3, ElementsIn DEF Newest, Slot
<1>5. ASSUME count = Limit PROVE Oldest(q) = ages[n - Limit + 1] /\ ages[n - Limit + 1] \in 0..Window
  <2>1. 1 \in 1..count /\ 1 \in 1..Limit /\ n - Limit + 1 \in 1..n
    BY <1>3, <1>5, Positive
  <2>2. stamps[Slot(head, 1)] = ages[n - Limit + 1]
    BY <1>3, <1>5, <2>1
  <2>3. Slot(head, 1) = head + 1
    BY <2>1, SlotIs, Positive
  <2> QED BY <1>1, <1>2, <2>1, <2>2, <2>3, ElementsIn DEF Oldest
<1>6. PICK gap \in Nat : /\ gap = IF q.count > 0 THEN Max2(0, Gap - Newest(q)) ELSE 0
                         /\ count > 0 => gap >= Gap - ages[n]
  <2>1. CASE count > 0
    <3>1. PICK a \in 0..Window : a = Newest(q) /\ a = ages[n]
      BY <2>1, <1>4
    <3>2. Max2(0, Gap - a) \in Nat /\ Max2(0, Gap - a) >= Gap - a
      BY Positive DEF Max2
    <3> QED BY <2>1, <3>1, <3>2, <1>1
  <2>2. CASE ~(count > 0)
    BY <2>2, <1>1
  <2> QED BY <2>1, <2>2
<1>7. PICK room \in Nat : /\ room = IF Full(q) THEN Max2(0, Window - Oldest(q)) ELSE 0
                          /\ count = Limit => room >= Window - ages[n - Limit + 1]
  <2>1. CASE count = Limit
    <3>1. PICK a \in 0..Window : a = Oldest(q) /\ a = ages[n - Limit + 1]
      BY <2>1, <1>5
    <3>2. Max2(0, Window - a) \in Nat /\ Max2(0, Window - a) >= Window - a
      BY Positive DEF Max2
    <3> QED BY <2>1, <3>1, <3>2, <1>1 DEF Full
  <2>2. CASE count # Limit
    BY <2>2, <1>1 DEF Full
  <2> QED BY <2>1, <2>2
<1>8. PICK wait \in Nat : wait = PaceWait(q) /\ wait >= gap /\ wait >= room
  BY <1>6, <1>7 DEF PaceWait, Max2
<1>9. n > 0 => wait >= Gap - ages[n]
  BY <1>3, <1>4, <1>6, <1>8, Positive, SMTT(60)
<1>10. n >= Limit => wait >= Window - ages[n - Limit + 1]
  BY <1>3, <1>5, <1>7, <1>8, Positive, SMTT(60)
<1> QED BY <1>2, <1>8, <1>9, <1>10 DEF Covers

LEMMA OlderWaits ==
  ASSUME NEW w \in Nat, NEW wait \in Nat, NEW a \in 0..w, wait >= w - a
  PROVE  (IF wait > 0 THEN wait - 1 ELSE 0) >= w - (IF a < w THEN a + 1 ELSE w)
  OBVIOUS

LEMMA OlderSpaced ==
  ASSUME NEW w \in Nat, NEW g \in Nat, NEW a \in 0..w, NEW b \in 0..w, a < w, a - b >= g
  PROVE  (IF a < w THEN a + 1 ELSE w) - (IF b < w THEN b + 1 ELSE w) >= g
  OBVIOUS

LEMMA CoversAges ==
  ASSUME NEW wait \in Nat, NEW ages \in Seq(0..Window), Covers(wait, ages)
  PROVE  Covers(IF wait > 0 THEN wait - 1 ELSE 0, Aged(ages))
<1>1. PICK old \in Seq(0..Window) : old = Aged(ages)
  BY AgedIs
<1>2. PICK n \in Nat : n = Len(ages)
  BY ElementsIn
<1>3. Len(old) = n /\ \A i \in 1..n : old[i] = (IF ages[i] < Window THEN ages[i] + 1 ELSE Window) /\ ages[i] \in 0..Window
  BY <1>1, <1>2, AgedIs, ElementsIn
<1>4. PICK less \in Nat : less = IF wait > 0 THEN wait - 1 ELSE 0
  OBVIOUS
<1>5. ASSUME n > 0, old[n] < Window PROVE less >= Gap - old[n]
  <2>1. n \in 1..n
    BY <1>5
  <2>2. ages[n] < Window => wait >= Gap - ages[n]
    BY <1>2, <1>5 DEF Covers
  <2> QED BY <1>3, <1>4, <1>5, <2>1, <2>2, Positive, SMTT(60)
<1>6. ASSUME n >= Limit PROVE less >= Window - old[n - Limit + 1]
  <2>1. PICK i \in 1..n : i = n - Limit + 1
    <3>1. n - Limit + 1 \in 1..n
      BY <1>6, Positive
    <3> QED BY <3>1
  <2>2. wait >= Window - ages[i]
    BY <1>2, <1>6, <2>1 DEF Covers
  <2>3. PICK a \in 0..Window : a = ages[i] /\ old[i] = IF a < Window THEN a + 1 ELSE Window
    BY <1>3
  <2>4. less >= Window - old[i]
    BY <1>4, <2>2, <2>3, OlderWaits, Positive
  <2> QED BY <2>1, <2>4
<1> QED BY <1>1, <1>3, <1>4, <1>5, <1>6 DEF Covers

(* Both limits hold of the attempts with the new one, and as they age. *)
LEMMA SpacedAppends ==
  ASSUME NEW ages \in Seq(0..Window), Spaced(ages), Covers(0, ages)
  PROVE  Spaced(Append(ages, 0))
<1>1. Append(ages, 0) \in Seq(0..Window)
  BY FreshAge
<1>2. PICK more \in Seq(0..Window) : more = Append(ages, 0)
  BY <1>1
<1>3. PICK n \in Nat : n = Len(ages)
  BY ElementsIn
<1>4. Len(more) = n + 1 /\ more[n + 1] = 0 /\ \A i \in 1..n : more[i] = ages[i]
  BY <1>2, <1>3
<1>5. \A i \in 1..n : ages[i] \in 0..Window
  BY <1>3, ElementsIn
<1>6. ASSUME NEW i \in 1..(n + 1), i < n + 1, more[i] < Window PROVE more[i] - more[i + 1] >= Gap
  <2>1. i \in 1..n
    BY <1>6
  <2>2. CASE i = n
    <3>1. 0 >= Gap - ages[n]
      BY <2>1, <2>2, <1>3, <1>4, <1>6 DEF Covers
    <3> QED BY <3>1, <2>1, <2>2, <1>4, <1>5, Positive
  <2>3. CASE i # n
    <3>1. i + 1 \in 1..n /\ i < n
      BY <2>1, <2>3
    <3>2. ages[i] - ages[i + 1] >= Gap
      BY <2>1, <3>1, <1>3, <1>4, <1>6 DEF Spaced
    <3> QED BY <2>1, <3>1, <3>2, <1>4
  <2> QED BY <2>2, <2>3
<1>7. ASSUME NEW i \in 1..(n + 1), i + Limit <= n + 1 PROVE more[i] = Window
  <2>1. i \in 1..n
    BY <1>7, Positive
  <2>2. CASE i + Limit <= n
    BY <2>1, <2>2, <1>3, <1>4 DEF Spaced
  <2>3. CASE ~(i + Limit <= n)
    <3>1. i = n - Limit + 1 /\ n >= Limit
      BY <2>1, <2>3, <1>7, Positive
    <3>2. 0 >= Window - ages[i]
      BY <3>1, <1>3 DEF Covers
    <3> QED BY <3>2, <2>1, <1>4, <1>5, Positive
  <2> QED BY <2>2, <2>3
<1> QED BY <1>2, <1>4, <1>6, <1>7 DEF Spaced

LEMMA SpacedAges ==
  ASSUME NEW ages \in Seq(0..Window), Spaced(ages)
  PROVE  Spaced(Aged(ages))
<1>1. PICK old \in Seq(0..Window) : old = Aged(ages)
  BY AgedIs
<1>2. PICK n \in Nat : n = Len(ages)
  BY ElementsIn
<1>3. Len(old) = n /\ \A i \in 1..n : old[i] = (IF ages[i] < Window THEN ages[i] + 1 ELSE Window) /\ ages[i] \in 0..Window
  BY <1>1, <1>2, AgedIs, ElementsIn
<1>4. ASSUME NEW i \in 1..n, i < n, old[i] < Window PROVE old[i] - old[i + 1] >= Gap
  <2>1. i + 1 \in 1..n
    BY <1>4
  <2>2. ages[i] < Window
    BY <1>3, <1>4, Positive
  <2>3. ages[i] - ages[i + 1] >= Gap
    BY <2>2, <1>2, <1>4 DEF Spaced
  <2>4. PICK a \in 0..Window, b \in 0..Window :
          /\ a = ages[i] /\ old[i] = IF a < Window THEN a + 1 ELSE Window
          /\ b = ages[i + 1] /\ old[i + 1] = IF b < Window THEN b + 1 ELSE Window
    BY <2>1, <1>3
  <2> QED BY <2>2, <2>3, <2>4, OlderSpaced, Positive
<1>5. ASSUME NEW i \in 1..n, i + Limit <= n PROVE old[i] = Window
  <2>1. ages[i] = Window
    BY <1>2, <1>5 DEF Spaced
  <2> QED BY <2>1, <1>3, Positive
<1> QED BY <1>1, <1>3, <1>4, <1>5 DEF Spaced

------------------------------------------------------------------------------
(* One step of one lane that makes no attempt, and the steps of the queues. *)
LEMMA SameRing ==
  ASSUME NEW q, NEW p, NEW ages, LaneInv(q, ages),
         p.stamps = q.stamps, p.head = q.head, p.count = q.count, p.pc = "pace" => Covers(p.wait, ages)
  PROVE  LaneInv(p, ages)
  BY DEF LaneInv, Rings

LEMMA OneLane ==
  ASSUME RateInv, NEW l \in Lanes, NEW q \in LaneType, queue' = [queue EXCEPT ![l] = q],
         LaneInv(q, recent[l]), UNCHANGED recent
  PROVE  RateInv'
<1>1. queue' \in [Lanes -> LaneType] /\ recent' \in [Lanes -> Seq(0..Window)]
  BY DEF RateInv, CallTypes
<1>2. ASSUME NEW x \in Lanes PROVE LaneInv(queue'[x], recent'[x])
  BY DEF RateInv, CallTypes
<1> QED BY <1>1, <1>2 DEF RateInv, CallTypes

LEMMA LaneHas ==
  ASSUME RateInv, NEW l \in Lanes
  PROVE  queue[l] \in LaneType /\ recent[l] \in Seq(0..Window) /\ LaneInv(queue[l], recent[l])
  BY DEF RateInv, CallTypes

LEMMA HeadTail ==
  ASSUME NEW S, NEW s \in Seq(S), s # <<>>
  PROVE  Head(s) \in S /\ Tail(s) \in Seq(S)
  OBVIOUS

LEMMA EnqueueKeeps ==
  ASSUME RateInv, NEW c \in Callers, Enqueue(c)
  PROVE  RateInv'
<1>1. UNCHANGED recent
  BY DEF Enqueue
<1>2. CASE UNCHANGED queue
  BY <1>1, <1>2 DEF RateInv, CallTypes
<1>3. PICK l : l = call[c].op.lane
  OBVIOUS
<1>4. CASE queue' = [queue EXCEPT ![l].jobs = Append(@, c)]
  <2>1. CASE l \in Lanes
    <3>1. PICK q : q = [queue[l] EXCEPT !.jobs = Append(@, c)]
      OBVIOUS
    <3>2. queue[l] \in LaneType /\ Append(queue[l].jobs, c) \in Seq(Callers)
      BY <2>1, LaneHas DEF LaneType
    <3>3. q \in LaneType /\ q.stamps = queue[l].stamps /\ q.head = queue[l].head /\ q.count = queue[l].count
          /\ q.pc = queue[l].pc /\ q.wait = queue[l].wait
      BY <3>1, <3>2 DEF LaneType
    <3>4. LaneInv(q, recent[l])
      BY <2>1, <3>3, LaneHas, SameRing DEF LaneInv
    <3> QED BY <1>1, <1>4, <2>1, <3>1, <3>3, <3>4, OneLane
  <2>2. CASE l \notin Lanes
    <3>1. queue' = queue
      BY <1>4, <2>2 DEF RateInv, CallTypes
    <3> QED BY <1>2, <3>1
  <2> QED BY <2>1, <2>2
<1> QED BY <1>2, <1>3, <1>4 DEF Enqueue

LEMMA TakeKeeps ==
  ASSUME RateInv, NEW l \in Lanes, Take(l)
  PROVE  RateInv'
<1>1. UNCHANGED recent /\ queue[l].jobs # <<>>
  BY DEF Take
<1>2. queue[l] \in LaneType /\ recent[l] \in Seq(0..Window) /\ LaneInv(queue[l], recent[l])
  BY LaneHas
<1>3. queue[l].jobs \in Seq(Callers)
  BY <1>2 DEF LaneType
<1>4. PICK c \in Callers, rest \in Seq(Callers) : c = Head(queue[l].jobs) /\ rest = Tail(queue[l].jobs)
  BY <1>1, <1>3, HeadTail
<1>5. CASE queue' = [queue EXCEPT ![l].jobs = Tail(@)]
  <2>1. PICK q : q = [queue[l] EXCEPT !.jobs = rest]
    OBVIOUS
  <2>2. q \in LaneType /\ q.stamps = queue[l].stamps /\ q.head = queue[l].head /\ q.count = queue[l].count
        /\ q.pc = queue[l].pc /\ q.wait = queue[l].wait
    BY <1>2, <2>1 DEF LaneType
  <2>3. LaneInv(q, recent[l])
    BY <1>2, <2>2, SameRing DEF LaneInv
  <2>4. queue' = [queue EXCEPT ![l] = q]
    BY <1>4, <1>5, <2>1
  <2> QED BY <1>1, <2>2, <2>3, <2>4, OneLane
<1>6. CASE queue' = [queue EXCEPT ![l] = FirstTry(@)]
  <2>1. PICK wait \in Nat : wait = PaceWait(queue[l]) /\ Covers(wait, recent[l])
    BY <1>2, PaceCovers DEF LaneInv
  <2>a. PICK q : q = FirstTry(queue[l])
    OBVIOUS
  <2>2. q = [queue[l] EXCEPT !.jobs = rest, !.job = c, !.pc = "pace", !.try = 1, !.wait = wait]
    BY <1>4, <2>1, <2>a DEF FirstTry
  <2>3. q \in LaneType
    BY <1>2, <2>2 DEF LaneType, QueuePc
  <2>4. q.stamps = queue[l].stamps /\ q.head = queue[l].head /\ q.count = queue[l].count /\ q.wait = wait
    BY <1>2, <2>2 DEF LaneType
  <2>5. LaneInv(q, recent[l])
    BY <1>2, <2>1, <2>4, SameRing
  <2>6. queue' = [queue EXCEPT ![l] = q]
    BY <1>6, <2>a
  <2> QED BY <1>1, <2>3, <2>5, <2>6, OneLane
<1> QED BY <1>4, <1>5, <1>6 DEF Take

LEMMA EndsKeeps ==
  ASSUME RateInv, NEW l \in Lanes, NEW res, Ends(l, res), UNCHANGED recent
  PROVE  RateInv'
<1>1. queue[l] \in LaneType /\ LaneInv(queue[l], recent[l])
  BY LaneHas
<1>2. PICK pc \in {"idle", "draining"} : pc = IF stopping THEN "draining" ELSE "idle"
  OBVIOUS
<1>3. PICK q : q = [queue[l] EXCEPT !.pc = pc, !.job = "none"]
  OBVIOUS
<1>4. q \in LaneType
  BY <1>1, <1>3 DEF LaneType, QueuePc
<1>5. q.stamps = queue[l].stamps /\ q.head = queue[l].head /\ q.count = queue[l].count /\ q.pc = pc
  BY <1>1, <1>3 DEF LaneType
<1>6. q.pc # "pace"
  BY <1>2, <1>5
<1>7. LaneInv(q, recent[l])
  BY <1>1, <1>5, <1>6, SameRing
<1>8. queue' = [queue EXCEPT ![l] = q]
  BY <1>2, <1>3 DEF Ends
<1> QED BY <1>4, <1>7, <1>8, OneLane

LEMMA AnsweredKeeps ==
  ASSUME RateInv, NEW l \in Lanes, NEW a, Answered(l, a)
  PROVE  RateInv'
<1>1. UNCHANGED recent
  BY DEF Answered
<1>2. CASE queue' = [queue EXCEPT ![l] = [@ EXCEPT !.pc = "backoff", !.wait = Gap]]
  <2>1. queue[l] \in LaneType /\ LaneInv(queue[l], recent[l])
    BY LaneHas
  <2>2. PICK q : q = [queue[l] EXCEPT !.pc = "backoff", !.wait = Gap]
    OBVIOUS
  <2>3. q \in LaneType
    BY <2>1, <2>2, Positive DEF LaneType, QueuePc
  <2>4. q.stamps = queue[l].stamps /\ q.head = queue[l].head /\ q.count = queue[l].count /\ q.pc = "backoff"
    BY <2>1, <2>2 DEF LaneType
  <2>5. LaneInv(q, recent[l])
    BY <2>1, <2>4, SameRing
  <2>6. queue' = [queue EXCEPT ![l] = q]
    BY <1>2, <2>2
  <2> QED BY <1>1, <2>3, <2>5, <2>6, OneLane
<1>3. (\E res : Ends(l, res)) \/ queue' = [queue EXCEPT ![l] = [@ EXCEPT !.pc = "backoff", !.wait = Gap]]
  BY DEF Answered
<1> QED BY <1>1, <1>2, <1>3, EndsKeeps

LEMMA TriesAgainKeeps ==
  ASSUME RateInv, NEW l \in Lanes, TriesAgain(l)
  PROVE  RateInv'
<1>1. queue[l] \in LaneType /\ recent[l] \in Seq(0..Window) /\ LaneInv(queue[l], recent[l])
  BY LaneHas
<1>2. PICK wait \in Nat : wait = PaceWait(queue[l]) /\ Covers(wait, recent[l])
  BY <1>1, PaceCovers DEF LaneInv
<1>a. PICK q : q = NextTry(queue[l])
  OBVIOUS
<1>b. PICK try \in Nat : try = queue[l].try
  BY <1>1 DEF LaneType
<1>c. try + 1 \in Nat
  OBVIOUS
<1>3. q = [queue[l] EXCEPT !.pc = "pace", !.try = try + 1, !.wait = wait]
  BY <1>2, <1>a, <1>b DEF NextTry
<1>4. q \in LaneType
  BY <1>1, <1>3, <1>c DEF LaneType, QueuePc
<1>5. q.stamps = queue[l].stamps /\ q.head = queue[l].head /\ q.count = queue[l].count /\ q.wait = wait
  BY <1>1, <1>3 DEF LaneType
<1>6. LaneInv(q, recent[l])
  BY <1>1, <1>2, <1>5, SameRing
<1>7. queue' = [queue EXCEPT ![l] = q] /\ UNCHANGED recent
  BY <1>a DEF TriesAgain
<1> QED BY <1>4, <1>6, <1>7, OneLane

LEMMA DrainKeeps ==
  ASSUME RateInv, NEW l \in Lanes, Drain(l)
  PROVE  RateInv'
<1>1. queue[l] \in LaneType /\ LaneInv(queue[l], recent[l])
  BY LaneHas
<1>2. PICK q : q = [queue[l] EXCEPT !.pc = "stopped", !.jobs = <<>>]
  OBVIOUS
<1>3. <<>> \in Seq(Callers)
  OBVIOUS
<1>4. q \in LaneType
  BY <1>1, <1>2, <1>3 DEF LaneType, QueuePc
<1>5. q.stamps = queue[l].stamps /\ q.head = queue[l].head /\ q.count = queue[l].count /\ q.pc = "stopped"
  BY <1>1, <1>2, <1>3 DEF LaneType
<1>6. LaneInv(q, recent[l])
  BY <1>1, <1>5, SameRing
<1>7. queue' = [queue EXCEPT ![l] = q] /\ UNCHANGED recent
  BY <1>2 DEF Drain
<1> QED BY <1>4, <1>6, <1>7, OneLane

(* The attempt: the wait is over, so both limits hold with it. *)
LEMMA AttemptKeeps ==
  ASSUME RateInv, NEW l \in Lanes, Attempt(l)
  PROVE  RateInv'
<1>1. queue[l] \in LaneType /\ recent[l] \in Seq(0..Window) /\ LaneInv(queue[l], recent[l])
  BY LaneHas
<1>2. queue[l].pc = "pace" /\ queue[l].wait = 0 /\ recent' = [recent EXCEPT ![l] = Append(@, 0)]
  BY DEF Attempt
<1>3. Rings(queue[l], recent[l]) /\ Spaced(recent[l]) /\ Covers(0, recent[l])
  BY <1>1, <1>2 DEF LaneInv
<1>4. PICK more \in Seq(0..Window) : more = Append(recent[l], 0)
  <2>1. Append(recent[l], 0) \in Seq(0..Window)
    BY <1>1, FreshAge
  <2> QED BY <2>1
<1>5. PICK p \in LaneType : p = Stamped(queue[l]) /\ Rings(p, more)
  BY <1>1, <1>3, <1>4, StampedIs
<1>6. Spaced(more)
  BY <1>1, <1>3, <1>4, SpacedAppends
<1>7. PICK pc \in {"idle", "calling"}, job \in Callers \cup {"none"} :
        queue' = [queue EXCEPT ![l] = [p EXCEPT !.pc = pc, !.job = job]]
  <2>1. queue[l].job \in Callers \cup {"none"}
    BY <1>1 DEF LaneType
  <2> QED BY <2>1, <1>5 DEF Attempt
<1>8. PICK q : q = [p EXCEPT !.pc = pc, !.job = job]
  OBVIOUS
<1>9. q \in LaneType
  BY <1>8 DEF LaneType, QueuePc
<1>10. q.stamps = p.stamps /\ q.head = p.head /\ q.count = p.count /\ q.pc = pc
  BY <1>8 DEF LaneType
<1>11. q.pc # "pace"
  BY <1>10
<1>12. LaneInv(q, more)
  BY <1>5, <1>6, <1>10, <1>11 DEF LaneInv, Rings
<1>13. queue' = [queue EXCEPT ![l] = q] /\ recent' = [recent EXCEPT ![l] = more]
  BY <1>2, <1>4, <1>7, <1>8
<1>14. queue' \in [Lanes -> LaneType] /\ recent' \in [Lanes -> Seq(0..Window)]
  BY <1>9, <1>13 DEF RateInv, CallTypes
<1>15. ASSUME NEW x \in Lanes PROVE LaneInv(queue'[x], recent'[x])
  BY <1>12, <1>13 DEF RateInv, CallTypes
<1> QED BY <1>14, <1>15 DEF RateInv, CallTypes

LEMMA TickKeeps ==
  ASSUME RateInv, Tick
  PROVE  RateInv'
<1>1. queue' = [x \in Lanes |-> Waited(queue[x])] /\ recent' = [x \in Lanes |-> Aged(recent[x])]
  BY DEF Tick
<1>2. ASSUME NEW x \in Lanes
      PROVE  Waited(queue[x]) \in LaneType /\ Aged(recent[x]) \in Seq(0..Window) /\ LaneInv(Waited(queue[x]), Aged(recent[x]))
  <2>1. PICK q \in LaneType, ages \in Seq(0..Window) : q = queue[x] /\ ages = recent[x] /\ LaneInv(q, ages)
    BY LaneHas
  <2>2. Waited(q) \in LaneType /\ Aged(ages) \in Seq(0..Window)
    BY WaitedIs, AgedIs
  <2>3. Rings(Waited(q), Aged(ages)) /\ Spaced(Aged(ages))
    BY <2>1, RingAges, SpacedAges DEF LaneInv
  <2>4. ASSUME Waited(q).pc = "pace" PROVE Covers(Waited(q).wait, Aged(ages))
    <3>1. q.pc = "pace" /\ Waited(q).wait = IF q.wait > 0 THEN q.wait - 1 ELSE 0
      BY <2>4, WaitedIs
    <3>2. PICK wait \in Nat : wait = q.wait
      BY DEF LaneType
    <3>3. Covers(wait, ages)
      BY <2>1, <3>1, <3>2 DEF LaneInv
    <3> QED BY <3>1, <3>2, <3>3, CoversAges
  <2> QED BY <2>1, <2>2, <2>3, <2>4 DEF LaneInv
<1> QED BY <1>1, <1>2 DEF RateInv, CallTypes

LEMMA CallStartsSpaced == CallInit => RateInv
<1> SUFFICES ASSUME CallInit PROVE RateInv
  OBVIOUS
<1>1. PICK stamps \in [1..Limit -> 0..Window] : stamps = [i \in 1..Limit |-> Window]
  <2>1. [i \in 1..Limit |-> Window] \in [1..Limit -> 0..Window]
    BY Positive
  <2> QED BY <2>1
<1>2. PICK q : q = [pc |-> "idle", jobs |-> <<>>, job |-> "none", try |-> 0, wait |-> 0,
                    stamps |-> stamps, head |-> 0, count |-> 0]
  OBVIOUS
<1>3. 0 \in 0..(Limit - 1) /\ 0 \in 0..Limit /\ <<>> \in Seq(Callers)
  BY Positive
<1>4. q \in LaneType
  BY <1>2, <1>3 DEF LaneType, QueuePc
<1>5. queue = [l \in Lanes |-> q] /\ recent = [l \in Lanes |-> <<>>]
  BY <1>1, <1>2 DEF CallInit, CallStarts
<1>a. <<>> \in Seq(0..Window)
  OBVIOUS
<1>6. PICK none \in Seq(0..Window) : none = <<>>
  BY <1>a
<1>b. Len(none) = 0
  BY <1>6
<1>7. Rings(q, none)
  BY <1>2, <1>b, Positive DEF Rings, Ring
<1>8. Spaced(none)
  BY <1>b DEF Spaced
<1>9. q.pc # "pace"
  BY <1>2
<1>10. LaneInv(q, none)
  BY <1>7, <1>8, <1>9 DEF LaneInv
<1> QED BY <1>4, <1>5, <1>6, <1>10 DEF RateInv, CallTypes

LEMMA CallNextSpaced == RateInv /\ [CallNext]_callVars => RateInv'
<1> SUFFICES ASSUME RateInv, [CallNext]_callVars PROVE RateInv'
  OBVIOUS
<1>1. CASE UNCHANGED <<queue, recent>>
  BY <1>1 DEF RateInv, CallTypes
<1>2. ASSUME NEW l \in Lanes, Interrupt(l) PROVE RateInv'
  BY <1>2, EndsKeeps DEF Interrupt
<1>3. ASSUME NEW l \in Lanes, QueueStep(l) PROVE RateInv'
  BY <1>2, <1>3, TakeKeeps, AttemptKeeps, TriesAgainKeeps, DrainKeeps, AnsweredKeeps DEF QueueStep
<1>4. ASSUME NEW c \in Callers, CallerStep(c) \/ Calls(c) \/ GiveUp(c) PROVE RateInv'
  <2>1. Enqueue(c) \/ UNCHANGED <<queue, recent>>
    BY <1>4 DEF CallerStep, Calls, GiveUp, Delayed, Returns
  <2> QED BY <1>1, <2>1, EnqueueKeeps
<1>5. CASE Revoke \/ Stop
  BY <1>1, <1>5 DEF Revoke, Stop
<1>6. CASE UNCHANGED callVars
  BY <1>1, <1>6 DEF callVars
<1> QED BY <1>3, <1>4, <1>5, <1>6, TickKeeps DEF CallNext

(* Telegram's limits are kept, retries included, for every gap, limit and   *)
(* window: never two attempts of a lane closer than MinGap, never one less  *)
(* than Window after the attempt that is WindowLimit attempts back.         *)
THEOREM AttemptsAreSpaced == CallSpec => []RateHolds
<1>1. RateInv => RateHolds
  BY DEF RateInv, RateHolds, LaneInv
<1> QED BY CallStartsSpaced, CallNextSpaced, <1>1, PTL DEF CallSpec

(**************************************************************************)
(* The parts of a message.  A call is in one queue at one place, only     *)
(* while its caller waits for it or has left, and then it has no outcome; *)
(* so an outcome is that of the part the caller has come to, and all the  *)
(* parts before that one are shown.                                       *)
(**************************************************************************)
Ops == [lane : Lanes, parts : Nat, once : BOOLEAN, same : SameErrors,
        guarded : BOOLEAN, markdown : BOOLEAN, notice : BOOLEAN]
CallRecord(k) == k = [pc |-> k.pc, op |-> k.op, part |-> k.part, plain |-> k.plain,
                      ended |-> k.ended, tried |-> k.tried, done |-> k.done, result |-> k.result]

AtWork(q, l, c) == q[l].job = c
InLine(q, l, c) == \E i \in 1..Len(q[l].jobs) : q[l].jobs[i] = c
HasCall(q, l, c) == AtWork(q, l, c) \/ InLine(q, l, c)

Once(q, c) ==      \* a call is at one place
  /\ \A l, m \in Lanes : HasCall(q, l, c) /\ HasCall(q, m, c) => l = m
  /\ \A l \in Lanes : ~(AtWork(q, l, c) /\ InLine(q, l, c))
  /\ \A l \in Lanes : \A i, j \in 1..Len(q[l].jobs) : q[l].jobs[i] = c /\ q[l].jobs[j] = c => i = j

ShownIn(ch, c, p) == \E i \in 1..Len(ch) : ch[i] = <<c, p>>
Begun(k, c, ch) ==     \* what is shown of it
  /\ \A j \in 1..Len(ch) : ch[j][1] = c => ch[j][2] <= k.part
  /\ \A p \in 1..(k.part - 1) : ShownIn(ch, c, p)
  /\ k.done = "ok" => ShownIn(ch, c, k.part)

InOrder(c, ch) == \A j \in 1..Len(ch) : ch[j][1] = c /\ ch[j][2] >= 2 =>
                    \E i \in 1..(j - 1) : ch[i] = <<c, ch[j][2] - 1>>

CallOK(k, c, q, ch) ==
  /\ CallRecord(k) /\ k.part \in Nat /\ k.op \in Ops
  /\ k.pc \in {"idle", "delay", "enqueue", "wait", "done"}
  /\ IF k.pc = "idle" THEN k.part = 0 ELSE k.part >= 1
  /\ \A l \in Lanes : HasCall(q, l, c) => k.pc \in {"wait", "done"} /\ k.done = "none"
  /\ k.tried => k.done # "none" \/ \E l \in Lanes : AtWork(q, l, c)
  /\ k.ended = "queued" => ~k.tried /\ \A l \in Lanes : ~AtWork(q, l, c)
  /\ k.result = "ok" /\ k.op.same = "none" => \A p \in 1..k.op.parts : ShownIn(ch, c, p)

Placed(k, c, q, ch) == CallOK(k, c, q, ch) /\ Once(q, c) /\ Begun(k, c, ch) /\ InOrder(c, ch)

Working == \A l \in Lanes : queue[l].job = "none" <=> queue[l].pc \notin {"pace", "calling", "backoff"}
BudgetOK == /\ budget = [ops |-> budget.ops, calls |-> budget.calls, faults |-> budget.faults, ends |-> budget.ends,
                         stops |-> budget.stops, revokes |-> budget.revokes, answers |-> budget.answers]
            /\ budget.ops \subseteq Ops
CallShape == chat \in Seq(Callers \X (Nat \ {0})) /\ call = [c \in Callers |-> call[c]]
PartInv == /\ CallShape /\ Working /\ BudgetOK
           /\ \A c \in Callers : Placed(call[c], c, queue, chat)

LEMMA CallIs ==
  ASSUME CallShape, NEW c \in Callers, NEW k, call' = [call EXCEPT ![c] = k]
  PROVE  /\ call'[c] = k /\ \A d \in Callers : d # c => call'[d] = call[d]
         /\ call' = [d \in Callers |-> call'[d]]
  BY DEF CallShape

LEMMA SpendsKeeps ==
  ASSUME BudgetOK, NEW f \in {"calls", "faults", "ends", "stops", "revokes"}, Spends(f)
  PROVE  BudgetOK'
  BY DEF BudgetOK, Spends

(* A step of a caller that leaves the queues alone. *)
LEMMA CallerKeeps ==
  ASSUME PartInv, NEW c \in Callers, NEW k, CallOK(k, c, queue, chat), Begun(k, c, chat), BudgetOK',
         call' = [call EXCEPT ![c] = k], UNCHANGED <<queue, chat>>
  PROVE  PartInv'
<1>1. /\ call'[c] = k /\ \A d \in Callers : d # c => call'[d] = call[d]
      /\ CallShape'
  BY CallIs DEF PartInv, CallShape
<1>2. Working'
  BY DEF PartInv, Working
<1>3. \A d \in Callers : Placed(call'[d], d, queue, chat)
  BY <1>1 DEF PartInv, Placed
<1> QED BY <1>1, <1>2, <1>3 DEF PartInv

(* What a call becomes, by its fields. *)
Like(k, pc, op, part, ended, tried, done, result) ==
  /\ CallRecord(k) /\ k.pc = pc /\ k.op = op /\ k.part = part
  /\ k.ended = ended /\ k.tried = tried /\ k.done = done /\ k.result = result

LEMMA LikeWith ==
  ASSUME NEW k, NEW pc, NEW op, NEW part, NEW ended, NEW tried, NEW done, NEW result, NEW x,
         Like(k, pc, op, part, ended, tried, done, result)
  PROVE  /\ Like([k EXCEPT !.pc = x], x, op, part, ended, tried, done, result)
         /\ Like([k EXCEPT !.op = x], pc, x, part, ended, tried, done, result)
         /\ Like([k EXCEPT !.part = x], pc, op, x, ended, tried, done, result)
         /\ Like([k EXCEPT !.plain = x], pc, op, part, ended, tried, done, result)
         /\ Like([k EXCEPT !.ended = x], pc, op, part, x, tried, done, result)
         /\ Like([k EXCEPT !.tried = x], pc, op, part, ended, x, done, result)
         /\ Like([k EXCEPT !.done = x], pc, op, part, ended, tried, x, result)
         /\ Like([k EXCEPT !.result = x], pc, op, part, ended, tried, done, x)
<1>1. Like([k EXCEPT !.pc = x], x, op, part, ended, tried, done, result)
  BY DEF CallRecord, Like
<1>2. Like([k EXCEPT !.op = x], pc, x, part, ended, tried, done, result)
  BY DEF CallRecord, Like
<1>3. Like([k EXCEPT !.part = x], pc, op, x, ended, tried, done, result)
  BY DEF CallRecord, Like
<1>4. Like([k EXCEPT !.plain = x], pc, op, part, ended, tried, done, result)
  BY DEF CallRecord, Like
<1>5. Like([k EXCEPT !.ended = x], pc, op, part, x, tried, done, result)
  BY DEF CallRecord, Like
<1>6. Like([k EXCEPT !.tried = x], pc, op, part, ended, x, done, result)
  BY DEF CallRecord, Like
<1>7. Like([k EXCEPT !.done = x], pc, op, part, ended, tried, x, result)
  BY DEF CallRecord, Like
<1>8. Like([k EXCEPT !.result = x], pc, op, part, ended, tried, done, x)
  BY DEF CallRecord, Like
<1> QED BY <1>1, <1>2, <1>3, <1>4, <1>5, <1>6, <1>7, <1>8

LEMMA IsLike ==
  ASSUME NEW k, CallRecord(k)
  PROVE  Like(k, k.pc, k.op, k.part, k.ended, k.tried, k.done, k.result)
  BY DEF Like

Again(k, pc) == [k EXCEPT !.pc = pc, !.done = "none", !.tried = FALSE]
ToDone(k, res) == [k EXCEPT !.pc = "done", !.result = res]
ToWait(k) == [k EXCEPT !.pc = "wait", !.done = "none", !.tried = FALSE]
ToPlain(k) == [k EXCEPT !.pc = "enqueue", !.done = "none", !.tried = FALSE, !.plain = TRUE]
ToPart(k, p) == [k EXCEPT !.pc = "enqueue", !.done = "none", !.tried = FALSE, !.part = p, !.plain = FALSE]
NewCall(op, pc, res) == [Nothing EXCEPT !.op = op, !.part = 1, !.pc = pc, !.result = res]

LEMMA RecordReturned ==
  ASSUME NEW k, CallRecord(k), NEW x
  PROVE  Like(ToDone(k, x), "done", k.op, k.part, k.ended, k.tried, k.done, x)
<1>1. Like([k EXCEPT !.pc = "done"], "done", k.op, k.part, k.ended, k.tried, k.done, k.result)
  BY IsLike, LikeWith
<1>2. PICK a : a = [k EXCEPT !.pc = "done"]
  OBVIOUS
<1>3. Like([a EXCEPT !.result = x], "done", k.op, k.part, k.ended, k.tried, k.done, x)
  BY <1>1, <1>2, LikeWith
<1> QED BY <1>2, <1>3 DEF ToDone

LEMMA RecordAgain ==
  ASSUME NEW k, CallRecord(k), NEW pc
  PROVE  Like(Again(k, pc), pc, k.op, k.part, k.ended, FALSE, "none", k.result)
<1>1. PICK a : a = [k EXCEPT !.pc = pc]
  OBVIOUS
<1>2. Like(a, pc, k.op, k.part, k.ended, k.tried, k.done, k.result)
  BY <1>1, IsLike, LikeWith
<1>3. PICK b : b = [a EXCEPT !.done = "none"]
  OBVIOUS
<1>4. Like(b, pc, k.op, k.part, k.ended, k.tried, "none", k.result)
  BY <1>2, <1>3, LikeWith
<1>5. PICK c : c = [b EXCEPT !.tried = FALSE]
  OBVIOUS
<1>6. Like(c, pc, k.op, k.part, k.ended, FALSE, "none", k.result)
  BY <1>4, <1>5, LikeWith
<1>7. c = Again(k, pc)
  BY <1>1, <1>3, <1>5 DEF Again
<1> QED BY <1>6, <1>7

LEMMA RecordWaits ==
  ASSUME NEW k, CallRecord(k)
  PROVE  Like(ToWait(k), "wait", k.op, k.part, k.ended, FALSE, "none", k.result)
<1>1. ToWait(k) = Again(k, "wait")
  BY DEF ToWait, Again
<1> QED BY <1>1, RecordAgain

LEMMA RecordPlain ==
  ASSUME NEW k, CallRecord(k)
  PROVE  Like(ToPlain(k), "enqueue", k.op, k.part, k.ended, FALSE, "none", k.result)
<1>0. PICK c : c = Again(k, "enqueue")
  OBVIOUS
<1>1. Like(c, "enqueue", k.op, k.part, k.ended, FALSE, "none", k.result)
  BY <1>0, RecordAgain
<1>2. Like([c EXCEPT !.plain = TRUE], "enqueue", k.op, k.part, k.ended, FALSE, "none", k.result)
  BY <1>1, LikeWith
<1>3. ToPlain(k) = [c EXCEPT !.plain = TRUE]
  BY <1>0 DEF ToPlain, Again
<1> QED BY <1>2, <1>3

LEMMA RecordPart ==
  ASSUME NEW k, CallRecord(k), NEW p
  PROVE  Like(ToPart(k, p), "enqueue", k.op, p, k.ended, FALSE, "none", k.result)
<1>0. PICK c : c = Again(k, "enqueue")
  OBVIOUS
<1>1. Like(c, "enqueue", k.op, k.part, k.ended, FALSE, "none", k.result)
  BY <1>0, RecordAgain
<1>2. PICK d : d = [c EXCEPT !.part = p]
  OBVIOUS
<1>3. Like(d, "enqueue", k.op, p, k.ended, FALSE, "none", k.result)
  BY <1>1, <1>2, LikeWith
<1>4. Like([d EXCEPT !.plain = FALSE], "enqueue", k.op, p, k.ended, FALSE, "none", k.result)
  BY <1>3, LikeWith
<1>5. ToPart(k, p) = [d EXCEPT !.plain = FALSE]
  BY <1>0, <1>2 DEF ToPart, Again
<1> QED BY <1>4, <1>5

LEMMA RecordNew ==
  ASSUME NEW op, NEW pc, NEW res
  PROVE  Like(NewCall(op, pc, res), pc, op, 1, "no", FALSE, "none", res)
<1>0. PICK k : k = Nothing
  OBVIOUS
<1>1. Like(k, "idle", Op("group", 0), 0, "no", FALSE, "none", "none")
  BY <1>0 DEF Like, CallRecord, Nothing
<1>2. PICK a : a = [k EXCEPT !.op = op]
  BY Zenon
<1>3. Like(a, "idle", op, 0, "no", FALSE, "none", "none")
  BY <1>1, <1>2, LikeWith
<1>4. PICK b : b = [a EXCEPT !.part = 1]
  OBVIOUS
<1>5. Like(b, "idle", op, 1, "no", FALSE, "none", "none")
  BY <1>3, <1>4, LikeWith
<1>6. PICK c : c = [b EXCEPT !.pc = pc]
  BY Zenon
<1>7. Like(c, pc, op, 1, "no", FALSE, "none", "none")
  BY <1>5, <1>6, LikeWith
<1>8. Like([c EXCEPT !.result = res], pc, op, 1, "no", FALSE, "none", res)
  BY <1>7, LikeWith
<1> QED BY <1>0, <1>2, <1>4, <1>6, <1>8 DEF NewCall

LEMMA CallsKeeps ==
  ASSUME PartInv, NEW c \in Callers, Calls(c)
  PROVE  PartInv'
<1>1. BudgetOK' /\ call[c].pc = "idle"
  BY SpendsKeeps DEF Calls, PartInv
<1>2. CallOK(call[c], c, queue, chat) /\ Begun(call[c], c, chat) /\ CallShape
  BY DEF PartInv, Placed
<1>3. UNCHANGED <<queue, chat>>
  BY DEF Calls
<1>4. PICK op \in budget.ops :
        call' = [call EXCEPT ![c] =
         IF ~Admits(c, op) THEN @
         ELSE [Nothing EXCEPT !.op = op, !.part = 1,
                 !.pc = IF op.notice THEN "delay" ELSE IF op.parts = 0 THEN "done" ELSE "enqueue",
                 !.result = IF op.parts = 0 THEN "ok" ELSE "none"]]
  BY Zenon DEF Calls
<1>5. op \in Ops
  BY DEF PartInv, BudgetOK
<1>6. PICK pc, res : /\ pc = IF op.notice THEN "delay" ELSE IF op.parts = 0 THEN "done" ELSE "enqueue"
                     /\ res = IF op.parts = 0 THEN "ok" ELSE "none"
  OBVIOUS
<1>7. PICK k : k = NewCall(op, pc, res)
  OBVIOUS
<1>8. CallRecord(k) /\ k.pc = pc /\ k.op = op /\ k.part = 1 /\ k.ended = "no" /\ k.tried = FALSE /\ k.done = "none" /\ k.result = res
  <2>1. Like(k, pc, op, 1, "no", FALSE, "none", res)
    BY <1>7, RecordNew
  <2> QED BY <2>1 DEF Like
<1>9. call' = [call EXCEPT ![c] = call[c]] \/ call' = [call EXCEPT ![c] = k]
  BY <1>4, <1>6, <1>7 DEF NewCall
<1>10. pc \in {"delay", "done", "enqueue"} /\ (res = "ok" => op.parts = 0)
  BY <1>6
<1>11. CallOK(k, c, queue, chat)
  BY <1>1, <1>2, <1>5, <1>8, <1>10 DEF CallOK
<1>12. Begun(k, c, chat)
  <2>1. \A j \in 1..Len(chat) : chat[j] \in Callers \X (Nat \ {0})
    BY <1>2 DEF CallShape
  <2>2. \A j \in 1..Len(chat) : chat[j][1] # c
    BY <1>1, <1>2, <2>1 DEF CallOK, Begun
  <2> QED BY <1>8, <2>2 DEF Begun
<1> QED BY <1>1, <1>2, <1>3, <1>9, <1>11, <1>12, CallerKeeps

LEMMA DelayedKeeps ==
  ASSUME PartInv, NEW c \in Callers, Delayed(c)
  PROVE  PartInv'
<1>1. CallOK(call[c], c, queue, chat) /\ Begun(call[c], c, chat) /\ call[c].pc = "delay"
  BY DEF PartInv, Placed, Delayed
<1>2. BudgetOK' /\ UNCHANGED <<queue, chat>>
  BY DEF PartInv, BudgetOK, Delayed
<1>3. PICK k : call' = [call EXCEPT ![c] = k] /\ k \in {[call[c] EXCEPT !.pc = "enqueue"], ToDone(call[c], "kept")}
  BY DEF Delayed, Returned, ToDone
<1>4. /\ CallRecord(k) /\ k.pc \in {"enqueue", "done"} /\ k.op = call[c].op /\ k.part = call[c].part /\ k.ended = call[c].ended
      /\ k.tried = call[c].tried /\ k.done = call[c].done /\ (k.result = "ok" => call[c].result = "ok")
  <2>1. CallRecord(call[c])
    BY <1>1 DEF CallOK
  <2>2. CASE k = [call[c] EXCEPT !.pc = "enqueue"]
    <3>1. Like(k, "enqueue", call[c].op, call[c].part, call[c].ended, call[c].tried, call[c].done, call[c].result)
      BY <2>1, <2>2, IsLike, LikeWith
    <3> QED BY <3>1 DEF Like
  <2>3. CASE k = ToDone(call[c], "kept")
    <3>1. Like(k, "done", call[c].op, call[c].part, call[c].ended, call[c].tried, call[c].done, "kept")
      BY <2>1, <2>3, RecordReturned
    <3> QED BY <3>1 DEF Like
  <2> QED BY <1>3, <2>2, <2>3
<1>5. CallOK(k, c, queue, chat)
  BY <1>1, <1>4 DEF CallOK
<1>6. Begun(k, c, chat)
  BY <1>1, <1>4 DEF Begun
<1> QED BY <1>2, <1>3, <1>5, <1>6, CallerKeeps

(* A call that returns otherwise than with its outcome. *)
LEMMA ReturnedIs ==
  ASSUME PartInv, NEW c \in Callers, NEW res \in {"cancelled", "stopped"}, NEW k, k = Returned(c, res), call[c].pc \in {"enqueue", "wait"}
  PROVE  CallOK(k, c, queue, chat) /\ Begun(k, c, chat)
<1>1. CallOK(call[c], c, queue, chat) /\ Begun(call[c], c, chat)
  BY DEF PartInv, Placed
<1>2. k = ToDone(call[c], res) /\ CallRecord(call[c])
  BY <1>1 DEF Returned, CallOK, ToDone
<1>3. /\ CallRecord(k) /\ k.pc = "done" /\ k.op = call[c].op /\ k.part = call[c].part /\ k.ended = call[c].ended
      /\ k.tried = call[c].tried /\ k.done = call[c].done /\ k.result = res
  <2>1. Like(k, "done", call[c].op, call[c].part, call[c].ended, call[c].tried, call[c].done, res)
    BY <1>2, RecordReturned
  <2> QED BY <2>1 DEF Like
<1>4. CallOK(k, c, queue, chat)
  BY <1>1, <1>3 DEF CallOK
<1> QED BY <1>1, <1>3, <1>4 DEF Begun

LEMMA ContinuesTo ==
  ASSUME NEW k, k.op \in Ops, NEW res
  PROVE  /\ res = "ok" /\ ~LastPart(k) => Continues(k, res) = ToPart(k, k.part + 1)
         /\ ~(res = "ok" /\ ~LastPart(k)) =>
              \/ Continues(k, res) = ToPlain(k)
              \/ res = k.op.same /\ Continues(k, res) = ToDone(k, "ok")
              \/ Continues(k, res) = ToDone(k, res)
<1>1. Continues(k, res) = CASE res = "ok" /\ ~LastPart(k) -> ToPart(k, k.part + 1)
                            [] res = "markup" /\ k.op.markdown /\ ~k.plain -> ToPlain(k)
                            [] res = k.op.same -> ToDone(k, "ok")
                            [] OTHER -> ToDone(k, res)
  BY DEF Continues, ToPart, ToPlain, ToDone
<1>2. ASSUME res = "ok" /\ ~LastPart(k)
      PROVE  Continues(k, res) = ToPart(k, k.part + 1)
  <2>1. k.op.same \in SameErrors
    BY DEF Ops
  <2>2. "ok" \notin SameErrors
    BY DEF SameErrors
  <2> QED BY <1>1, <1>2, <2>1, <2>2
<1>3. ASSUME ~(res = "ok" /\ ~LastPart(k))
      PROVE  \/ Continues(k, res) = ToPlain(k)
             \/ res = k.op.same /\ Continues(k, res) = ToDone(k, "ok")
             \/ Continues(k, res) = ToDone(k, res)
  BY <1>1, <1>3
<1> QED BY <1>2, <1>3

LEMMA ContinuesIs ==
  ASSUME PartInv, NEW c \in Callers, NEW k, k = Continues(call[c], call[c].done), call[c].pc = "wait", call[c].done # "none"
  PROVE  CallOK(k, c, queue, chat) /\ Begun(k, c, chat)
<1>1. CallOK(call[c], c, queue, chat) /\ Begun(call[c], c, chat)
  BY DEF PartInv, Placed
<1>2. PICK j : j = call[c]
  OBVIOUS
<1>3. CallRecord(j) /\ j.part \in Nat /\ j.part >= 1 /\ j.op \in Ops /\ \A l \in Lanes : ~HasCall(queue, l, c)
  BY <1>1, <1>2 DEF CallOK
<1>4. CASE j.done = "ok" /\ ~LastPart(j)
  <2>1. PICK p \in Nat : p = j.part + 1
    BY <1>3
  <2>2. k = ToPart(j, p)
    BY <1>2, <1>3, <1>4, <2>1, ContinuesTo
  <2>3. /\ CallRecord(k) /\ k.pc = "enqueue" /\ k.op = j.op /\ k.part = p /\ k.ended = j.ended
        /\ k.tried = FALSE /\ k.done = "none" /\ k.result = j.result
    <3>1. Like(k, "enqueue", j.op, p, j.ended, FALSE, "none", j.result)
      BY <1>3, <2>2, RecordPart
    <3> QED BY <3>1 DEF Like
  <2>4. CallOK(k, c, queue, chat)
    BY <1>1, <1>2, <1>3, <2>1, <2>3 DEF CallOK
  <2>5. \A q \in 1..(p - 1) : ShownIn(chat, c, q)
    BY <1>1, <1>2, <1>3, <1>4, <2>1 DEF Begun
  <2>6. \A i \in 1..Len(chat) : chat[i][1] = c => chat[i][2] <= p
    <3>1. \A i \in 1..Len(chat) : chat[i] \in Callers \X (Nat \ {0})
      BY DEF PartInv, CallShape
    <3> QED BY <1>1, <1>2, <1>3, <2>1, <3>1 DEF Begun
  <2> QED BY <2>3, <2>4, <2>5, <2>6 DEF Begun
<1>5. CASE k = ToPlain(j)
  <2>3. /\ CallRecord(k) /\ k.pc = "enqueue" /\ k.op = j.op /\ k.part = j.part /\ k.ended = j.ended
        /\ k.tried = FALSE /\ k.done = "none" /\ k.result = j.result
    <3>1. Like(k, "enqueue", j.op, j.part, j.ended, FALSE, "none", j.result)
      BY <1>3, <1>5, RecordPlain
    <3> QED BY <3>1 DEF Like
  <2>4. CallOK(k, c, queue, chat)
    BY <1>1, <1>2, <1>3, <2>3 DEF CallOK
  <2> QED BY <1>1, <1>2, <2>3, <2>4 DEF Begun
<1>6. ASSUME NEW res, k = ToDone(j, res),
             res = "ok" /\ j.op.same = "none" => j.done = "ok" /\ LastPart(j)
      PROVE  CallOK(k, c, queue, chat) /\ Begun(k, c, chat)
  <2>3. /\ CallRecord(k) /\ k.pc = "done" /\ k.op = j.op /\ k.part = j.part /\ k.ended = j.ended
        /\ k.tried = j.tried /\ k.done = j.done /\ k.result = res
    <3>1. Like(k, "done", j.op, j.part, j.ended, j.tried, j.done, res)
      BY <1>3, <1>6, RecordReturned
    <3> QED BY <3>1 DEF Like
  <2>4. j.done = "ok" => \A p \in 1..j.part : ShownIn(chat, c, p)
    BY <1>1, <1>2, <1>3 DEF Begun
  <2>5. res = "ok" /\ j.op.same = "none" => \A p \in 1..j.op.parts : ShownIn(chat, c, p)
    BY <1>6, <2>4 DEF LastPart
  <2>6. CallOK(k, c, queue, chat)
    BY <1>1, <1>2, <1>3, <2>3, <2>5 DEF CallOK
  <2> QED BY <1>1, <1>2, <2>3, <2>6 DEF Begun
<1>7. CASE ~(j.done = "ok" /\ ~LastPart(j)) /\ k # ToPlain(j)
  <2>1. \/ j.done = j.op.same /\ k = ToDone(j, "ok")
        \/ k = ToDone(j, j.done)
    BY <1>2, <1>3, <1>7, ContinuesTo
  <2>2. CASE j.done = j.op.same /\ k = ToDone(j, "ok")
    BY <1>2, <1>6, <2>2
  <2>3. CASE k = ToDone(j, j.done)
    BY <1>6, <1>7, <2>3
  <2> QED BY <2>1, <2>2, <2>3
<1> QED BY <1>4, <1>5, <1>7

LEMMA ReturnsKeeps ==
  ASSUME PartInv, NEW c \in Callers, Returns(c)
  PROVE  PartInv'
<1>1. BudgetOK' /\ UNCHANGED <<queue, chat>> /\ call[c].pc = "wait"
  BY DEF PartInv, BudgetOK, Returns
<1>2. PICK k : /\ call' = [call EXCEPT ![c] = k]
               /\ \/ k \in {Returned(c, "cancelled"), Returned(c, "stopped")}
                  \/ call[c].done # "none" /\ k = Continues(call[c], call[c].done)
  BY DEF Returns, GivenBack
<1>3. CallOK(k, c, queue, chat) /\ Begun(k, c, chat)
  BY <1>1, <1>2, ReturnedIs, ContinuesIs
<1> QED BY <1>1, <1>2, <1>3, CallerKeeps

LEMMA GiveUpKeeps ==
  ASSUME PartInv, NEW c \in Callers, GiveUp(c)
  PROVE  PartInv'
<1>1. BudgetOK' /\ UNCHANGED <<queue, chat>>
  BY SpendsKeeps DEF PartInv, GiveUp
<1>2. CallOK(call[c], c, queue, chat) /\ Begun(call[c], c, chat)
  BY DEF PartInv, Placed
<1>3. PICK x : x = IF call[c].done # "none" \/ \E l \in Lanes : queue[l].job = c THEN "running" ELSE "queued"
  OBVIOUS
<1>4. PICK k : call' = [call EXCEPT ![c] = k] /\ k = [call[c] EXCEPT !.ended = x]
  BY <1>3 DEF GiveUp
<1>5. /\ CallRecord(k) /\ k.pc = call[c].pc /\ k.op = call[c].op /\ k.part = call[c].part /\ k.ended = x
      /\ k.tried = call[c].tried /\ k.done = call[c].done /\ k.result = call[c].result
  <2>1. CallRecord(call[c])
    BY <1>2 DEF CallOK
  <2>2. Like(k, call[c].pc, call[c].op, call[c].part, x, call[c].tried, call[c].done, call[c].result)
    BY <1>4, <2>1, IsLike, LikeWith
  <2> QED BY <2>2 DEF Like
<1>6. CallOK(k, c, queue, chat)
  BY <1>2, <1>3, <1>5 DEF CallOK, AtWork
<1>7. Begun(k, c, chat)
  BY <1>2, <1>5 DEF Begun
<1> QED BY <1>1, <1>4, <1>6, <1>7, CallerKeeps

(* The places of a call when its lane's queue changes. *)
LEMMA StaysInPlace ==
  ASSUME NEW d, NEW k, NEW q, NEW r, NEW ch, Placed(k, d, q, ch),
         \A l \in Lanes : AtWork(r, l, d) <=> AtWork(q, l, d),
         \A l \in Lanes : InLine(r, l, d) => InLine(q, l, d),
         \A l \in Lanes : \A i, j \in 1..Len(r[l].jobs) : r[l].jobs[i] = d /\ r[l].jobs[j] = d => i = j
  PROVE  Placed(k, d, r, ch)
<1>1. \A l \in Lanes : HasCall(r, l, d) => HasCall(q, l, d)
  BY DEF HasCall
<1>2. CallOK(k, d, r, ch)
  BY <1>1 DEF Placed, CallOK
<1>3. Once(r, d)
  BY <1>1 DEF Placed, Once
<1> QED BY <1>2, <1>3 DEF Placed

LEMMA Shorter ==      \* the line after one step of its lane
  ASSUME NEW jobs \in Seq(Callers), NEW more \in Seq(Callers), NEW c \in Callers, NEW d \in Callers, d # c,
         more = jobs \/ (jobs # <<>> /\ more = Tail(jobs)) \/ more = Append(jobs, c),
         \A i, j \in 1..Len(jobs) : jobs[i] = d /\ jobs[j] = d => i = j
  PROVE  /\ (\E i \in 1..Len(more) : more[i] = d) => (\E i \in 1..Len(jobs) : jobs[i] = d)
         /\ \A i, j \in 1..Len(more) : more[i] = d /\ more[j] = d => i = j
<1>1. CASE more = jobs
  BY <1>1
<1>2. CASE jobs # <<>> /\ more = Tail(jobs)
  <2>1. \A i \in 1..Len(more) : i + 1 \in 1..Len(jobs) /\ more[i] = jobs[i + 1]
    BY <1>2
  <2>2. \A i, j \in 1..Len(more) : more[i] = d /\ more[j] = d => i = j
    <3> SUFFICES ASSUME NEW i \in 1..Len(more), NEW j \in 1..Len(more), more[i] = d, more[j] = d PROVE i = j
      OBVIOUS
    <3>1. i + 1 = j + 1
      BY <2>1
    <3> QED BY <3>1
  <2> QED BY <2>1, <2>2
<1>3. CASE more = Append(jobs, c)
  <2>1. \A i \in 1..Len(more) : IF i = Len(jobs) + 1 THEN more[i] = c ELSE i \in 1..Len(jobs) /\ more[i] = jobs[i]
    BY <1>3
  <2> QED BY <2>1
<1> QED BY <1>1, <1>2, <1>3

LEMMA NoPlace ==      \* a call that is in no line is there once
  ASSUME NEW r, NEW c, \A m \in Lanes : ~InLine(r, m, c), \A m, n \in Lanes : AtWork(r, m, c) /\ AtWork(r, n, c) => m = n
  PROVE  Once(r, c)
  BY DEF Once, HasCall, InLine

LEMMA ChatGrows ==
  ASSUME NEW ch \in Seq(Callers \X (Nat \ {0})), NEW c \in Callers, NEW p \in Nat \ {0}, NEW d, NEW k, k.part \in Nat,
         d = c => k.part = p, Begun(k, d, ch), InOrder(d, ch), NEW more, more = Append(ch, <<c, p>>)
  PROVE  /\ more \in Seq(Callers \X (Nat \ {0}))
         /\ Begun(k, d, more) /\ InOrder(d, more) /\ ShownIn(more, c, p)
         /\ \A x : ShownIn(ch, d, x) => ShownIn(more, d, x)
<1>1. PICK n \in Nat : n = Len(ch)
  OBVIOUS
<1>2. PICK e \in Callers \X (Nat \ {0}) : e = <<c, p>> /\ e[1] = c /\ e[2] = p
  <2>1. <<c, p>> \in Callers \X (Nat \ {0}) /\ <<c, p>>[1] = c /\ <<c, p>>[2] = p
    OBVIOUS
  <2> QED BY <2>1
<1>3. /\ more \in Seq(Callers \X (Nat \ {0})) /\ Len(more) = n + 1 /\ more[n + 1] = e
      /\ \A i \in 1..n : more[i] = ch[i] /\ ch[i] \in Callers \X (Nat \ {0})
  BY <1>1, <1>2
<1>4. \A x : ShownIn(ch, d, x) => ShownIn(more, d, x)
  <2> SUFFICES ASSUME NEW x, ShownIn(ch, d, x) PROVE ShownIn(more, d, x)
    OBVIOUS
  <2>1. PICK i \in 1..n : ch[i] = <<d, x>>
    BY <1>1 DEF ShownIn
  <2>2. i \in 1..(n + 1) /\ more[i] = <<d, x>>
    BY <1>3, <2>1
  <2> QED BY <1>3, <2>2 DEF ShownIn
<1>5. ShownIn(more, c, p)
  <2>1. n + 1 \in 1..Len(more) /\ more[n + 1] = <<c, p>>
    BY <1>2, <1>3
  <2> QED BY <2>1 DEF ShownIn
<1>6. \A j \in 1..(n + 1) : j = n + 1 \/ j \in 1..n
  OBVIOUS
<1>7. Begun(k, d, more)
  <2>1. \A j \in 1..(n + 1) : more[j][1] = d => more[j][2] <= k.part
    BY <1>1, <1>2, <1>3, <1>6 DEF Begun
  <2> QED BY <1>3, <1>4, <2>1 DEF Begun
<1>8. InOrder(d, more)
  <2> SUFFICES ASSUME NEW j \in 1..(n + 1), more[j][1] = d, more[j][2] >= 2
               PROVE  \E i \in 1..(j - 1) : more[i] = <<d, more[j][2] - 1>>
    BY <1>3 DEF InOrder
  <2>1. CASE j \in 1..n
    <3>1. \E i \in 1..(j - 1) : ch[i] = <<d, ch[j][2] - 1>>
      <4>1. more[j] = ch[j] /\ j \in 1..Len(ch)
        BY <1>1, <1>3, <2>1
      <4> QED BY <4>1 DEF InOrder
    <3>2. \A i \in 1..(j - 1) : i \in 1..n
      BY <2>1
    <3>3. more[j] = ch[j]
      BY <1>3, <2>1
    <3> QED BY <1>3, <3>1, <3>2, <3>3
  <2>2. CASE j = n + 1
    <3>1. d = c /\ k.part = p /\ p - 1 \in 1..(k.part - 1)
      BY <1>2, <1>3, <2>2
    <3>2. \E i \in 1..n : ch[i] = <<c, p - 1>>
      BY <1>1, <3>1 DEF Begun, ShownIn
    <3>3. more[j][2] = p /\ \A i \in 1..n : i \in 1..(j - 1) /\ more[i] = ch[i]
      BY <1>2, <1>3, <2>2
    <3> QED BY <3>1, <3>2, <3>3
  <2> QED BY <1>6, <2>1, <2>2
<1> QED BY <1>3, <1>4, <1>5, <1>7, <1>8

LEMMA PlacedGrows ==     \* what one call's part in the chat changes for the others
  ASSUME NEW ch \in Seq(Callers \X (Nat \ {0})), NEW c \in Callers, NEW p \in Nat \ {0}, NEW d, d # c, NEW k, NEW q,
         Placed(k, d, q, ch), NEW more, more = Append(ch, <<c, p>>)
  PROVE  Placed(k, d, q, more)
<1>1. Begun(k, d, more) /\ InOrder(d, more) /\ \A x : ShownIn(ch, d, x) => ShownIn(more, d, x)
  BY ChatGrows DEF Placed, CallOK
<1>2. CallOK(k, d, q, more)
  BY <1>1 DEF Placed, CallOK
<1> QED BY <1>1, <1>2 DEF Placed

LEMMA LaneIs ==
  ASSUME CallTypes, NEW l \in Lanes, NEW q, queue' = [queue EXCEPT ![l] = q]
  PROVE  queue'[l] = q /\ \A m \in Lanes : m # l => queue'[m] = queue[m]
  BY DEF CallTypes

(* One step of one lane, for one call: the others stay where they are. *)
LaneMoves(old, q, c) ==
  /\ (q.job = "none" <=> q.pc \notin {"pace", "calling", "backoff"})
  /\ \A d \in Callers : d # c => (q.job = d <=> old.job = d)
  /\ \/ q.jobs = old.jobs
     \/ old.jobs # <<>> /\ q.jobs = Tail(old.jobs)
     \/ q.jobs = Append(old.jobs, c)

LEMMA LaneKeeps ==
  ASSUME PartInv, CallTypes, BudgetOK', NEW l \in Lanes, NEW q \in LaneType, NEW c \in Callers, NEW k,
         queue' = [queue EXCEPT ![l] = q], call' = [call EXCEPT ![c] = k],
         chat' = chat \/ chat' = Append(chat, <<c, k.part>>), k.part \in Nat \ {0},
         LaneMoves(queue[l], q, c), Placed(k, c, queue', chat')
  PROVE  PartInv'
<1>1. /\ call'[c] = k /\ \A d \in Callers : d # c => call'[d] = call[d]
      /\ call' = [d \in Callers |-> call'[d]]
  BY CallIs DEF PartInv
<1>2. chat \in Seq(Callers \X (Nat \ {0})) /\ chat' \in Seq(Callers \X (Nat \ {0}))
  <2>1. chat \in Seq(Callers \X (Nat \ {0})) /\ <<c, k.part>> \in Callers \X (Nat \ {0})
    BY DEF PartInv, CallShape
  <2>2. Append(chat, <<c, k.part>>) \in Seq(Callers \X (Nat \ {0}))
    BY <2>1
  <2> QED BY <2>1, <2>2
<1>3. queue'[l] = q /\ \A m \in Lanes : m # l => queue'[m] = queue[m]
  BY LaneIs
<1>4. Working'
  BY <1>3 DEF PartInv, Working, LaneMoves
<1>5. ASSUME NEW d \in Callers, d # c
      PROVE  Placed(call'[d], d, queue', chat')
  <2>1. PICK j : j = call[d] /\ j = call'[d]
    BY <1>1, <1>5
  <2>2. Placed(j, d, queue, chat)
    BY <2>1 DEF PartInv
  <2>3. PICK jobs \in Seq(Callers), more \in Seq(Callers) : jobs = queue[l].jobs /\ more = q.jobs
    BY DEF CallTypes, LaneType
  <2>4. \A i, n \in 1..Len(queue[l].jobs) : queue[l].jobs[i] = d /\ queue[l].jobs[n] = d => i = n
    BY <2>2 DEF Placed, Once
  <2>5. /\ (\E i \in 1..Len(q.jobs) : q.jobs[i] = d) => (\E i \in 1..Len(queue[l].jobs) : queue[l].jobs[i] = d)
        /\ \A i, n \in 1..Len(q.jobs) : q.jobs[i] = d /\ q.jobs[n] = d => i = n
    <3>1. more = jobs \/ (jobs # <<>> /\ more = Tail(jobs)) \/ more = Append(jobs, c)
      BY <2>3 DEF LaneMoves
    <3>2. \A i, n \in 1..Len(jobs) : jobs[i] = d /\ jobs[n] = d => i = n
      BY <2>3, <2>4
    <3>3. /\ (\E i \in 1..Len(more) : more[i] = d) => (\E i \in 1..Len(jobs) : jobs[i] = d)
          /\ \A i, n \in 1..Len(more) : more[i] = d /\ more[n] = d => i = n
      BY <1>5, <3>1, <3>2, Shorter
    <3> QED BY <2>3, <3>3
  <2>6. PICK r : r = queue'
    OBVIOUS
  <2>7. \A m \in Lanes : AtWork(r, m, d) <=> AtWork(queue, m, d)
    BY <1>3, <1>5, <2>6 DEF AtWork, LaneMoves
  <2>8. \A m \in Lanes : InLine(r, m, d) => InLine(queue, m, d)
    BY <1>3, <2>5, <2>6 DEF InLine
  <2>9. \A m \in Lanes : \A i, n \in 1..Len(r[m].jobs) : r[m].jobs[i] = d /\ r[m].jobs[n] = d => i = n
    <3>1. \A m \in Lanes : \A i, n \in 1..Len(queue[m].jobs) : queue[m].jobs[i] = d /\ queue[m].jobs[n] = d => i = n
      BY <2>2 DEF Placed, Once
    <3> QED BY <1>3, <2>5, <2>6, <3>1
  <2>10. Placed(j, d, r, chat)
    BY <2>2, <2>7, <2>8, <2>9, StaysInPlace
  <2>11. Placed(j, d, r, chat')
    <3>1. CASE chat' = chat
      BY <2>10, <3>1
    <3>2. CASE chat' = Append(chat, <<c, k.part>>)
      BY <1>2, <1>5, <2>10, <3>2, PlacedGrows
    <3> QED BY <3>1, <3>2
  <2> QED BY <2>1, <2>6, <2>11
<1>6. \A d \in Callers : Placed(call'[d], d, queue', chat')
  BY <1>1, <1>5
<1>7. CallShape'
  BY <1>1, <1>2 DEF CallShape
<1> QED BY <1>4, <1>6, <1>7 DEF PartInv

(* An outcome: the call is at no place, so it may have one. *)
ToOutcome(k, res, tried) == [[k EXCEPT !.done = res] EXCEPT !.tried = tried]

LEMMA RecordOutcome ==
  ASSUME NEW k, CallRecord(k), NEW res, NEW tried
  PROVE  Like(ToOutcome(k, res, tried), k.pc, k.op, k.part, k.ended, tried, res, k.result)
<1>1. PICK a : a = [k EXCEPT !.done = res]
  OBVIOUS
<1>2. Like(a, k.pc, k.op, k.part, k.ended, k.tried, res, k.result)
  BY <1>1, IsLike, LikeWith
<1>3. Like([a EXCEPT !.tried = tried], k.pc, k.op, k.part, k.ended, tried, res, k.result)
  BY <1>2, LikeWith
<1> QED BY <1>1, <1>3 DEF ToOutcome

LEMMA DoneIs ==
  ASSUME NEW k, CallRecord(k), NEW res
  PROVE  [k EXCEPT !.done = res] = ToOutcome(k, res, k.tried)
  BY DEF CallRecord, ToOutcome

LEMMA OutcomeIs ==
  ASSUME NEW c, NEW k, NEW q, NEW r, NEW ch, NEW more, Placed(k, c, q, ch), NEW res, res # "none", NEW tried,
         \A m \in Lanes : ~HasCall(r, m, c), k.ended = "queued" => tried = FALSE,
         Begun(k, c, more), InOrder(c, more), \A x : ShownIn(ch, c, x) => ShownIn(more, c, x),
         res = "ok" => ShownIn(more, c, k.part)
  PROVE  Placed(ToOutcome(k, res, tried), c, r, more)
<1>1. PICK j : j = ToOutcome(k, res, tried)
  OBVIOUS
<1>2. CallRecord(k)
  BY DEF Placed, CallOK
<1>3. /\ CallRecord(j) /\ j.pc = k.pc /\ j.op = k.op /\ j.part = k.part /\ j.ended = k.ended
      /\ j.tried = tried /\ j.done = res /\ j.result = k.result
  <2>1. Like(j, k.pc, k.op, k.part, k.ended, tried, res, k.result)
    BY <1>1, <1>2, RecordOutcome
  <2> QED BY <2>1 DEF Like
<1>4. CallOK(j, c, r, more)
  <2>1. \A m \in Lanes : ~AtWork(r, m, c)
    BY DEF HasCall
  <2> QED BY <1>3, <2>1 DEF Placed, CallOK
<1>5. Begun(j, c, more)
  BY <1>3 DEF Begun
<1>6. Once(r, c)
  BY NoPlace DEF HasCall
<1> QED BY <1>1, <1>3, <1>4, <1>5, <1>6 DEF Placed

LEMMA WorksFor ==
  ASSUME PartInv, CallTypes, NEW l \in Lanes, queue[l].pc \in {"pace", "calling", "backoff"}
  PROVE  /\ queue[l].job \in Callers
         /\ \A m \in Lanes : ~InLine(queue, m, queue[l].job) /\ (AtWork(queue, m, queue[l].job) => m = l)
<1>1. queue[l].job \in Callers \cup {"none"} /\ queue[l].job # "none"
  BY DEF CallTypes, LaneType, PartInv, Working
<1>2. Once(queue, queue[l].job)
  BY <1>1 DEF PartInv, Placed
<1>3. AtWork(queue, l, queue[l].job)
  BY DEF AtWork
<1> QED BY <1>1, <1>2, <1>3 DEF Once, HasCall

LEMMA ChatOf ==
  ASSUME PartInv, NEW c \in Callers, chat' = chat \/ chat' = Append(chat, <<c, call[c].part>>), call[c].pc # "idle"
  PROVE  /\ call[c].part \in Nat \ {0} /\ Begun(call[c], c, chat') /\ InOrder(c, chat')
         /\ \A x : ShownIn(chat, c, x) => ShownIn(chat', c, x)
         /\ chat' # chat => ShownIn(chat', c, call[c].part)
<1>1. PICK k, more : k = call[c] /\ more = chat'
  OBVIOUS
<1>2. Placed(k, c, queue, chat) /\ chat \in Seq(Callers \X (Nat \ {0}))
  BY <1>1 DEF PartInv, CallShape
<1>3. k.part \in Nat \ {0}
  BY <1>1, <1>2 DEF Placed, CallOK
<1>4. CASE more = chat
  BY <1>1, <1>2, <1>3, <1>4 DEF Placed
<1>5. CASE more = Append(chat, <<c, k.part>>)
  <2>1. /\ Begun(k, c, more) /\ InOrder(c, more) /\ ShownIn(more, c, k.part)
        /\ \A x : ShownIn(chat, c, x) => ShownIn(more, c, x)
    <3>1. PICK p \in Nat \ {0} : p = k.part
      BY <1>3
    <3>2. Begun(k, c, chat) /\ InOrder(c, chat) /\ more = Append(chat, <<c, p>>) /\ k.part \in Nat
      BY <1>2, <1>3, <1>5, <3>1 DEF Placed
    <3>3. /\ Begun(k, c, more) /\ InOrder(c, more) /\ ShownIn(more, c, p)
          /\ \A x : ShownIn(chat, c, x) => ShownIn(more, c, x)
      <4>1. chat \in Seq(Callers \X (Nat \ {0})) /\ (c = c => k.part = p)
        BY <1>2, <3>1
      <4> QED BY <3>2, <4>1, ChatGrows
    <3> QED BY <3>1, <3>3
  <2> QED BY <1>1, <1>3, <2>1
<1> QED BY <1>1, <1>4, <1>5

LEMMA OutcomePlaced ==
  ASSUME NEW c, Placed(call[c], c, queue, chat), \A m \in Lanes : ~HasCall(queue', m, c),
         Begun(call[c], c, chat'), InOrder(c, chat'), \A x : ShownIn(chat, c, x) => ShownIn(chat', c, x),
         NEW res, res # "none", res = "ok" => ShownIn(chat', c, call[c].part),
         NEW tried, call[c].ended = "queued" => tried = FALSE, NEW k, k = ToOutcome(call[c], res, tried)
  PROVE  Placed(k, c, queue', chat')
<1>1. PICK j, q, r, ch, more : j = call[c] /\ q = queue /\ r = queue' /\ ch = chat /\ more = chat'
  OBVIOUS
<1>2. /\ Placed(j, c, q, ch) /\ (\A m \in Lanes : ~HasCall(r, m, c))
      /\ Begun(j, c, more) /\ InOrder(c, more) /\ (\A x : ShownIn(ch, c, x) => ShownIn(more, c, x))
      /\ (res = "ok" => ShownIn(more, c, j.part)) /\ (j.ended = "queued" => tried = FALSE)
  BY <1>1
<1>3. Placed(ToOutcome(j, res, tried), c, r, more)
  BY <1>2, OutcomeIs
<1> QED BY <1>1, <1>3

LEMMA JobEnds ==
  ASSUME PartInv, CallTypes, BudgetOK', NEW l \in Lanes, NEW c, c = queue[l].job,
         queue[l].pc \in {"pace", "calling", "backoff"},
         NEW q \in LaneType, q.job = "none", q.pc \notin {"pace", "calling", "backoff"}, q.jobs = queue[l].jobs,
         queue' = [queue EXCEPT ![l] = q], NEW res, res # "none", NEW tried, call[c].ended = "queued" => tried = FALSE,
         NEW k, k = ToOutcome(call[c], res, tried), call' = [call EXCEPT ![c] = k],
         chat' = chat \/ chat' = Append(chat, <<c, call[c].part>>), res = "ok" => chat' # chat
  PROVE  PartInv'
<1>1. c \in Callers /\ "none" \notin Callers /\ \A m \in Lanes : ~InLine(queue, m, c) /\ (AtWork(queue, m, c) => m = l)
  BY WorksFor, CallAssumption
<1>2. Placed(call[c], c, queue, chat)
  BY <1>1 DEF PartInv
<1>3. call[c].pc # "idle"
  <2>1. HasCall(queue, l, c)
    BY DEF HasCall, AtWork
  <2> QED BY <1>2, <2>1 DEF Placed, CallOK
<1>4. queue'[l] = q /\ \A m \in Lanes : m # l => queue'[m] = queue[m]
  BY LaneIs
<1>5. \A m \in Lanes : ~HasCall(queue', m, c)
  <2>1. PICK r : r = queue'
    OBVIOUS
  <2>2. \A m \in Lanes : ~InLine(r, m, c) /\ ~AtWork(r, m, c)
    BY <1>1, <1>4, <2>1 DEF InLine, AtWork
  <2>3. \A m \in Lanes : ~HasCall(r, m, c)
    BY <2>2 DEF HasCall
  <2> QED BY <2>1, <2>3
<1>6. /\ call[c].part \in Nat \ {0} /\ Begun(call[c], c, chat') /\ InOrder(c, chat')
      /\ \A x : ShownIn(chat, c, x) => ShownIn(chat', c, x)
      /\ res = "ok" => ShownIn(chat', c, call[c].part)
  BY <1>1, <1>3, ChatOf
<1>8. Placed(k, c, queue', chat') /\ k.part = call[c].part
  <2>1. Placed(k, c, queue', chat')
    BY <1>2, <1>5, <1>6, OutcomePlaced
  <2>2. CallRecord(call[c])
    BY <1>2 DEF Placed, CallOK
  <2>3. Like(k, call[c].pc, call[c].op, call[c].part, call[c].ended, tried, res, call[c].result)
    BY <2>2, RecordOutcome
  <2> QED BY <2>1, <2>3 DEF Like
<1>9. LaneMoves(queue[l], q, c)
  BY <1>1 DEF LaneMoves
<1>10. k.part \in Nat \ {0} /\ (chat' = chat \/ chat' = Append(chat, <<c, k.part>>))
  BY <1>6, <1>8
<1> QED BY <1>1, <1>8, <1>9, <1>10, LaneKeeps

LEMMA TranslateIs ==
  ASSUME NEW code, NEW desc
  PROVE  Translate(code, desc) \notin {"none", "ok"}
<1>1. Classify400(desc) \notin {"none", "ok"}
  BY DEF Classify400
<1> QED BY <1>1 DEF Translate

LEMMA EndsPart ==
  ASSUME PartInv, CallTypes, BudgetOK', NEW l \in Lanes, queue[l].pc \in {"pace", "calling", "backoff"},
         NEW res, res # "none", Ends(l, res), NEW a, Taken(l, a), res = "ok" => a = Fine
  PROVE  PartInv'
<1>1. PICK c : c = queue[l].job
  OBVIOUS
<1>2. c \in Callers
  BY <1>1, WorksFor
<1>3. PICK pc \in {"idle", "draining"} : pc = IF stopping THEN "draining" ELSE "idle"
  OBVIOUS
<1>4. PICK q : q = [queue[l] EXCEPT !.pc = pc, !.job = "none"]
  OBVIOUS
<1>5. queue' = [queue EXCEPT ![l] = q]
  BY <1>3, <1>4 DEF Ends
<1>6. q \in LaneType /\ q.job = "none" /\ q.pc = pc /\ q.jobs = queue[l].jobs
  BY <1>4 DEF CallTypes, LaneType, QueuePc
<1>7. CallRecord(call[c]) /\ (call[c].ended = "queued" => call[c].tried = FALSE) /\ Placed(call[c], c, queue, chat)
  BY <1>2 DEF PartInv, Placed, CallOK
<1>8. PICK k : k = [call[c] EXCEPT !.done = res]
  OBVIOUS
<1>9. k = ToOutcome(call[c], res, call[c].tried)
  BY <1>7, <1>8, DoneIs
<1>10. call' = [call EXCEPT ![c] = k]
  BY <1>1, <1>8 DEF Ends
<1>11. /\ chat' = chat \/ chat' = Append(chat, <<c, call[c].part>>)
       /\ res = "ok" => chat' = Append(chat, <<c, call[c].part>>)
  BY <1>1 DEF Taken, TakenBy
<1>12. call[c].part \in Nat \ {0}
  <2>1. HasCall(queue, l, c)
    BY <1>1 DEF HasCall, AtWork
  <2> QED BY <1>7, <2>1 DEF Placed, CallOK
<1>13. res = "ok" => chat' # chat
  <2>1. chat \in Seq(Callers \X (Nat \ {0})) /\ <<c, call[c].part>> \in Callers \X (Nat \ {0})
    BY <1>2, <1>12 DEF PartInv, CallShape
  <2>2. Append(chat, <<c, call[c].part>>) # chat
    BY <2>1
  <2> QED BY <1>11, <2>2
<1>14. q.pc \notin {"pace", "calling", "backoff"}
  BY <1>3, <1>6
<1>15. call[c].ended = "queued" => call[c].tried = FALSE
  BY <1>7
<1> QED BY <1>1, <1>5, <1>6, <1>9, <1>10, <1>11, <1>13, <1>14, <1>15, JobEnds

LEMMA JobGoesOn ==
  ASSUME PartInv, CallTypes, BudgetOK', NEW l \in Lanes, NEW c, c = queue[l].job,
         queue[l].pc \in {"pace", "calling", "backoff"},
         NEW q \in LaneType, q.job = c, q.pc \in {"pace", "calling", "backoff"}, q.jobs = queue[l].jobs,
         queue' = [queue EXCEPT ![l] = q], NEW tried, tried = call[c].tried \/ tried = TRUE,
         NEW k, k = ToOutcome(call[c], call[c].done, tried), call' = [call EXCEPT ![c] = k],
         chat' = chat \/ chat' = Append(chat, <<c, call[c].part>>)
  PROVE  PartInv'
<1>1. c \in Callers /\ "none" \notin Callers
  BY WorksFor, CallAssumption
<1>2. Placed(call[c], c, queue, chat)
  BY <1>1 DEF PartInv
<1>3. PICK j, r, more : j = call[c] /\ r = queue' /\ more = chat'
  OBVIOUS
<1>4. AtWork(queue, l, c) /\ HasCall(queue, l, c) /\ AtWork(r, l, c)
  <2>1. queue'[l] = q
    BY LaneIs
  <2> QED BY <1>3, <2>1 DEF HasCall, AtWork
<1>5. j.pc # "idle" /\ j.done = "none" /\ j.ended # "queued" /\ CallRecord(j)
  BY <1>2, <1>3, <1>4 DEF Placed, CallOK
<1>6. /\ j.part \in Nat \ {0} /\ Begun(j, c, more) /\ InOrder(c, more)
      /\ \A x : ShownIn(chat, c, x) => ShownIn(more, c, x)
  BY <1>1, <1>3, <1>5, ChatOf
<1>7. Placed(j, c, r, chat)
  <2>1. queue'[l] = q /\ \A m \in Lanes : m # l => queue'[m] = queue[m]
    BY LaneIs
  <2>2. \A m \in Lanes : r[m].job = queue[m].job /\ r[m].jobs = queue[m].jobs
    BY <1>3, <2>1
  <2>3. \A m \in Lanes : (AtWork(r, m, c) <=> AtWork(queue, m, c)) /\ (InLine(r, m, c) => InLine(queue, m, c))
    BY <2>2 DEF AtWork, InLine
  <2>4. \A m \in Lanes : \A i, n \in 1..Len(r[m].jobs) : r[m].jobs[i] = c /\ r[m].jobs[n] = c => i = n
    BY <1>2, <2>2 DEF Placed, Once
  <2>5. Placed(j, c, queue, chat)
    BY <1>2, <1>3
  <2> QED BY <2>3, <2>4, <2>5, StaysInPlace
<1>8. /\ CallRecord(k) /\ k.pc = j.pc /\ k.op = j.op /\ k.part = j.part /\ k.ended = j.ended
      /\ k.tried = tried /\ k.done = j.done /\ k.result = j.result
  <2>1. Like(k, j.pc, j.op, j.part, j.ended, tried, j.done, j.result)
    BY <1>3, <1>5, RecordOutcome
  <2> QED BY <2>1 DEF Like
<1>9. CallOK(k, c, r, more)
  BY <1>4, <1>5, <1>6, <1>7, <1>8 DEF Placed, CallOK
<1>10. Placed(k, c, r, more)
  BY <1>6, <1>7, <1>8, <1>9 DEF Placed, Begun
<1>11. k.part \in Nat \ {0} /\ (chat' = chat \/ chat' = Append(chat, <<c, k.part>>)) /\ Placed(k, c, queue', chat')
  BY <1>3, <1>6, <1>8, <1>10
<1>12. LaneMoves(queue[l], q, c)
  BY <1>1 DEF LaneMoves
<1> QED BY <1>1, <1>11, <1>12, LaneKeeps

LEMMA JobStays ==
  ASSUME PartInv, CallTypes, BudgetOK', NEW l \in Lanes, queue[l].pc \in {"pace", "calling", "backoff"},
         NEW q \in LaneType, q.job = queue[l].job, q.pc \in {"pace", "calling", "backoff"}, q.jobs = queue[l].jobs,
         queue' = [queue EXCEPT ![l] = q], UNCHANGED call,
         chat' = chat \/ chat' = Append(chat, <<queue[l].job, call[queue[l].job].part>>)
  PROVE  PartInv'
<1>1. PICK c \in Callers : c = queue[l].job
  BY WorksFor
<1>2. PICK tried : tried = call[c].tried
  OBVIOUS
<1>3. PICK k : k = ToOutcome(call[c], call[c].done, tried)
  OBVIOUS
<1>4. call' = [call EXCEPT ![c] = k]
  <2>1. CallRecord(call[c])
    BY DEF PartInv, Placed, CallOK
  <2>2. k = call[c]
    BY <1>2, <1>3, <2>1 DEF ToOutcome, CallRecord
  <2> QED BY <2>2 DEF PartInv, CallShape
<1>5. chat' = chat \/ chat' = Append(chat, <<c, call[c].part>>)
  BY <1>1
<1>6. q.job = c /\ (tried = call[c].tried \/ tried = TRUE)
  BY <1>1, <1>2
<1> QED BY <1>1, <1>3, <1>4, <1>5, <1>6, JobGoesOn, ZenonT(60)

LEMMA InterruptParts ==
  ASSUME PartInv, CallTypes, NEW l \in Lanes, Interrupt(l)
  PROVE  PartInv'
<1>1. BudgetOK'
  BY DEF PartInv, BudgetOK, Interrupt
<1>2. PICK a : Taken(l, a)
  BY DEF Interrupt
<1>3. PICK res \in {"stopped", "cancelled"} : Ends(l, res)
  BY DEF Interrupt
<1>4. queue[l].pc \in {"pace", "calling", "backoff"}
  BY DEF Interrupt
<1> QED BY <1>1, <1>2, <1>3, <1>4, EndsPart

LEMMA AnsweredParts ==
  ASSUME PartInv, CallTypes, NEW l \in Lanes, NEW a, Answered(l, a)
  PROVE  PartInv'
<1>1. BudgetOK'
  <2>1. UNCHANGED budget \/ Spends("faults")
    BY DEF Answered
  <2>2. ASSUME UNCHANGED budget PROVE BudgetOK'
    BY <2>2 DEF PartInv, BudgetOK
  <2> QED BY <2>1, <2>2, SpendsKeeps DEF PartInv
<1>2. queue[l].pc = "calling" /\ Taken(l, a)
  BY DEF Answered
<1>3. PICK err : err = Translate(a.code, a.desc)
  OBVIOUS
<1>4. \/ Ends(l, IF a = Fine THEN "ok" ELSE IF IsMarkupError(err, a.desc) THEN "markup" ELSE err)
      \/ queue' = [queue EXCEPT ![l] = [@ EXCEPT !.pc = "backoff", !.wait = Gap]] /\ UNCHANGED call
  BY <1>3, Zenon DEF Answered
<1>5. CASE Ends(l, IF a = Fine THEN "ok" ELSE IF IsMarkupError(err, a.desc) THEN "markup" ELSE err)
  <2>1. err \notin {"none", "ok"}
    BY <1>3, TranslateIs
  <2>2. PICK res : res = IF a = Fine THEN "ok" ELSE IF IsMarkupError(err, a.desc) THEN "markup" ELSE err
    OBVIOUS
  <2>3. res # "none" /\ (res = "ok" => a = Fine)
    BY <2>1, <2>2
  <2>4. Ends(l, res)
    BY <1>5, <2>2
  <2> QED BY <1>1, <1>2, <2>3, <2>4, EndsPart
<1>6. CASE queue' = [queue EXCEPT ![l] = [@ EXCEPT !.pc = "backoff", !.wait = Gap]] /\ UNCHANGED call
  <2>1. PICK q : q = [queue[l] EXCEPT !.pc = "backoff", !.wait = Gap]
    OBVIOUS
  <2>2. q \in LaneType /\ q.job = queue[l].job /\ q.pc = "backoff" /\ q.jobs = queue[l].jobs
    BY <2>1, Positive DEF CallTypes, LaneType, QueuePc
  <2>3. chat' = chat \/ chat' = Append(chat, <<queue[l].job, call[queue[l].job].part>>)
    BY <1>2 DEF Taken
  <2>4. queue' = [queue EXCEPT ![l] = q] /\ UNCHANGED call
    BY <1>6, <2>1
  <2> QED BY <1>1, <1>2, <2>2, <2>3, <2>4, JobStays
<1> QED BY <1>4, <1>5, <1>6

LEMMA TriesAgainParts ==
  ASSUME PartInv, CallTypes, NEW l \in Lanes, NEW q \in LaneType, q = NextTry(queue[l]), TriesAgain(l)
  PROVE  PartInv'
<1>1. BudgetOK' /\ queue[l].pc = "backoff" /\ queue' = [queue EXCEPT ![l] = q] /\ UNCHANGED <<call, chat>>
  BY DEF PartInv, BudgetOK, TriesAgain
<1>2. q.job = queue[l].job /\ q.pc = "pace" /\ q.jobs = queue[l].jobs
  BY DEF CallTypes, LaneType, NextTry
<1> QED BY <1>1, <1>2, JobStays

LEMMA AttemptParts ==
  ASSUME PartInv, CallTypes, NEW l \in Lanes, NEW p \in LaneType, p = Stamped(queue[l]), Attempt(l)
  PROVE  PartInv'
<1>1. BudgetOK' /\ queue[l].pc = "pace" /\ chat' = chat
  BY DEF PartInv, BudgetOK, Attempt
<1>2. PICK c \in Callers : c = queue[l].job
  BY <1>1, WorksFor
<1>3. PICK denied \in BOOLEAN : denied <=> call[c].op.guarded /\ ~granted
  OBVIOUS
<1>4. p.jobs = queue[l].jobs
  BY DEF Stamped, CallTypes, LaneType
<1>5. PICK q : q = [p EXCEPT !.pc = IF denied THEN "idle" ELSE "calling", !.job = IF denied THEN "none" ELSE c]
  OBVIOUS
<1>6. queue' = [queue EXCEPT ![l] = q]
  BY <1>2, <1>3, <1>5 DEF Attempt
<1>7. q \in LaneType /\ q.jobs = queue[l].jobs /\ q.pc = (IF denied THEN "idle" ELSE "calling") /\ q.job = IF denied THEN "none" ELSE c
  BY <1>4, <1>5 DEF LaneType, QueuePc
<1>8. PICK res, tried : /\ res = (IF denied THEN "denied" ELSE call[c].done)
                       /\ tried \in BOOLEAN /\ tried = ~denied
  BY Zenon
<1>9. PICK k : k = ToOutcome(call[c], res, tried)
  OBVIOUS
<1>10. call' = [call EXCEPT ![c] = k]
  <2>1. PICK f : f = [call EXCEPT ![c].done = res]
    OBVIOUS
  <2>2. call' = [f EXCEPT ![c].tried = tried]
    BY <1>2, <1>3, <1>8, <2>1 DEF Attempt
  <2>3. f = [call EXCEPT ![c] = [call[c] EXCEPT !.done = res]]
    BY <2>1
  <2>4. call' = [f EXCEPT ![c] = [f[c] EXCEPT !.tried = tried]]
    BY <2>2
  <2>5. f[c] = [call[c] EXCEPT !.done = res]
    BY <2>3 DEF PartInv, CallShape
  <2>6. call' = [f EXCEPT ![c] = k]
    BY <1>9, <2>4, <2>5 DEF ToOutcome
  <2> QED BY <2>3, <2>6 DEF PartInv, CallShape
<1>11. CASE denied
  <2>1. q.job = "none" /\ q.pc \notin {"pace", "calling", "backoff"} /\ res \notin {"none", "ok"} /\ tried = FALSE
    BY <1>7, <1>8, <1>11
  <2>2. /\ call[c].ended = "queued" => tried = FALSE
        /\ chat' = chat \/ chat' = Append(chat, <<c, call[c].part>>)
        /\ res # "none" /\ (res = "ok" => chat' # chat)
    BY <1>1, <2>1
  <2> QED BY <1>1, <1>2, <1>6, <1>7, <1>9, <1>10, <2>1, <2>2, JobEnds
<1>12. CASE ~denied
  <2>1. q.job = c /\ q.pc = "calling" /\ res = call[c].done /\ tried = TRUE
    BY <1>7, <1>8, <1>12
  <2>2. k = ToOutcome(call[c], call[c].done, tried)
    BY <1>9, <2>1
  <2> QED BY <1>1, <1>2, <1>6, <1>7, <1>10, <2>1, <2>2, JobGoesOn
<1> QED BY <1>11, <1>12

LEMMA HeadIs ==
  ASSUME NEW S, NEW s \in Seq(S), s # <<>>, NEW c, \A i, j \in 1..Len(s) : s[i] = c /\ s[j] = c => i = j, c = Head(s)
  PROVE  s[1] = c /\ 1 \in 1..Len(s) /\ \A i \in 1..Len(Tail(s)) : Tail(s)[i] # c
<1>1. s[1] = c /\ 1 \in 1..Len(s) /\ Tail(s) \in Seq(S) /\ Len(Tail(s)) = Len(s) - 1 /\ Len(s) \in Nat
  OBVIOUS
<1>2. ASSUME NEW i \in 1..Len(Tail(s)), Tail(s)[i] = c PROVE FALSE
  <2>1. i + 1 \in 1..Len(s) /\ s[i + 1] = c
    BY <1>1, <1>2
  <2>2. i + 1 = 1
    BY <1>1, <2>1
  <2> QED BY <1>2, <2>2
<1> QED BY <1>1, <1>2

LEMMA TakeParts ==
  ASSUME PartInv, CallTypes, NEW l \in Lanes, Take(l), NEW wait \in Nat, wait = PaceWait(queue[l])
  PROVE  PartInv'
<1>1. BudgetOK' /\ chat' = chat /\ queue[l].pc = "idle" /\ queue[l].jobs # <<>>
  BY DEF PartInv, BudgetOK, Take
<1>2. PICK jobs \in Seq(Callers), c \in Callers, rest \in Seq(Callers) :
        jobs = queue[l].jobs /\ c = Head(jobs) /\ rest = Tail(jobs)
  <2>1. queue[l].jobs \in Seq(Callers)
    BY DEF CallTypes, LaneType
  <2> QED BY <1>1, <2>1, HeadTail
<1>3. PICK k : k = call[c]
  OBVIOUS
<1>4. Placed(k, c, queue, chat)
  BY <1>3 DEF PartInv
<1>5. jobs # <<>> /\ \A i, j \in 1..Len(jobs) : jobs[i] = c /\ jobs[j] = c => i = j
  BY <1>1, <1>2, <1>4 DEF Placed, Once
<1>6. jobs[1] = c /\ 1 \in 1..Len(jobs) /\ \A i \in 1..Len(rest) : rest[i] # c
  BY <1>2, <1>5, HeadIs
<1>7. InLine(queue, l, c) /\ HasCall(queue, l, c)
  BY <1>2, <1>6 DEF InLine, HasCall
<1>8. \A m \in Lanes : ~AtWork(queue, m, c) /\ (InLine(queue, m, c) => m = l)
  BY <1>4, <1>7 DEF Placed, Once, HasCall
<1>9. k.pc # "idle" /\ k.done = "none" /\ CallRecord(k) /\ k.part \in Nat \ {0} /\ (k.ended = "queued" => k.tried = FALSE)
  BY <1>4, <1>7 DEF Placed, CallOK
<1>10. queue[l].job = "none" /\ "none" \notin Callers /\ queue[l] \in LaneType
  BY <1>1, CallAssumption DEF PartInv, Working, CallTypes
<1>11. CASE Skips(c)
  <2>1. PICK q : q = [queue[l] EXCEPT !.jobs = rest]
    OBVIOUS
  <2>2. q \in LaneType /\ q.jobs = rest /\ q.job = "none" /\ q.pc = "idle"
    BY <1>1, <1>10, <2>1 DEF LaneType
  <2>3. queue' = [queue EXCEPT ![l] = q] /\ call' = [call EXCEPT ![c].done = "cancelled"]
    BY <1>2, <1>11, <2>1 DEF Take
  <2>4. PICK x : x = ToOutcome(call[c], "cancelled", k.tried)
    OBVIOUS
  <2>5. [call[c] EXCEPT !.done = "cancelled"] = x
    BY <1>3, <1>9, <2>4, DoneIs
  <2>6. call' = [call EXCEPT ![c] = x]
    BY <2>3, <2>5
  <2>7. \A m \in Lanes : ~HasCall(queue', m, c)
    <3>1. PICK r : r = queue'
      OBVIOUS
    <3>2. r[l] = q /\ \A m \in Lanes : m # l => r[m] = queue[m]
      BY <2>3, <3>1, LaneIs
    <3>3. ~InLine(r, l, c) /\ ~AtWork(r, l, c)
      BY <1>6, <1>10, <2>2, <3>2 DEF InLine, AtWork
    <3>4. \A m \in Lanes : m # l => ~InLine(r, m, c) /\ ~AtWork(r, m, c)
      BY <1>8, <3>2 DEF InLine, AtWork
    <3>5. \A m \in Lanes : ~HasCall(r, m, c)
      BY <3>3, <3>4 DEF HasCall
    <3> QED BY <3>1, <3>5
  <2>8. /\ Placed(call[c], c, queue, chat)
        /\ Begun(call[c], c, chat') /\ InOrder(c, chat') /\ \A y : ShownIn(chat, c, y) => ShownIn(chat', c, y)
    BY <1>1, <1>3, <1>4 DEF Placed
  <2>9. call[c].ended = "queued" => k.tried = FALSE
    BY <1>3, <1>9
  <2>10. Placed(x, c, queue', chat')
    BY <2>4, <2>7, <2>8, <2>9, OutcomePlaced
  <2>11. x.part \in Nat \ {0}
    <3>1. Like(x, k.pc, k.op, k.part, k.ended, k.tried, "cancelled", k.result)
      BY <1>3, <1>9, <2>4, RecordOutcome
    <3> QED BY <1>9, <3>1 DEF Like
  <2>12. LaneMoves(queue[l], q, c)
    BY <1>1, <1>2, <1>10, <2>2 DEF LaneMoves
  <2> QED BY <1>1, <2>2, <2>3, <2>6, <2>10, <2>11, <2>12, LaneKeeps
<1>12. CASE ~Skips(c)
  <2>1. PICK q : q = FirstTry(queue[l])
    OBVIOUS
  <2>2. q = [queue[l] EXCEPT !.jobs = rest, !.job = c, !.pc = "pace", !.try = 1, !.wait = wait]
    BY <1>2, <2>1 DEF FirstTry
  <2>3. q \in LaneType
    BY <1>10, <2>2 DEF LaneType, QueuePc
  <2>4. q.jobs = rest /\ q.job = c /\ q.pc = "pace"
    BY <1>10, <2>2 DEF LaneType
  <2>5. queue' = [queue EXCEPT ![l] = q] /\ UNCHANGED call
    BY <1>2, <1>12, <2>1 DEF Take
  <2>6. call' = [call EXCEPT ![c] = k]
    BY <1>3, <2>5 DEF PartInv, CallShape
  <2>7. PICK r : r = queue'
    OBVIOUS
  <2>8. r[l] = q /\ \A m \in Lanes : m # l => r[m] = queue[m]
    BY <2>5, <2>7, LaneIs
  <2>9. AtWork(r, l, c) /\ ~InLine(r, l, c) /\ \A m \in Lanes : m # l => ~InLine(r, m, c) /\ ~AtWork(r, m, c)
    BY <1>6, <1>8, <2>4, <2>8 DEF InLine, AtWork
  <2>10. k.ended = "no"
    BY <1>3, <1>12 DEF Skips, Over
  <2>11. CallOK(k, c, r, chat)
    BY <1>4, <1>7, <1>9, <2>9, <2>10 DEF Placed, CallOK, HasCall
  <2>12. Once(r, c)
    BY <2>9, NoPlace
  <2>13. Placed(k, c, queue', chat')
    BY <1>1, <1>4, <2>7, <2>11, <2>12 DEF Placed
  <2>14. LaneMoves(queue[l], q, c)
    BY <1>1, <1>2, <1>10, <2>4 DEF LaneMoves
  <2> QED BY <1>1, <1>9, <2>3, <2>5, <2>6, <2>13, <2>14, LaneKeeps
<1> QED BY <1>11, <1>12

LEMMA EnqueueParts ==
  ASSUME PartInv, CallTypes, NEW c \in Callers, Enqueue(c)
  PROVE  PartInv'
<1>1. BudgetOK' /\ chat' = chat /\ call[c].pc = "enqueue"
  BY DEF PartInv, BudgetOK, Enqueue
<1>2. PICK j : j = call[c]
  OBVIOUS
<1>3. Placed(j, c, queue, chat)
  BY <1>2 DEF PartInv
<1>4. CallRecord(j) /\ j.part \in Nat \ {0} /\ j.op \in Ops /\ \A m \in Lanes : ~HasCall(queue, m, c)
  BY <1>1, <1>2, <1>3 DEF Placed, CallOK
<1>5. CASE UNCHANGED queue
  <2>1. PICK res \in {"cancelled", "stopped"} : call' = [call EXCEPT ![c] = Returned(c, res)]
    <3>1. \/ \E res \in {"cancelled", "stopped"} : call' = [call EXCEPT ![c] = Returned(c, res)]
          \/ queue' = [queue EXCEPT ![call[c].op.lane].jobs = Append(@, c)]
      BY DEF Enqueue
    <3>2. PICK l \in Lanes : l = call[c].op.lane
      BY <1>2, <1>4 DEF Ops
    <3>3. queue[l].jobs \in Seq(Callers) /\ queue \in [Lanes -> LaneType]
      BY DEF CallTypes, LaneType
    <3>4. ASSUME queue' = [queue EXCEPT ![l].jobs = Append(@, c)] PROVE FALSE
      <4>1. queue'[l].jobs = Append(queue[l].jobs, c)
        BY <3>3, <3>4 DEF LaneType
      <4>2. Append(queue[l].jobs, c) # queue[l].jobs
        BY <3>3
      <4> QED BY <1>5, <4>1, <4>2
    <3> QED BY <3>1, <3>2, <3>4
  <2>2. PICK k : k = Returned(c, res)
    OBVIOUS
  <2>3. CallOK(k, c, queue, chat) /\ Begun(k, c, chat)
    BY <1>1, <2>2, ReturnedIs
  <2> QED BY <1>1, <1>5, <2>1, <2>2, <2>3, CallerKeeps
<1>6. PICK l \in Lanes : l = call[c].op.lane
  BY <1>2, <1>4 DEF Ops
<1>7. CASE /\ queue' = [queue EXCEPT ![l].jobs = Append(@, c)]
           /\ call' = [call EXCEPT ![c].pc = "wait", ![c].done = "none", ![c].tried = FALSE]
  <2>1. PICK jobs \in Seq(Callers) : jobs = queue[l].jobs
    BY DEF CallTypes, LaneType
  <2>2. PICK more \in Seq(Callers) : more = Append(jobs, c)
    <3>1. Append(jobs, c) \in Seq(Callers)
      OBVIOUS
    <3> QED BY <3>1
  <2>3. PICK q : q = [queue[l] EXCEPT !.jobs = more]
    OBVIOUS
  <2>4. queue[l] \in LaneType /\ q \in LaneType /\ q.jobs = more /\ q.job = queue[l].job /\ q.pc = queue[l].pc
    BY <2>3 DEF CallTypes, LaneType
  <2>5. queue' = [queue EXCEPT ![l] = q]
    BY <1>7, <2>1, <2>2, <2>3
  <2>6. PICK k : k = ToWait(call[c])
    OBVIOUS
  <2>7. call' = [call EXCEPT ![c] = k]
    <3>1. PICK f : f = [call EXCEPT ![c].pc = "wait"]
      OBVIOUS
    <3>2. PICK g : g = [f EXCEPT ![c].done = "none"]
      OBVIOUS
    <3>3. call' = [g EXCEPT ![c].tried = FALSE]
      BY <1>7, <3>1, <3>2
    <3>4. f[c] = [call[c] EXCEPT !.pc = "wait"] /\ f = [call EXCEPT ![c] = f[c]]
      BY <3>1 DEF PartInv, CallShape
    <3>5. g[c] = [f[c] EXCEPT !.done = "none"] /\ g = [f EXCEPT ![c] = g[c]]
      BY <3>2, <3>4 DEF PartInv, CallShape
    <3>6. call'[c] = [g[c] EXCEPT !.tried = FALSE] /\ call' = [g EXCEPT ![c] = call'[c]]
      BY <3>3, <3>4, <3>5 DEF PartInv, CallShape
    <3>7. call'[c] = k
      BY <2>6, <3>4, <3>5, <3>6 DEF ToWait
    <3> QED BY <3>4, <3>5, <3>6, <3>7 DEF PartInv, CallShape
  <2>8. /\ CallRecord(k) /\ k.pc = "wait" /\ k.op = j.op /\ k.part = j.part /\ k.ended = j.ended
        /\ k.tried = FALSE /\ k.done = "none" /\ k.result = j.result
    <3>1. Like(k, "wait", j.op, j.part, j.ended, FALSE, "none", j.result)
      BY <1>2, <1>4, <2>6, RecordWaits
    <3> QED BY <3>1 DEF Like
  <2>9. PICK r : r = queue'
    OBVIOUS
  <2>10. r[l] = q /\ \A m \in Lanes : m # l => r[m] = queue[m]
    BY <2>5, <2>9, LaneIs
  <2>11. \A m \in Lanes : ~AtWork(queue, m, c) /\ ~InLine(queue, m, c)
    BY <1>4 DEF HasCall
  <2>12. \A m \in Lanes : ~AtWork(r, m, c) /\ (m # l => ~InLine(r, m, c))
    BY <2>4, <2>10, <2>11 DEF AtWork, InLine
  <2>13. \A i \in 1..Len(more) : more[i] = c => i = Len(jobs) + 1
    <3>1. \A i \in 1..Len(jobs) : jobs[i] # c
      BY <2>1, <2>11 DEF InLine
    <3> QED BY <2>2, <3>1
  <2>14. Once(r, c)
    <3>1. \A m \in Lanes : HasCall(r, m, c) => m = l
      BY <2>12 DEF HasCall
    <3>2. \A m \in Lanes : \A i, n \in 1..Len(r[m].jobs) : r[m].jobs[i] = c /\ r[m].jobs[n] = c => i = n
      <4>1. \A i, n \in 1..Len(r[l].jobs) : r[l].jobs[i] = c /\ r[l].jobs[n] = c => i = n
        BY <2>4, <2>10, <2>13
      <4>2. \A m \in Lanes : m # l => \A i \in 1..Len(r[m].jobs) : r[m].jobs[i] # c
        BY <2>12 DEF InLine
      <4> QED BY <4>1, <4>2
    <3> QED BY <2>12, <3>1, <3>2 DEF Once
  <2>15. CallOK(k, c, r, chat)
    BY <1>3, <1>4, <2>8, <2>12 DEF Placed, CallOK
  <2>16. Begun(k, c, chat)
    BY <1>3, <2>8 DEF Placed, Begun
  <2>17. Placed(k, c, queue', chat')
    BY <1>1, <1>3, <2>9, <2>14, <2>15, <2>16 DEF Placed
  <2>18. LaneMoves(queue[l], q, c)
    BY <2>1, <2>2, <2>4 DEF LaneMoves, PartInv, Working
  <2> QED BY <1>1, <1>4, <2>4, <2>5, <2>7, <2>8, <2>17, <2>18, LaneKeeps
<1> QED BY <1>5, <1>6, <1>7 DEF Enqueue

(* The steps that are not one call's. *)
LEMMA AllKeep ==
  ASSUME PartInv, BudgetOK', Working', UNCHANGED chat, call' = [c \in Callers |-> call'[c]],
         \A c \in Callers : Placed(call'[c], c, queue', chat)
  PROVE  PartInv'
  BY DEF PartInv, CallShape

LEMMA SamePlaces ==
  ASSUME NEW d, NEW k, NEW q, NEW r, NEW ch, Placed(k, d, q, ch),
         \A m \in Lanes : r[m].job = q[m].job /\ r[m].jobs = q[m].jobs
  PROVE  Placed(k, d, r, ch)
<1>1. \A m \in Lanes : (AtWork(r, m, d) <=> AtWork(q, m, d)) /\ (InLine(r, m, d) => InLine(q, m, d))
  BY DEF AtWork, InLine
<1>2. \A m \in Lanes : \A i, n \in 1..Len(r[m].jobs) : r[m].jobs[i] = d /\ r[m].jobs[n] = d => i = n
  BY DEF Placed, Once
<1> QED BY <1>1, <1>2, StaysInPlace

LEMMA TickParts ==
  ASSUME PartInv, CallTypes, Tick
  PROVE  PartInv'
<1>1. BudgetOK' /\ UNCHANGED <<call, chat>>
  BY DEF PartInv, BudgetOK, Tick
<1>2. \A m \in Lanes : queue'[m].pc = queue[m].pc /\ queue'[m].job = queue[m].job /\ queue'[m].jobs = queue[m].jobs
  <2> SUFFICES ASSUME NEW m \in Lanes
               PROVE  queue'[m].pc = queue[m].pc /\ queue'[m].job = queue[m].job /\ queue'[m].jobs = queue[m].jobs
    OBVIOUS
  <2>1. PICK q \in LaneType : q = queue[m]
    BY DEF CallTypes
  <2>2. PICK w, s : w = Max2(0, q.wait - 1) /\ s = Aged(q.stamps)
    OBVIOUS
  <2>3. Waited(q) = [q EXCEPT !.wait = w, !.stamps = s]
    BY <2>2 DEF Waited
  <2>4. queue'[m] = Waited(q)
    BY <2>1 DEF Tick
  <2> QED BY <2>1, <2>3, <2>4 DEF LaneType
<1>3. Working'
  BY <1>2 DEF PartInv, Working
<1>4. PICK r : r = queue'
  OBVIOUS
<1>5. \A d \in Callers : Placed(call[d], d, r, chat)
  BY <1>2, <1>4, SamePlaces DEF PartInv
<1> QED BY <1>1, <1>3, <1>4, <1>5, AllKeep DEF PartInv, CallShape

LEMMA DrainParts ==
  ASSUME PartInv, CallTypes, NEW l \in Lanes, Drain(l)
  PROVE  PartInv'
<1>1. BudgetOK' /\ UNCHANGED chat /\ queue[l].pc \in {"idle", "draining"}
  BY DEF PartInv, BudgetOK, Drain
<1>2. PICK q : q = [queue[l] EXCEPT !.pc = "stopped", !.jobs = <<>>]
  OBVIOUS
<1>3. q.pc = "stopped" /\ q.jobs = <<>> /\ q.job = "none" /\ queue[l].job = "none" /\ "none" \notin Callers
  BY <1>1, <1>2, CallAssumption DEF CallTypes, LaneType, PartInv, Working
<1>4. queue' = [queue EXCEPT ![l] = q]
  BY <1>2 DEF Drain
<1>5. PICK r : r = queue'
  OBVIOUS
<1>6. r[l] = q /\ \A m \in Lanes : m # l => r[m] = queue[m]
  BY <1>4, <1>5, LaneIs
<1>7. Working'
  BY <1>3, <1>5, <1>6 DEF PartInv, Working
<1>8. \A d \in Callers : ~InLine(r, l, d)
  BY <1>3, <1>6 DEF InLine
<1>9. /\ call' = [d \in Callers |-> call'[d]]
      /\ \A d \in Callers : call'[d] = IF InLine(queue, l, d) THEN [call[d] EXCEPT !.done = "stopped"] ELSE call[d]
  BY DEF Drain, Contains, InLine
<1>10. ASSUME NEW d \in Callers PROVE Placed(call'[d], d, r, chat)
  <2>1. Placed(call[d], d, queue, chat)
    BY DEF PartInv
  <2>2. \A m \in Lanes : AtWork(r, m, d) <=> AtWork(queue, m, d)
    BY <1>3, <1>6 DEF AtWork
  <2>3. CASE InLine(queue, l, d)
    <3>1. \A m \in Lanes : ~AtWork(queue, m, d) /\ (m # l => ~InLine(queue, m, d))
      BY <2>1, <2>3 DEF Placed, Once, HasCall
    <3>2. \A m \in Lanes : m # l => ~InLine(r, m, d)
      BY <1>6, <3>1 DEF InLine
    <3>3. \A m \in Lanes : ~HasCall(queue', m, d)
      <4>1. \A m \in Lanes : ~HasCall(r, m, d)
        BY <1>8, <2>2, <3>1, <3>2 DEF HasCall
      <4> QED BY <1>5, <4>1
    <3>4. CallRecord(call[d]) /\ (call[d].ended = "queued" => call[d].tried = FALSE)
      BY <2>1 DEF Placed, CallOK
    <3>5. PICK x : x = ToOutcome(call[d], "stopped", call[d].tried)
      OBVIOUS
    <3>6. call'[d] = x
      BY <1>9, <2>3, <3>4, <3>5, DoneIs
    <3>7. Begun(call[d], d, chat') /\ InOrder(d, chat') /\ \A y : ShownIn(chat, d, y) => ShownIn(chat', d, y)
      BY <1>1, <2>1 DEF Placed
    <3>8. Placed(x, d, queue', chat')
      BY <2>1, <3>3, <3>4, <3>5, <3>7, OutcomePlaced
    <3> QED BY <1>1, <1>5, <3>6, <3>8
  <2>4. CASE ~InLine(queue, l, d)
    <3>1. \A m \in Lanes : InLine(r, m, d) => InLine(queue, m, d)
      BY <1>6, <1>8 DEF InLine
    <3>2. \A m \in Lanes : \A i, n \in 1..Len(r[m].jobs) : r[m].jobs[i] = d /\ r[m].jobs[n] = d => i = n
      <4>1. \A i \in 1..Len(r[l].jobs) : r[l].jobs[i] # d
        BY <1>8 DEF InLine
      <4> QED BY <1>6, <2>1, <4>1 DEF Placed, Once
    <3>3. Placed(call[d], d, r, chat)
      BY <2>1, <2>2, <3>1, <3>2, StaysInPlace
    <3> QED BY <1>9, <2>4, <3>3
  <2> QED BY <2>3, <2>4
<1> QED BY <1>1, <1>5, <1>7, <1>9, <1>10, AllKeep

LEMMA StillParts ==
  ASSUME PartInv, UNCHANGED <<queue, call, chat>>, BudgetOK'
  PROVE  PartInv'
<1>1. Working' /\ call' = [c \in Callers |-> call'[c]]
  BY DEF PartInv, Working, CallShape
<1>2. \A c \in Callers : Placed(call'[c], c, queue', chat)
  BY DEF PartInv
<1> QED BY <1>1, <1>2, AllKeep

LEMMA CallStartsInOrder == CallInit => PartInv
<1> SUFFICES ASSUME CallInit PROVE PartInv
  OBVIOUS
<1>1. PICK k : k = Nothing
  OBVIOUS
<1>2. call = [c \in Callers |-> k] /\ chat = <<>> /\ budget \in CallWorlds
  BY <1>1 DEF CallInit, CallStarts
<1>3. CallShape
  BY <1>2 DEF CallShape
<1>4. \A l \in Lanes : queue[l].pc = "idle" /\ queue[l].job = "none" /\ queue[l].jobs = <<>>
  BY DEF CallInit, CallStarts
<1>5. Working
  BY <1>4 DEF Working
<1>6. BudgetOK
  BY <1>2, CallsAssumption DEF BudgetOK, Ops
<1>7. /\ CallRecord(k) /\ k.pc = "idle" /\ k.op \in Ops /\ k.part = 0 /\ k.ended = "no"
      /\ k.tried = FALSE /\ k.done = "none" /\ k.result = "none"
  BY <1>1 DEF Nothing, CallRecord, Op, Ops, Lanes, SameErrors
<1>8. ASSUME NEW c \in Callers PROVE Placed(k, c, queue, chat)
  <2>1. \A l \in Lanes : ~AtWork(queue, l, c) /\ ~InLine(queue, l, c)
    BY <1>4, CallAssumption DEF AtWork, InLine
  <2>2. CallOK(k, c, queue, chat)
    BY <1>7, <2>1 DEF CallOK, HasCall
  <2>3. Once(queue, c)
    BY <2>1, NoPlace
  <2>4. Begun(k, c, chat) /\ InOrder(c, chat)
    BY <1>2, <1>7 DEF Begun, InOrder
  <2> QED BY <2>2, <2>3, <2>4 DEF Placed
<1> QED BY <1>2, <1>3, <1>5, <1>6, <1>8 DEF PartInv

LEMMA LaneStepParts ==
  ASSUME RateInv, PartInv, NEW l \in Lanes, QueueStep(l)
  PROVE  PartInv'
<1>1. CallTypes /\ queue[l] \in LaneType /\ recent[l] \in Seq(0..Window) /\ LaneInv(queue[l], recent[l])
  BY LaneHas DEF RateInv
<1>2. PICK wait \in Nat : wait = PaceWait(queue[l])
  BY <1>1, PaceCovers DEF LaneInv
<1>3. ASSUME TriesAgain(l) PROVE PartInv'
  <2>1. PICK try \in Nat : try = queue[l].try + 1
    BY <1>1 DEF LaneType
  <2>2. PICK q : q = NextTry(queue[l])
    OBVIOUS
  <2>3. q = [queue[l] EXCEPT !.pc = "pace", !.try = try, !.wait = wait]
    BY <1>2, <2>1, <2>2 DEF NextTry
  <2>4. q \in LaneType
    BY <1>1, <2>3 DEF LaneType, QueuePc
  <2> QED BY <1>1, <1>3, <2>2, <2>4, TriesAgainParts
<1>4. ASSUME Attempt(l) PROVE PartInv'
  <2>1. PICK more \in Seq(0..Window) : more = Append(recent[l], 0)
    <3>1. Append(recent[l], 0) \in Seq(0..Window)
      BY <1>1, FreshAge
    <3> QED BY <3>1
  <2>2. PICK p \in LaneType : p = Stamped(queue[l])
    BY <1>1, <2>1, StampedIs DEF LaneInv
  <2> QED BY <1>1, <1>4, <2>2, AttemptParts
<1> QED BY <1>1, <1>2, <1>3, <1>4, TakeParts, InterruptParts, DrainParts, AnsweredParts DEF QueueStep

LEMMA CallNextInOrder == RateInv /\ PartInv /\ [CallNext]_callVars => PartInv'
<1> SUFFICES ASSUME RateInv, PartInv, [CallNext]_callVars PROVE PartInv'
  OBVIOUS
<1>1. CASE \E l \in Lanes : QueueStep(l)
  BY <1>1, LaneStepParts
<1>2. CASE \E c \in Callers : CallerStep(c) \/ Calls(c) \/ GiveUp(c)
  <2>1. CallTypes
    BY DEF RateInv
  <2> QED BY <1>2, <2>1, DelayedKeeps, EnqueueParts, ReturnsKeeps, CallsKeeps, GiveUpKeeps DEF CallerStep
<1>3. CASE Revoke \/ Stop
  <2>1. UNCHANGED <<queue, call, chat>> /\ BudgetOK'
    BY <1>3, SpendsKeeps DEF Revoke, Stop, PartInv
  <2> QED BY <2>1, StillParts
<1>4. CASE Tick
  BY <1>4, TickParts DEF RateInv
<1>5. CASE UNCHANGED callVars
  <2>1. UNCHANGED <<queue, call, chat>> /\ BudgetOK'
    BY <1>5 DEF callVars, PartInv, BudgetOK
  <2> QED BY <2>1, StillParts
<1> QED BY <1>1, <1>2, <1>3, <1>4, <1>5 DEF CallNext

LEMMA OrderFromParts ==
  ASSUME PartInv
  PROVE  PartsInOrder
<1> SUFFICES ASSUME NEW c \in Callers
             PROVE  /\ Follows(c)
                    /\ call[c].result = "ok" /\ call[c].op.same = "none" => \A p \in 1..call[c].op.parts : Shown(c, p)
                    /\ call[c].ended = "queued" => ~call[c].tried
  BY DEF PartsInOrder
<1>1. CallOK(call[c], c, queue, chat) /\ InOrder(c, chat)
  BY DEF PartInv, Placed
<1>2. chat \in Seq(Callers \X (Nat \ {0})) /\ DOMAIN chat = 1..Len(chat)
  BY DEF PartInv, CallShape
<1>3. Follows(c)
  <2> SUFFICES ASSUME NEW j \in DOMAIN chat, NEW p \in 2..call[c].op.parts, chat[j] = <<c, p>>
               PROVE  \E i \in 1..(j - 1) : chat[i] = <<c, p - 1>>
    BY DEF Follows
  <2>1. chat[j][1] = c /\ chat[j][2] = p /\ j \in 1..Len(chat)
    BY <1>2
  <2>2. p >= 2
    BY <1>1 DEF CallOK, Ops
  <2> QED BY <1>1, <2>1, <2>2 DEF InOrder
<1>4. call[c].result = "ok" /\ call[c].op.same = "none" => \A p \in 1..call[c].op.parts : Shown(c, p)
  BY <1>1, <1>2 DEF CallOK, ShownIn, Shown
<1> QED BY <1>1, <1>3, <1>4 DEF CallOK

(* Every behaviour of the callers and of the queues: what a chat shows of a *)
(* message are its parts in their order, a call that reports success has    *)
(* all of them there, and one given up while it waited is not made          *)
(* (gateway.go, Send and queue.go, Do, whatever the callers, the faults and *)
(* the ends of their contexts).                                             *)
THEOREM PartsStayInOrder == CallSpec => []PartsInOrder
<1>1. CallInit => RateInv /\ PartInv
  BY CallStartsSpaced, CallStartsInOrder
<1>2. RateInv /\ PartInv /\ [CallNext]_callVars => (RateInv /\ PartInv)'
  BY CallNextSpaced, CallNextInOrder
<1>3. PartInv => PartsInOrder
  BY OrderFromParts
<1> QED BY <1>1, <1>2, <1>3, PTL DEF CallSpec


(**************************************************************************)
(* The loop and the bridge.  What a burst of control jobs passes over     *)
(* stays where it is until the bridge takes it, so the count of jobs that *)
(* passed it is never ahead of the burst, and the bridge comes to its     *)
(* last select with room for one more.                                    *)
(**************************************************************************)
LoopSpec == LoopInit /\ [][LoopNext]_loopVars

BridgeRecord(b) == b = [pc |-> b.pc, job |-> b.job, burst |-> b.burst, timer |-> b.timer, passed |-> b.passed]
ChanRecord(c) == c = [events |-> c.events, updates |-> c.updates, control |-> c.control, jobs |-> c.jobs,
                      private |-> c.private, fatal |-> c.fatal]

TurnTypes == /\ BridgeRecord(bridge) /\ bridge.burst \in Nat /\ bridge.passed \in Nat /\ bridge.timer \in BOOLEAN
             /\ ChanRecord(chan) /\ chan.jobs \in Seq({"agent"})
TurnInv == /\ TurnTypes
           /\ bridge.passed <= bridge.burst /\ bridge.passed <= Burst
           /\ bridge.passed > 0 => Waiting
           /\ bridge.pc = "wait" => bridge.passed < Burst

LEMMA ChanElsewhere ==
  ASSUME TurnInv, UNCHANGED bridge, ChanRecord(chan'), chan'.jobs = chan.jobs
  PROVE  TurnInv'
  BY DEF TurnInv, TurnTypes, Waiting

LEMMA BridgeElsewhere ==
  ASSUME TurnInv, UNCHANGED chan, BridgeRecord(bridge'), bridge'.burst = bridge.burst, bridge'.passed = bridge.passed,
         bridge'.timer \in BOOLEAN, bridge.timer => bridge'.timer, bridge'.pc # "wait"
  PROVE  TurnInv'
  BY DEF TurnInv, TurnTypes, Waiting

LEMMA PcOnly ==
  ASSUME TurnInv, NEW pc, pc # "wait", bridge' = [bridge EXCEPT !.pc = pc]
  PROVE  /\ BridgeRecord(bridge') /\ bridge'.burst = bridge.burst /\ bridge'.passed = bridge.passed
         /\ bridge'.timer = bridge.timer /\ bridge'.pc = pc
  BY DEF TurnInv, TurnTypes, BridgeRecord

LEMMA Resting ==
  ASSUME TurnInv, UNCHANGED <<bridge, chan>>
  PROVE  TurnInv'
  BY DEF TurnInv, TurnTypes, Waiting

LEMMA OtherChannels ==
  ASSUME TurnInv, UNCHANGED bridge, NEW x,
         \/ chan' = chan
         \/ chan' = [chan EXCEPT !.events = x]
         \/ chan' = [chan EXCEPT !.updates = x]
         \/ chan' = [chan EXCEPT !.control = x]
         \/ chan' = [chan EXCEPT !.private = x]
         \/ chan' = [chan EXCEPT !.fatal = x]
  PROVE  TurnInv'
<1>1. ChanRecord(chan)
  BY DEF TurnInv, TurnTypes
<1>2. ChanRecord(chan') /\ chan'.jobs = chan.jobs
  BY <1>1 DEF ChanRecord
<1> QED BY <1>2, ChanElsewhere

LEMMA SubmitTurn == TurnInv /\ SubmitDone => TurnInv'
<1> SUFFICES ASSUME TurnInv, SubmitDone PROVE TurnInv'
  OBVIOUS
<1>1. UNCHANGED bridge
  BY DEF SubmitDone
<1>2. PICK q : q = Queue(loop.job) /\ (chan' = [chan EXCEPT ![q] = Append(@, loop.job)] \/ chan' = chan)
  BY DEF SubmitDone
<1>3. CASE chan' = chan
  BY <1>1, <1>3, Resting
<1>4. CASE chan' = [chan EXCEPT !.jobs = Append(@, loop.job)] /\ loop.job = "agent"
  <2>1. PICK more : more = Append(chan.jobs, "agent")
    OBVIOUS
  <2>2. more \in Seq({"agent"}) /\ more # <<>>
    BY <2>1 DEF TurnInv, TurnTypes
  <2>3. chan' = [chan EXCEPT !.jobs = more]
    BY <1>4, <2>1
  <2>4. ChanRecord(chan') /\ chan'.jobs = more
    BY <2>3 DEF TurnInv, TurnTypes, ChanRecord
  <2> QED BY <1>1, <2>2, <2>4 DEF TurnInv, TurnTypes, Waiting
<1>5. CASE q = "control" /\ chan' = [chan EXCEPT ![q] = Append(@, loop.job)]
  BY <1>1, <1>5, OtherChannels
<1>6. CASE q = "private" /\ chan' = [chan EXCEPT ![q] = Append(@, loop.job)]
  BY <1>1, <1>6, OtherChannels
<1> QED BY <1>2, <1>3, <1>4, <1>5, <1>6 DEF Queue

(* The bridge takes a job. *)
LEMMA TakesControl ==
  ASSUME TurnInv, TakeControl, bridge.passed < Burst
  PROVE  TurnInv'
<1>1. Burst \in Nat \ {0}
  BY LoopAssumption
<1>2. BridgeRecord(bridge) /\ bridge.burst \in Nat /\ bridge.passed \in Nat /\ bridge.timer \in BOOLEAN
      /\ ChanRecord(chan) /\ chan.jobs \in Seq({"agent"}) /\ bridge.passed <= bridge.burst
  BY DEF TurnInv, TurnTypes
<1>3. /\ BridgeRecord(bridge') /\ bridge'.burst = bridge.burst + 1 /\ bridge'.timer = bridge.timer
      /\ bridge'.pc = "run" /\ bridge'.passed = IF Waiting THEN bridge.passed + 1 ELSE 0
  BY <1>2 DEF TakeControl, BridgeRecord
<1>4. ChanRecord(chan') /\ chan'.jobs = chan.jobs
  BY <1>2 DEF TakeControl, ChanRecord
<1>5. Waiting' <=> Waiting
  BY <1>3, <1>4 DEF Waiting
<1> QED BY <1>1, <1>2, <1>3, <1>4, <1>5 DEF TurnInv, TurnTypes

LEMMA TakesState ==
  ASSUME TurnInv, TakeState
  PROVE  TurnInv'
<1>1. Burst \in Nat \ {0}
  BY LoopAssumption
<1>2. BridgeRecord(bridge) /\ bridge.timer \in BOOLEAN /\ ChanRecord(chan) /\ chan.jobs \in Seq({"agent"})
  BY DEF TurnInv, TurnTypes
<1>3. BridgeRecord(bridge') /\ bridge'.burst = 0 /\ bridge'.passed = 0 /\ bridge'.timer \in BOOLEAN /\ bridge'.pc = "run"
  BY <1>2 DEF TakeState, BridgeRecord
<1>4. ChanRecord(chan') /\ chan'.jobs \in Seq({"agent"})
  <2>1. CASE UNCHANGED chan
    BY <1>2, <2>1
  <2>2. CASE chan.jobs # <<>> /\ chan' = [chan EXCEPT !.jobs = Tail(@)]
    <3>1. PICK rest \in Seq({"agent"}) : rest = Tail(chan.jobs)
      BY <1>2, <2>2, HeadTail
    <3> QED BY <1>2, <2>2, <3>1 DEF ChanRecord
  <2> QED BY <2>1, <2>2 DEF TakeState
<1> QED BY <1>1, <1>3, <1>4 DEF TurnInv, TurnTypes

LEMMA TakesPrivate ==
  ASSUME TurnInv, TakePrivate
  PROVE  TurnInv'
<1>1. Burst \in Nat \ {0}
  BY LoopAssumption
<1>2. BridgeRecord(bridge) /\ bridge.timer \in BOOLEAN /\ ChanRecord(chan) /\ chan.jobs \in Seq({"agent"})
  BY DEF TurnInv, TurnTypes
<1>3. /\ BridgeRecord(bridge') /\ bridge'.burst = 0 /\ bridge'.passed = 0 /\ bridge'.timer = bridge.timer
      /\ bridge'.pc = "run"
  BY <1>2 DEF TakePrivate, BridgeRecord
<1>4. ChanRecord(chan') /\ chan'.jobs = chan.jobs
  BY <1>2 DEF TakePrivate, ChanRecord
<1> QED BY <1>1, <1>2, <1>3, <1>4 DEF TurnInv, TurnTypes

LEMMA BridgeTopTurn == TurnInv /\ BridgeTop => TurnInv'
<1> SUFFICES ASSUME TurnInv, BridgeTop PROVE TurnInv'
  OBVIOUS
<1>1. Burst \in Nat \ {0} /\ bridge.burst \in Nat /\ bridge.passed \in Nat /\ bridge.passed <= bridge.burst
      /\ bridge.passed <= Burst /\ (bridge.passed > 0 => Waiting)
  BY LoopAssumption DEF TurnInv, TurnTypes
<1>2. CASE FirstSelect /\ TakeControl
  <2>1. bridge.passed < Burst
    BY <1>1, <1>2 DEF FirstSelect
  <2> QED BY <1>2, <2>1, TakesControl
<1>3. CASE TakeState
  BY <1>3, TakesState
<1>4. CASE (FirstSelect \/ ~Waiting) /\ bridge' = [bridge EXCEPT !.pc = "wait"] /\ UNCHANGED chan
  <2>1. bridge.passed < Burst
    BY <1>1, <1>4 DEF FirstSelect
  <2>2. BridgeRecord(bridge') /\ bridge'.burst = bridge.burst /\ bridge'.passed = bridge.passed
        /\ bridge'.timer = bridge.timer
    BY <1>4 DEF TurnInv, TurnTypes, BridgeRecord
  <2> QED BY <1>4, <2>1, <2>2 DEF TurnInv, TurnTypes, Waiting
<1> QED BY <1>2, <1>3, <1>4 DEF BridgeTop

LEMMA BridgeWaitTurn == TurnInv /\ BridgeWait => TurnInv'
<1> SUFFICES ASSUME TurnInv, BridgeWait PROVE TurnInv'
  OBVIOUS
<1>1. bridge.passed < Burst
  BY DEF BridgeWait, TurnInv
<1> QED BY <1>1, TakesControl, TakesState, TakesPrivate DEF BridgeWait

(* A job of the bridge ends, or the bridge does. *)
LEMMA JobTurn ==
  ASSUME TurnInv,
         ScreenJob \/ OwnerJob \/ PresenceJob \/ OptionSaved \/ OptionHooks \/ JobFatal \/ BridgeEnds \/ Started
  PROVE  TurnInv'
<1>1. CASE ScreenJob
  <2>1. bridge.timer \in BOOLEAN /\ BridgeRecord(bridge)
    BY DEF TurnInv, TurnTypes
  <2>2. UNCHANGED chan /\ bridge' = [[bridge EXCEPT !.pc = "top"] EXCEPT !.timer = @ \/ bridge.job = "agent"]
    BY <1>1 DEF ScreenJob, Ended
  <2>3. /\ BridgeRecord(bridge') /\ bridge'.burst = bridge.burst /\ bridge'.passed = bridge.passed
        /\ bridge'.pc = "top" /\ bridge'.timer = (bridge.timer \/ bridge.job = "agent")
    BY <2>1, <2>2 DEF BridgeRecord
  <2> QED BY <2>1, <2>2, <2>3, BridgeElsewhere
<1>2. CASE OwnerJob \/ PresenceJob \/ OptionHooks
  <2>1. UNCHANGED chan /\ bridge' = [bridge EXCEPT !.pc = "top"]
    BY <1>2 DEF OwnerJob, PresenceJob, OptionHooks, Ended
  <2> QED BY <2>1, PcOnly, BridgeElsewhere DEF TurnInv, TurnTypes
<1>3. CASE OptionSaved \/ BridgeEnds \/ Started
  <2>1. UNCHANGED chan /\ \E pc \in {"top", "hook", "joining", "ended"} : bridge' = [bridge EXCEPT !.pc = pc]
    BY <1>3 DEF OptionSaved, BridgeEnds, Started, Ended
  <2> QED BY <2>1, PcOnly, BridgeElsewhere DEF TurnInv, TurnTypes
<1>4. CASE JobFatal
  <2>1. bridge' = [bridge EXCEPT !.pc = "top"] /\ (UNCHANGED chan \/ chan' = [chan EXCEPT !.fatal = <<"fatal">>])
    BY <1>4 DEF JobFatal, Ended
  <2>2. ChanRecord(chan') /\ chan'.jobs = chan.jobs
    BY <2>1 DEF TurnInv, TurnTypes, ChanRecord
  <2>3. /\ BridgeRecord(bridge') /\ bridge'.burst = bridge.burst /\ bridge'.passed = bridge.passed
        /\ bridge'.timer = bridge.timer /\ bridge'.pc = "top"
    BY <2>1, PcOnly
  <2> QED BY <2>2, <2>3 DEF TurnInv, TurnTypes, Waiting
<1> QED BY <1>1, <1>2, <1>3, <1>4

LEMMA LoopStarted == LoopInit => TurnInv
<1> SUFFICES ASSUME LoopInit PROVE TurnInv
  OBVIOUS
<1>1. bridge = [pc |-> "off", job |-> "none", burst |-> 0, timer |-> FALSE, passed |-> 0]
  BY DEF LoopInit, LoopStarts
<1>2. chan = [events |-> <<>>, updates |-> <<>>, control |-> <<>>, jobs |-> <<>>, private |-> <<>>, fatal |-> <<>>]
  BY DEF LoopInit, LoopStarts
<1>3. BridgeRecord(bridge) /\ bridge.burst = 0 /\ bridge.passed = 0 /\ bridge.timer = FALSE /\ bridge.pc = "off"
  BY <1>1 DEF BridgeRecord
<1>4. ChanRecord(chan) /\ chan.jobs = <<>>
  BY <1>2 DEF ChanRecord
<1>5. chan.jobs \in Seq({"agent"})
  BY <1>4
<1>6. Burst \in Nat \ {0}
  BY LoopAssumption
<1>7. bridge.passed <= bridge.burst /\ bridge.passed <= Burst /\ ~(bridge.passed > 0)
  BY <1>3, <1>6
<1>8. bridge.burst \in Nat /\ bridge.passed \in Nat /\ bridge.pc # "wait"
  BY <1>3
<1>9. bridge.timer \in BOOLEAN
  BY <1>3, Zenon
<1> QED BY <1>3, <1>4, <1>5, <1>7, <1>8, <1>9 DEF TurnInv, TurnTypes

LEMMA LoopNextTurn == TurnInv /\ [LoopNext]_loopVars => TurnInv'
<1> SUFFICES ASSUME TurnInv, [LoopNext]_loopVars PROVE TurnInv'
  OBVIOUS
<1>1. CASE UNCHANGED loopVars
  BY <1>1, Resting DEF loopVars
<1>2. CASE Connect \/ Retry \/ Begin \/ FirstAgents \/ EditDue \/ Signalled \/ ResyncAsked \/ Replay \/ Dispatch \/ Rewrite
  BY <1>2, Resting DEF Connect, Retry, Begin, FirstAgents, EditDue, Signalled, ResyncAsked, Replay, Dispatch, Rewrite
<1>3. CASE PollBegins \/ PollEnds \/ Flipped \/ AwayJob \/ SeesStop \/ SocketGone \/ Shutdown \/ Joined
  BY <1>3, Resting DEF PollBegins, PollEnds, Flipped, AwayJob, SeesStop, SocketGone, Shutdown, Joined
<1>4. CASE TelegramSide \/ PollFails \/ StopRequested
  BY <1>4, Resting DEF TelegramSide, PollFails, StopRequested
<1>5. CASE AgentEvent \/ Update \/ SeesFatal \/ Emit
  BY <1>5, OtherChannels DEF AgentEvent, Update, SeesFatal, Emit
<1>6. CASE Registry \/ SlowWork
  BY <1>6, OtherChannels DEF Registry, SlowWork
<1>7. ASSUME NEW u \in left.kinds, Arrive(u) PROVE TurnInv'
  BY <1>7, OtherChannels DEF Arrive
<1> QED
  BY <1>1, <1>2, <1>3, <1>4, <1>5, <1>6, <1>7, SubmitTurn, BridgeTopTurn, BridgeWaitTurn, JobTurn
  DEF LoopNext, LoopStep, BridgeStep

(* While a state event or a timer waits at the bridge, at most Burst        *)
(* control jobs pass it, whatever the burst and the capacities are and      *)
(* however the goroutines interleave (Bridge.Run, controlBurst).            *)
THEOREM NobodyIsPassedForLong == LoopSpec => []OthersGetATurn
<1>1. TurnInv => OthersGetATurn
  BY DEF TurnInv, OthersGetATurn
<1> QED BY LoopStarted, LoopNextTurn, <1>1, PTL DEF LoopSpec

(**************************************************************************)
(* The dashboard.  The marker on disk stands for a message that may be    *)
(* there and is recorded nowhere; while it is down the id is the only     *)
(* message that can look alive and is not forgotten.  The marker in       *)
(* memory is never ahead of the one on disk, so a daemon that dies leaves *)
(* the truth behind.                                                      *)
(**************************************************************************)
BoardSpec == BoardInit /\ [][BoardNext]_boardVars

MemRecord(m) == m = [id |-> m.id, pending |-> m.pending, on |-> m.on, dirty |-> m.dirty, shown |-> m.shown,
                     has |-> m.has, timer |-> m.timer]
DiskRecord(d) == d = [id |-> d.id, pending |-> d.pending, on |-> d.on]
AtRecord(a) == a = [pc |-> a.pc, body |-> a.body, new |-> a.new]

BoardTypes == /\ post \in Seq(Int) /\ body \in Int
              /\ MemRecord(mem) /\ mem.id \in 0..Len(post)
              /\ DiskRecord(disk) /\ disk.id \in 0..Len(post)
              /\ AtRecord(at) /\ at.body \in Int /\ at.new \in 0..Len(post)

Ours == LiveLooking \ forgot

Recorded ==      \* what a restart finds
  /\ \A x, y \in Ours : x = y
  /\ ~disk.pending => Ours \subseteq {disk.id}
  /\ disk.pending => ~There(disk.id)

Known ==         \* what the running daemon goes by
  /\ ~mem.pending => Ours \subseteq {mem.id}
  /\ mem.pending => disk.pending /\ ~There(mem.id)
  /\ mem.id \in {0, disk.id}
  /\ at.pc = "intend" => ~There(mem.id)
  /\ at.pc \in {"send", "record"} => mem.pending /\ Ours \subseteq {at.new}
  /\ at.pc = "withdraw" => mem.pending /\ Ours = {}
  /\ at.pc = "forget" => mem.pending \/ Ours = {}

Remembers == Recorded /\ (at.pc # "down" => Known)
BoardInv == BoardTypes /\ Remembers

Noting == forgot' = forgot \cup Forgotten

(* What the helpers of the model do to the records. *)
LEMMA ToIs ==
  ASSUME AtRecord(at), NEW pc, To(pc)
  PROVE  AtRecord(at') /\ at'.pc = pc /\ at'.body = at.body /\ at'.new = at.new
  BY DEF To, AtRecord

LEMMA DiesIs ==
  ASSUME Dies
  PROVE  /\ MemRecord(mem') /\ mem'.id = 0
         /\ AtRecord(at') /\ at'.pc = "down" /\ at'.body = 0 /\ at'.new = 0
  BY DEF Dies, DownMem, MemRecord, AtRecord

LEMMA SavedIs ==
  ASSUME DiskRecord(disk), NEW m, MemRecord(m), Saved(m)
  PROVE  /\ DiskRecord(disk') /\ disk'.id = m.id /\ disk'.pending = m.pending
         /\ MemRecord(mem') /\ mem'.id = m.id /\ mem'.pending = m.pending
  BY DEF Saved, DiskRecord, MemRecord

LEMMA NotSavedIs ==
  ASSUME NEW m, MemRecord(m), NotSaved(m)
  PROVE  MemRecord(mem') /\ mem'.id = m.id /\ mem'.pending = m.pending /\ UNCHANGED disk
  BY DEF NotSaved, MemRecord

LEMMA ScheduleIs ==
  ASSUME NEW m, MemRecord(m)
  PROVE  MemRecord(Schedule(m)) /\ Schedule(m).id = m.id /\ Schedule(m).pending = m.pending
  BY DEF Schedule, MemRecord

LEMMA SetIDIs ==
  ASSUME MemRecord(mem), NEW id
  PROVE  MemRecord(SetID(id)) /\ SetID(id).id = id /\ SetID(id).pending = FALSE
<1>1. PICK has : has = (id # 0)
  OBVIOUS
<1>2. PICK no : no = FALSE
  OBVIOUS
<1>3. SetID(id) = [mem EXCEPT !.id = id, !.pending = no, !.has = has]
  BY <1>1, <1>2 DEF SetID
<1>4. MemRecord(SetID(id)) /\ SetID(id).id = id /\ SetID(id).pending = no
  BY <1>3 DEF MemRecord
<1> QED BY <1>2, <1>4

LEMMA MemWith ==
  ASSUME NEW m, MemRecord(m), NEW x
  PROVE  /\ MemRecord([m EXCEPT !.pending = x]) /\ [m EXCEPT !.pending = x].id = m.id /\ [m EXCEPT !.pending = x].pending = x
         /\ \A k \in {[m EXCEPT !.on = x], [m EXCEPT !.timer = x], [m EXCEPT !.shown = x]} :
              MemRecord(k) /\ k.id = m.id /\ k.pending = m.pending
  BY DEF MemRecord

(* A step that touches no message and no id, one that dies, one that saves. *)
Still == /\ UNCHANGED <<post, body>>
         /\ DiskRecord(disk') /\ disk'.id = disk.id /\ disk'.pending = disk.pending
         /\ MemRecord(mem') /\ mem'.id = mem.id /\ mem'.pending = mem.pending

LEMMA StillTypes ==
  ASSUME BoardInv, Still, AtRecord(at'), at'.body \in Int, at'.new \in 0..Len(post)
  PROVE  BoardTypes'
  BY DEF BoardInv, BoardTypes, Still

(* A message is forgotten, never remembered again. *)
LEMMA OursShrinks ==
  ASSUME Noting, UNCHANGED post
  PROVE  Ours' \subseteq Ours /\ \A id : There(id)' <=> There(id)
  BY DEF Noting, Ours, LiveLooking, There

LEMMA StillKeeps ==
  ASSUME BoardInv, Noting, Still, AtRecord(at'), at'.body \in Int, at'.new = at.new,
         at.pc # "down",
         at'.pc \in {"intend", "send", "withdraw", "record", "forget"} => at'.pc = at.pc
  PROVE  BoardInv'
<1>1. BoardTypes'
  BY StillTypes DEF BoardInv, BoardTypes
<1> SUFFICES Remembers'
  BY <1>1 DEF BoardInv
<1>2. Recorded /\ Known
  BY DEF BoardInv, Remembers
<1>a. Ours' \subseteq Ours
  BY OursShrinks DEF Still
<1>3. Recorded'
  BY <1>2, <1>a DEF Recorded, Still, There
<1>4. Known'
  BY <1>2, <1>a DEF Known, Still, There
<1> QED BY <1>3, <1>4 DEF Remembers

LEMMA DiesKeeps ==
  ASSUME BoardInv, Noting, Dies, UNCHANGED <<post, body, disk>>
  PROVE  BoardInv'
<1>1. BoardTypes'
  BY DiesIs DEF BoardInv, BoardTypes
<1> SUFFICES Remembers'
  BY <1>1 DEF BoardInv
<1>2. Recorded'
  BY OursShrinks DEF BoardInv, Remembers, Recorded, There
<1> QED BY <1>2, DiesIs DEF Remembers

LEMMA FirstScheduleKeeps == BoardInv /\ Noting /\ FirstSchedule => BoardInv'
<1> SUFFICES ASSUME BoardInv, Noting, FirstSchedule PROVE BoardInv'
  OBVIOUS
<1>1. MemRecord(mem) /\ DiskRecord(disk) /\ AtRecord(at) /\ at.body \in Int
  BY DEF BoardInv, BoardTypes
<1>2. Still
  BY <1>1, ScheduleIs DEF FirstSchedule, Still
<1>3. AtRecord(at') /\ at'.pc = "loop" /\ at'.body = at.body /\ at'.new = at.new /\ at.pc = "start"
  BY <1>1, ToIs DEF FirstSchedule
<1> QED BY <1>1, <1>2, <1>3, StillKeeps

LEMMA FireKeeps == BoardInv /\ Noting /\ (Fire \/ MinuteTick) => BoardInv'
<1> SUFFICES ASSUME BoardInv, Noting, Fire \/ MinuteTick PROVE BoardInv'
  OBVIOUS
<1>1. MemRecord(mem) /\ DiskRecord(disk) /\ AtRecord(at) /\ at.body \in Int
  BY DEF BoardInv, BoardTypes
<1>2. mem' = [mem EXCEPT !.timer = FALSE] \/ mem' = mem
  BY DEF Fire, MinuteTick
<1>a. UNCHANGED <<post, disk, body>>
  BY DEF Fire, MinuteTick
<1>b. MemRecord(mem') /\ mem'.id = mem.id /\ mem'.pending = mem.pending
  <2>1. CASE mem' = mem
    BY <1>1, <2>1
  <2>2. CASE mem' = [mem EXCEPT !.timer = FALSE]
    BY <1>1, <2>2, MemWith
  <2> QED BY <1>2, <2>1, <2>2
<1>3. Still
  BY <1>1, <1>a, <1>b DEF Still
<1>4. AtRecord(at') /\ at'.pc = "persist" /\ at'.body = at.body /\ at'.new = at.new /\ at.pc = "loop"
  BY <1>1, ToIs DEF Fire, MinuteTick
<1> QED BY <1>1, <1>3, <1>4, StillKeeps

LEMMA UnpinKeeps == BoardInv /\ Noting /\ Unpin => BoardInv'
<1> SUFFICES ASSUME BoardInv, Noting, Unpin PROVE BoardInv'
  OBVIOUS
<1>1. MemRecord(mem) /\ DiskRecord(disk) /\ AtRecord(at) /\ at.body \in Int
  BY DEF BoardInv, BoardTypes
<1>2. Still
  BY <1>1 DEF Unpin, Still
<1>3. AtRecord(at') /\ at'.pc = "delete" /\ at'.body = at.body /\ at'.new = at.new /\ at.pc = "unpin"
  BY <1>1, ToIs DEF Unpin
<1> QED BY <1>1, <1>2, <1>3, StillKeeps

LEMMA SwitchKeeps == BoardInv /\ Noting /\ Switch => BoardInv'
<1> SUFFICES ASSUME BoardInv, Noting, Switch PROVE BoardInv'
  OBVIOUS
<1>1. MemRecord(mem) /\ DiskRecord(disk) /\ AtRecord(at) /\ at.body \in Int
  BY DEF BoardInv, BoardTypes
<1>2. DiskRecord(disk') /\ disk'.id = disk.id /\ disk'.pending = disk.pending
  BY <1>1 DEF Switch, DiskRecord
<1>3. PICK m : m = [mem EXCEPT !.on = ~@]
  OBVIOUS
<1>4. MemRecord(m) /\ m.id = mem.id /\ m.pending = mem.pending
  BY <1>1, <1>3, MemWith
<1>5. mem' = Schedule(m) /\ UNCHANGED <<post, at, body>> /\ at.pc # "down"
  BY <1>3 DEF Switch
<1>6. Still
  BY <1>2, <1>4, <1>5, ScheduleIs DEF Still
<1> QED BY <1>1, <1>5, <1>6, StillKeeps

(* The agents change, or a message is deleted by hand: at any moment.       *)
LEMMA ChangesKeeps == BoardInv /\ Noting /\ Changes => BoardInv'
<1> SUFFICES ASSUME BoardInv, Noting, Changes PROVE BoardInv'
  OBVIOUS
<1>1. MemRecord(mem) /\ body \in Int /\ UNCHANGED <<post, disk, at>> /\ body' = body + 1
  BY DEF BoardInv, BoardTypes, Changes
<1>2. MemRecord(mem') /\ mem'.id = mem.id /\ mem'.pending = mem.pending
  <2>1. mem' = mem \/ mem' = Schedule(mem)
    BY DEF Changes
  <2> QED BY <1>1, <2>1, ScheduleIs
<1>3. BoardTypes'
  <2>1. body' \in Int
    BY <1>1
  <2> QED BY <1>1, <1>2, <2>1 DEF BoardInv, BoardTypes
<1> SUFFICES Remembers'
  BY <1>3 DEF BoardInv
<1>4. Remembers
  BY DEF BoardInv
<1>a. Ours' \subseteq Ours
  BY <1>1, OursShrinks
<1>5. Recorded'
  BY <1>1, <1>4, <1>a DEF Remembers, Recorded, There
<1>6. at.pc # "down" => Known'
  BY <1>1, <1>2, <1>4, <1>a DEF Remembers, Known, There
<1> QED BY <1>1, <1>5, <1>6 DEF Remembers

LEMMA DeletedByHandKeeps == BoardInv /\ Noting /\ DeletedByHand => BoardInv'
<1> SUFFICES ASSUME BoardInv, Noting, DeletedByHand PROVE BoardInv'
  OBVIOUS
<1>1. PICK id \in LiveLooking : post' = [post EXCEPT ![id] = Absent]
  BY DEF DeletedByHand
<1>2. UNCHANGED <<disk, mem, at, body>>
  BY DEF DeletedByHand
<1>3. post' \in Seq(Int) /\ Len(post') = Len(post) /\ DOMAIN post' = DOMAIN post
      /\ \A x \in DOMAIN post : post'[x] = IF x = id THEN Absent ELSE post[x]
  BY <1>1 DEF BoardInv, BoardTypes, LiveLooking, Absent
<1>4. BoardTypes'
  BY <1>2, <1>3 DEF BoardInv, BoardTypes
<1> SUFFICES Remembers'
  BY <1>4 DEF BoardInv
<1>5. Remembers
  BY DEF BoardInv
<1>6. Ours' \subseteq Ours
  BY <1>3 DEF Ours, LiveLooking, Noting
<1>a. DOMAIN post = 1..Len(post) /\ Len(post) \in Nat
  BY ElementsIn DEF BoardInv, BoardTypes
<1>7. ASSUME NEW x \in 0..Len(post), There(x)' PROVE There(x)
  <2>1. x \in DOMAIN post /\ x # 0
    BY <1>7, <1>a DEF There
  <2> QED BY <2>1, <1>3, <1>7 DEF There
<1>8. Recorded'
  BY <1>2, <1>5, <1>6, <1>7 DEF Remembers, Recorded, BoardInv, BoardTypes
<1>9. at.pc # "down" => Known'
  BY <1>2, <1>5, <1>6, <1>7 DEF Remembers, Known, BoardInv, BoardTypes
<1> QED BY <1>2, <1>8, <1>9 DEF Remembers

(* The starts, and the saves of the mapping.                                *)
LEMMA BoardHas ==
  ASSUME BoardInv
  PROVE  /\ MemRecord(mem) /\ DiskRecord(disk) /\ AtRecord(at) /\ at.body \in Int /\ body \in Int
         /\ mem.id \in 0..Len(post) /\ disk.id \in 0..Len(post) /\ at.new \in 0..Len(post)
         /\ post \in Seq(Int) /\ DOMAIN post = 1..Len(post) /\ Len(post) \in Nat
<1>1. post \in Seq(Int)
  BY DEF BoardInv, BoardTypes
<1>2. DOMAIN post = 1..Len(post) /\ Len(post) \in Nat
  BY <1>1, ElementsIn
<1> QED BY <1>1, <1>2 DEF BoardInv, BoardTypes

LEMMA NothingAlive ==
  ASSUME BoardInv, NEW id \in 0..Len(post), Ours \subseteq {id}, ~There(id)
  PROVE  Ours = {}
<1>1. DOMAIN post = 1..Len(post) /\ Len(post) \in Nat
  BY BoardHas
<1>2. ASSUME NEW x \in Ours PROVE FALSE
  <2>1. x = id /\ x \in DOMAIN post /\ post[x] # Absent
    BY <1>2 DEF Ours, LiveLooking
  <2> QED BY <2>1, <1>1 DEF There
<1> QED BY <1>2

LEMMA StartKeeps == BoardInv /\ Noting /\ Start => BoardInv'
<1> SUFFICES ASSUME BoardInv, Noting, Start PROVE BoardInv'
  OBVIOUS
<1>1. UNCHANGED <<post, disk, body>> /\ To("repin")
  BY DEF Start
<1>2. AtRecord(at') /\ at'.pc = "repin" /\ at'.body = at.body /\ at'.new = at.new
  BY <1>1, BoardHas, ToIs
<1>3. MemRecord(mem') /\ mem'.id = disk.id /\ mem'.pending = disk.pending
  <2>1. PICK has : has = (disk.id # 0)
    OBVIOUS
  <2>2. mem' = [DownMem EXCEPT !.id = disk.id, !.pending = disk.pending, !.on = disk.on, !.has = has]
    BY <2>1 DEF Start
  <2> QED BY <2>2 DEF DownMem, MemRecord
<1>4. BoardTypes'
  BY <1>1, <1>2, <1>3 DEF BoardInv, BoardTypes
<1> SUFFICES Remembers'
  BY <1>4 DEF BoardInv
<1>5. Recorded
  BY DEF BoardInv, Remembers
<1>a. Ours' \subseteq Ours
  BY <1>1, OursShrinks
<1>6. Recorded'
  BY <1>1, <1>5, <1>a DEF Recorded, There
<1>7. Known'
  BY <1>1, <1>2, <1>3, <1>5, <1>a DEF Recorded, Known, There
<1> QED BY <1>6, <1>7 DEF Remembers

LEMMA SavedKeeps ==
  ASSUME BoardInv, Noting, NEW m, MemRecord(m), m.id \in 0..Len(post), Saved(m), UNCHANGED <<post, body>>,
         AtRecord(at'), at'.body \in Int, at'.new \in 0..Len(post),
         at'.pc \notin {"intend", "withdraw", "record", "forget"},
         ~m.pending => Ours' \subseteq {m.id},
         m.pending => ~There(m.id),
         at'.pc = "send" => m.pending /\ Ours' = {}
  PROVE  BoardInv'
<1>1. /\ DiskRecord(disk') /\ disk'.id = m.id /\ disk'.pending = m.pending
      /\ MemRecord(mem') /\ mem'.id = m.id /\ mem'.pending = m.pending
  BY BoardHas, SavedIs
<1>2. BoardTypes'
  BY <1>1 DEF BoardInv, BoardTypes
<1> SUFFICES Remembers'
  BY <1>2 DEF BoardInv
<1>3. Recorded
  BY DEF BoardInv, Remembers
<1>4. Ours' \subseteq Ours
  BY OursShrinks
<1>5. m.pending => ~There(m.id)'
  BY DEF There
<1>6. Recorded'
  BY <1>1, <1>3, <1>4, <1>5 DEF Recorded, There
<1>7. Known'
  BY <1>1, <1>5 DEF Known, There
<1> QED BY <1>6, <1>7 DEF Remembers

LEMMA SaveOrEndKeeps ==
  ASSUME BoardInv, Noting, NEW m, MemRecord(m), m.id \in 0..Len(post), UNCHANGED <<post, body>>,
         NEW pc \in {"send", "decide", "loop"}, SaveOrEnd(m, pc),
         ~m.pending => Ours' \subseteq {m.id},
         m.pending => ~There(m.id),
         pc = "send" => m.pending /\ Ours' = {}
  PROVE  BoardInv'
<1>1. CASE Dies /\ UNCHANGED disk
  BY <1>1, DiesKeeps
<1>2. CASE Saved(m) /\ To(pc)
  <2>1. AtRecord(at') /\ at'.pc = pc /\ at'.body = at.body /\ at'.new = at.new
    BY <1>2, BoardHas, ToIs
  <2> QED BY <1>2, <2>1, BoardHas, SavedKeeps
<1> QED BY <1>1, <1>2 DEF SaveOrEnd

LEMMA OtherSaveKeeps == BoardInv /\ Noting /\ OtherSave => BoardInv'
<1> SUFFICES ASSUME BoardInv, Noting, OtherSave PROVE BoardInv'
  OBVIOUS
<1>1. Saved(mem) /\ UNCHANGED <<post, at, body>> /\ at.pc = "loop"
  BY DEF OtherSave
<1>2. (~mem.pending => Ours' \subseteq {mem.id}) /\ (mem.pending => ~There(mem.id))
  BY <1>1, OursShrinks DEF BoardInv, Remembers, Known
<1> QED BY <1>1, <1>2, BoardHas, SavedKeeps

LEMMA PersistPendingKeeps == BoardInv /\ Noting /\ PersistPending => BoardInv'
<1> SUFFICES ASSUME BoardInv, Noting, PersistPending PROVE BoardInv'
  OBVIOUS
<1>1. UNCHANGED <<post, body>> /\ at.pc = "persist"
  BY DEF PersistPending
<1>2. (~mem.pending => Ours' \subseteq {mem.id}) /\ (mem.pending => ~There(mem.id))
  BY <1>1, OursShrinks DEF BoardInv, Remembers, Known
<1>3. CASE SaveOrEnd(mem, "decide")
  BY <1>1, <1>2, <1>3, BoardHas, SaveOrEndKeeps
<1>4. CASE To("decide") /\ UNCHANGED <<disk, mem, spare>>
  <2>1. AtRecord(at') /\ at'.pc = "decide" /\ at'.body = at.body /\ at'.new = at.new
    BY <1>4, BoardHas, ToIs
  <2>2. Still
    BY <1>1, <1>4, BoardHas DEF Still
  <2> QED BY <1>1, <2>1, <2>2, BoardHas, StillKeeps
<1> QED BY <1>3, <1>4 DEF PersistPending

LEMMA RepinKeeps == BoardInv /\ Noting /\ Repin => BoardInv'
<1> SUFFICES ASSUME BoardInv, Noting, Repin PROVE BoardInv'
  OBVIOUS
<1>1. UNCHANGED <<post, body>> /\ at.pc = "repin" /\ To("start")
  BY DEF Repin
<1>2. AtRecord(at') /\ at'.pc = "start" /\ at'.body = at.body /\ at'.new = at.new
  BY <1>1, BoardHas, ToIs
<1>3. CASE UNCHANGED <<mem, disk, spare>>
  <2>1. Still
    BY <1>1, <1>3, BoardHas DEF Still
  <2> QED BY <1>1, <1>2, <2>1, BoardHas, StillKeeps
<1>4. CASE ~There(mem.id) /\ (Saved(SetID(0)) \/ NotSaved(SetID(0)))
  <2>1. PICK m : m = SetID(0)
    OBVIOUS
  <2>2. MemRecord(m) /\ m.id = 0 /\ m.pending = FALSE
    BY <2>1, BoardHas, SetIDIs
  <2>3. 0 \in 0..Len(post)
    BY BoardHas
  <2>4. (DiskRecord(disk') /\ disk'.id \in 0..Len(post)) /\ MemRecord(mem') /\ mem'.id = 0 /\ mem'.pending = FALSE
    BY <1>4, <2>1, <2>2, <2>3, BoardHas, SavedIs, NotSavedIs
  <2>5. Ours' = {}
    <3>1. CASE mem.pending
      BY <1>1, <1>2, <2>4, <3>1 DEF Noting, Forgotten, GivesUpMarker, Ours, LiveLooking
    <3>2. CASE ~mem.pending
      <4>1. Ours = {}
        BY <1>1, <1>4, <3>2, BoardHas, NothingAlive DEF BoardInv, Remembers, Known
      <4> QED BY <1>1, <4>1, OursShrinks
    <3> QED BY <3>1, <3>2
  <2>6. CASE Saved(m)
    BY <1>1, <1>2, <2>2, <2>3, <2>5, <2>6, BoardHas, SavedKeeps
  <2>7. CASE UNCHANGED disk
    <3>1. BoardTypes'
      BY <1>1, <1>2, <2>3, <2>4 DEF BoardInv, BoardTypes
    <3>2. Recorded'
      BY <1>1, <2>5, <2>7 DEF BoardInv, Remembers, Recorded, There
    <3>3. Known'
      BY <1>2, <2>4, <2>5 DEF Known
    <3> QED BY <3>1, <3>2, <3>3 DEF BoardInv, Remembers
  <2> QED BY <1>4, <2>1, <2>6, <2>7 DEF NotSaved
<1> QED BY <1>3, <1>4 DEF Repin

(* refresh, the edit, the new message.                                      *)
LEMMA RefreshKeeps == BoardInv /\ Noting /\ Refresh => BoardInv'
<1> SUFFICES ASSUME BoardInv, Noting, Refresh PROVE BoardInv'
  OBVIOUS
<1>1. UNCHANGED <<post, disk, mem, body>> /\ at.pc = "decide"
  BY DEF Refresh
<1>2. Decided \in {"loop", "unpin", "edit", "intend"} /\ (Decided = "intend" => mem.id = 0)
  <2>1. CASE ~mem.on
    BY <2>1 DEF Decided
  <2>2. CASE mem.on
    BY <2>2 DEF Decided
  <2> QED BY <2>1, <2>2
<1>3. PICK pc : pc = Decided
  OBVIOUS
<1>4. AtRecord(at') /\ at'.pc = pc /\ at'.body = body /\ at'.new = 0
  <2>1. at' = [at EXCEPT !.body = body, !.new = 0, !.pc = pc]
    BY <1>3 DEF Refresh
  <2> QED BY <2>1, BoardHas DEF AtRecord
<1>5. BoardTypes'
  BY <1>1, <1>4, BoardHas DEF BoardTypes
<1> SUFFICES Remembers'
  BY <1>5 DEF BoardInv
<1>6. Recorded /\ Known /\ Ours' \subseteq Ours
  BY <1>1, OursShrinks DEF BoardInv, Remembers
<1>7. Recorded'
  BY <1>1, <1>6 DEF Recorded, There
<1>8. Known'
  BY <1>1, <1>2, <1>3, <1>4, <1>6 DEF Known, There
<1> QED BY <1>7, <1>8 DEF Remembers

LEMMA PostUpdated ==
  ASSUME BoardInv, NEW id, NEW v \in Int, post' = [post EXCEPT ![id] = v]
  PROVE  /\ post' \in Seq(Int) /\ Len(post') = Len(post) /\ DOMAIN post' = DOMAIN post
         /\ \A x \in DOMAIN post : post'[x] = IF x = id THEN v ELSE post[x]
<1>1. post \in Seq(Int)
  BY BoardHas
<1>2. post \in [1..Len(post) -> Int] /\ Len(post) \in Nat
  BY <1>1
<1>3. post' \in [1..Len(post) -> Int]
  BY <1>2
<1>4. \A x \in DOMAIN post : post'[x] = IF x = id THEN v ELSE post[x]
  OBVIOUS
<1>5. post' \in Seq(Int) /\ Len(post') = Len(post)
  BY <1>2, <1>3
<1> QED BY <1>2, <1>3, <1>4, <1>5

(* A message that is there, and is the one the daemon knows, gets another   *)
(* body.                                                                    *)
LEMMA BodyKeeps ==
  ASSUME BoardInv, Noting, NEW v \in Int, post' = [post EXCEPT ![mem.id] = v], UNCHANGED <<disk, body>>,
         v = Absent \/ There(mem.id),
         MemRecord(mem'), mem'.id = mem.id, mem'.pending = mem.pending,
         AtRecord(at'), at'.body \in Int, at'.new = at.new,
         at.pc # "down", at'.pc \notin {"down", "intend", "send", "withdraw", "record"},
         at'.pc = "forget" => v \in {Absent, Off}
  PROVE  BoardInv'
<1>1. /\ post' \in Seq(Int) /\ Len(post') = Len(post) /\ DOMAIN post' = DOMAIN post
      /\ \A x \in DOMAIN post : post'[x] = IF x = mem.id THEN v ELSE post[x]
  BY PostUpdated
<1>2. BoardTypes'
  BY <1>1, BoardHas DEF BoardTypes
<1> SUFFICES Remembers'
  BY <1>2 DEF BoardInv
<1>3. Recorded /\ Known
  BY DEF BoardInv, Remembers
<1>4. Ours' \subseteq Ours \cup {mem.id}
  BY <1>1 DEF Ours, LiveLooking, Noting
<1>5. ASSUME NEW x \in 0..Len(post), There(x)' PROVE There(x)
  <2>1. x \in DOMAIN post /\ x # 0
    BY <1>5, BoardHas DEF There
  <2>2. post'[x] # Absent
    BY <1>5 DEF There
  <2>3. CASE x = mem.id
    BY <2>1, <2>2, <2>3, <1>1
  <2>4. CASE x # mem.id
    BY <2>1, <2>2, <2>4, <1>1 DEF There
  <2> QED BY <2>3, <2>4
<1>6. CASE mem.pending
  <2>1. ~There(mem.id) /\ v = Absent /\ disk.pending
    BY <1>3, <1>6 DEF Known
  <2>2. Ours' \subseteq Ours
    BY <1>1, <2>1 DEF Ours, LiveLooking, Noting
  <2>3. Recorded'
    BY <1>3, <1>5, <2>1, <2>2, BoardHas DEF Recorded
  <2>4. PICK x \in 0..Len(post) : x = mem.id
    BY BoardHas
  <2>5. ~There(x)' /\ mem'.id = x
    BY <1>5, <2>1, <2>4
  <2>6. ~There(mem.id)'
    BY <2>5 DEF There
  <2>7. disk'.pending /\ mem'.pending /\ mem'.id \in {0, disk'.id}
    BY <1>3, <1>6, <2>1 DEF Known
  <2>8. Known'
    BY <2>6, <2>7 DEF Known
  <2> QED BY <2>3, <2>8 DEF Remembers
<1>7. CASE ~mem.pending
  <2>1. Ours \subseteq {mem.id}
    BY <1>3, <1>7 DEF Known
  <2>2. Ours' \subseteq {mem.id}
    BY <1>4, <2>1
  <2>3. ~disk.pending => Ours' \subseteq {disk.id}
    <3>1. CASE v = Absent
      <4>1. Ours' \subseteq Ours
        BY <1>1, <3>1 DEF Ours, LiveLooking, Noting
      <4> QED BY <1>3, <4>1 DEF Recorded
    <3>2. CASE There(mem.id)
      BY <1>3, <2>2, <3>2 DEF Known, There
    <3> QED BY <3>1, <3>2
  <2>4. Recorded'
    BY <1>3, <1>5, <2>2, <2>3, BoardHas DEF Recorded
  <2>5. at'.pc = "forget" => Ours' = {}
    <3>1. ASSUME v \in {Absent, Off} PROVE mem.id \notin Ours'
      BY <3>1, <1>1 DEF Ours, LiveLooking, Noting
    <3> QED BY <3>1, <2>2
  <2>a. mem'.id \in {0, disk'.id}
    BY <1>3 DEF Known
  <2>6. Known'
    BY <1>7, <2>2, <2>5, <2>a DEF Known
  <2> QED BY <2>4, <2>6 DEF Remembers
<1> QED BY <1>6, <1>7

LEMMA GoesKeeps ==
  ASSUME BoardInv, Noting, Still, AtRecord(at'), at'.body \in Int, at'.new = at.new,
         at.pc # "down", at'.pc \notin {"down", "send", "record"},
         at'.pc = "withdraw" => mem.pending /\ Ours' = {},
         at'.pc = "intend" => ~There(mem.id),
         at'.pc = "forget" => mem.pending \/ Ours' = {}
  PROVE  BoardInv'
<1>1. BoardTypes'
  BY StillTypes DEF BoardInv, BoardTypes
<1> SUFFICES Remembers'
  BY <1>1 DEF BoardInv
<1>2. Recorded /\ Known
  BY DEF BoardInv, Remembers
<1>a. Ours' \subseteq Ours
  BY OursShrinks DEF Still
<1>3. Recorded'
  BY <1>2, <1>a DEF Recorded, Still, There
<1>4. Known'
  BY <1>2, <1>a DEF Known, Still, There
<1> QED BY <1>3, <1>4 DEF Remembers

LEMMA EditKeeps == BoardInv /\ Noting /\ Edit => BoardInv'
<1> SUFFICES ASSUME BoardInv, Noting, Edit PROVE BoardInv'
  OBVIOUS
<1>1. UNCHANGED <<disk, body>> /\ at.pc = "edit"
  BY DEF Edit
<1>2. CASE Dies /\ UNCHANGED post
  BY <1>1, <1>2, DiesKeeps
<1>3. CASE ~There(mem.id) /\ To("intend") /\ UNCHANGED <<post, mem, spare>>
  <2>1. AtRecord(at') /\ at'.pc = "intend" /\ at'.body = at.body /\ at'.new = at.new
    BY <1>3, BoardHas, ToIs
  <2>2. Still
    BY <1>1, <1>3, BoardHas DEF Still
  <2> QED BY <1>1, <1>3, <2>1, <2>2, BoardHas, GoesKeeps
<1>4. ASSUME There(mem.id), To("loop"), NEW outcome,
             post' = IF outcome = "down" THEN post ELSE [post EXCEPT ![mem.id] = at.body],
             mem' = [mem EXCEPT !.shown = Remembered(outcome)]
      PROVE  BoardInv'
  <2>1. AtRecord(at') /\ at'.pc = "loop" /\ at'.body = at.body /\ at'.new = at.new
    BY <1>4, BoardHas, ToIs
  <2>2. PICK shown : shown = Remembered(outcome)
    OBVIOUS
  <2>3. MemRecord(mem') /\ mem'.id = mem.id /\ mem'.pending = mem.pending
    BY <1>4, <2>2, BoardHas, MemWith
  <2>4. CASE post' = post
    <3>1. Still
      BY <1>1, <2>3, <2>4, BoardHas DEF Still
    <3> QED BY <1>1, <2>1, <3>1, BoardHas, StillKeeps
  <2>5. CASE post' = [post EXCEPT ![mem.id] = at.body]
    <3>1. PICK v \in Int : v = at.body
      BY BoardHas
    <3>2. post' = [post EXCEPT ![mem.id] = v]
      BY <2>5, <3>1
    <3> QED BY <1>1, <1>4, <2>1, <2>3, <3>2, BoardHas, BodyKeeps
  <2> QED BY <1>4, <2>4, <2>5
<1> QED BY <1>2, <1>3, <1>4 DEF Edit

LEMMA IntendKeeps == BoardInv /\ Noting /\ Intend => BoardInv'
<1> SUFFICES ASSUME BoardInv, Noting, Intend PROVE BoardInv'
  OBVIOUS
<1>1. UNCHANGED <<post, body>> /\ at.pc = "intend"
  BY DEF Intend
<1>2. CASE Dies /\ UNCHANGED <<disk, spare>>
  BY <1>1, <1>2, DiesKeeps
<1>3. CASE ~mem.pending /\ SaveOrEnd([mem EXCEPT !.pending = TRUE], "send")
  <2>1. PICK m : m = [mem EXCEPT !.pending = TRUE]
    OBVIOUS
  <2>2. MemRecord(m) /\ m.id = mem.id /\ m.pending = TRUE
    BY <2>1, BoardHas, MemWith
  <2>3. SaveOrEnd(m, "send")
    BY <1>3, <2>1
  <2>4. ~There(m.id) /\ Ours' = {}
    <3>1. ~There(mem.id) /\ Ours \subseteq {mem.id}
      BY <1>1, <1>3 DEF BoardInv, Remembers, Known
    <3>2. Ours = {}
      BY <3>1, BoardHas, NothingAlive
    <3> QED BY <1>1, <2>2, <3>1, <3>2, OursShrinks
  <2> QED BY <1>1, <2>2, <2>3, <2>4, BoardHas, SaveOrEndKeeps
<1> QED BY <1>2, <1>3 DEF Intend, Blocked

(* A new message is the only one that is not forgotten: the marker was set  *)
(* when none was there, and the one of an earlier try is passed over.       *)
LEMMA NewMessage ==
  ASSUME BoardInv, NEW v \in Int, post' = Append(post, v)
  PROVE  /\ post' \in Seq(Int) /\ Len(post') = Len(post) + 1 /\ DOMAIN post' = 1..(Len(post) + 1)
         /\ \A x \in 1..Len(post) : post'[x] = post[x]
<1>1. post \in Seq(Int) /\ Len(post) \in Nat
  BY BoardHas
<1> QED BY <1>1

LEMMA AppendedKeeps ==
  ASSUME BoardInv, Noting, post' = Append(post, at.body), UNCHANGED <<disk, body>>, at.pc = "send",
         MemRecord(mem') /\ mem'.id \in 0..Len(post) /\ AtRecord(at') /\ at'.body \in Int,
         \/ at'.pc = "down" /\ at'.new = 0
         \/ at'.pc \in {"record", "send"} /\ at'.new = Len(post) + 1 /\ UNCHANGED mem
  PROVE  BoardInv'
<1>1. /\ post' \in Seq(Int) /\ Len(post') = Len(post) + 1 /\ DOMAIN post' = 1..(Len(post) + 1)
      /\ \A x \in 1..Len(post) : post'[x] = post[x]
  <2>1. PICK v \in Int : v = at.body
    BY BoardHas
  <2> QED BY <2>1, NewMessage
<1>2. BoardTypes'
  <2>1. mem'.id \in 0..Len(post') /\ disk'.id \in 0..Len(post') /\ at'.new \in 0..Len(post')
    BY <1>1, BoardHas
  <2> QED BY <1>1, <2>1, BoardHas DEF BoardTypes
<1> SUFFICES Remembers'
  BY <1>2 DEF BoardInv
<1>3. mem.pending /\ Ours \subseteq {at.new} /\ disk.pending /\ ~There(mem.id) /\ ~There(disk.id) /\ mem.id \in {0, disk.id}
  BY DEF BoardInv, Remembers, Recorded, Known
<1>a. forgot' = forgot \cup {at.new}
  <2>1. ASSUME post' = post PROVE FALSE
    <3>1. Len(post') = Len(post)
      BY ONLY <2>1
    <3> QED BY ONLY <3>1, <1>1, BoardHas
  <2> QED BY <2>1 DEF Noting, Forgotten, GivesUpMarker, LeavesNote, PassesOver
<1>4. Ours' \subseteq {Len(post) + 1}
  <2>1. ASSUME NEW x \in Ours', x # Len(post) + 1 PROVE FALSE
    <3>1. x \in 1..(Len(post) + 1) /\ post'[x] \notin {Absent, Off} /\ x \notin forgot /\ x # at.new
      BY <1>1, <1>a, <2>1 DEF Ours, LiveLooking
    <3>2. x \in 1..Len(post)
      BY <2>1, <3>1, BoardHas
    <3>3. x \in Ours
      BY <1>1, <3>1, <3>2, BoardHas DEF Ours, LiveLooking
    <3> QED BY <1>3, <3>1, <3>3
  <2> QED BY <2>1
<1>5. ASSUME NEW x \in 0..Len(post), There(x)' PROVE There(x)
  <2>1. x # 0 /\ post'[x] # Absent
    BY <1>5 DEF There
  <2>2. x \in 1..Len(post)
    BY <2>1, BoardHas
  <2> QED BY <1>1, <2>1, <2>2 DEF There
<1>6. Recorded'
  <2>1. PICK d \in 0..Len(post) : d = disk.id
    BY BoardHas
  <2>2. ~There(d)' /\ disk'.id = d
    BY <1>3, <1>5, <2>1
  <2>3. ~There(disk.id)'
    BY <2>2 DEF There
  <2> QED BY <1>3, <1>4, <2>3 DEF Recorded
<1>7. at'.pc # "down" => Known'
  <2> SUFFICES ASSUME at'.pc \in {"record", "send"} PROVE Known'
    OBVIOUS
  <2>1. PICK d \in 0..Len(post) : d = mem.id
    BY BoardHas
  <2>2. ~There(d)' /\ mem'.id = d /\ UNCHANGED mem
    BY <1>3, <1>5, <2>1
  <2>3. ~There(mem.id)'
    BY <2>2 DEF There
  <2> QED BY <1>3, <1>4, <2>2, <2>3 DEF Known
<1> QED BY <1>6, <1>7 DEF Remembers

LEMMA SendNewKeeps == BoardInv /\ Noting /\ SendNew => BoardInv'
<1> SUFFICES ASSUME BoardInv, Noting, SendNew PROVE BoardInv'
  OBVIOUS
<1>1. UNCHANGED <<disk, body>> /\ at.pc = "send"
  BY DEF SendNew
<1>2. ASSUME post' = Append(post, at.body), NEW pc \in {"record", "send"}, Tried(pc) PROVE BoardInv'
  <2>1. AtRecord(at') /\ at'.pc = pc /\ at'.new = Len(post) + 1 /\ at'.body = at.body /\ UNCHANGED mem
    BY <1>2, BoardHas DEF Tried, AtRecord
  <2> QED BY <1>1, <1>2, <2>1, BoardHas, AppendedKeeps
<1>3. CASE post' = Append(post, at.body) /\ Dies
  <2>1. 0 \in 0..Len(post)
    BY BoardHas
  <2> QED BY <1>1, <1>3, <2>1, DiesIs, AppendedKeeps
<1>4. CASE Dies /\ UNCHANGED post
  BY <1>1, <1>4, DiesKeeps
<1>5. CASE To("withdraw") /\ UNCHANGED <<post, mem>>
  <2>1. AtRecord(at') /\ at'.pc = "withdraw" /\ at'.body = at.body /\ at'.new = at.new
    BY <1>5, BoardHas, ToIs
  <2>2. Still
    BY <1>1, <1>5, BoardHas DEF Still
  <2>3. mem.pending /\ Ours \subseteq {at.new}
    BY <1>1 DEF BoardInv, Remembers, Known
  <2>4. forgot' = forgot \cup {at.new}
    BY <1>1, <2>1 DEF Noting, Forgotten, GivesUpMarker, LeavesNote, PassesOver
  <2>5. Ours' \subseteq Ours
    BY <1>5, OursShrinks
  <2>6. Ours' = {}
    BY <2>3, <2>4, <2>5 DEF Ours
  <2> QED BY <1>1, <2>1, <2>2, <2>3, <2>6, BoardHas, GoesKeeps
<1> QED BY <1>2, <1>3, <1>4, <1>5 DEF SendNew

LEMMA WithdrawKeeps == BoardInv /\ Noting /\ Withdraw => BoardInv'
<1> SUFFICES ASSUME BoardInv, Noting, Withdraw PROVE BoardInv'
  OBVIOUS
<1>1. UNCHANGED <<post, body>> /\ at.pc = "withdraw"
  BY DEF Withdraw
<1>2. Ours' = {}
  BY <1>1, OursShrinks DEF BoardInv, Remembers, Known
<1>3. CASE SaveOrEnd([mem EXCEPT !.pending = FALSE], "loop")
  <2>a. PICK no : no = FALSE
    OBVIOUS
  <2>1. PICK m : m = [mem EXCEPT !.pending = no]
    OBVIOUS
  <2>c. MemRecord(mem)
    BY BoardHas
  <2>b. MemRecord(m) /\ m.id = mem.id /\ m.pending = no
    BY <2>1, <2>c, MemWith
  <2>2. MemRecord(m) /\ m.id = mem.id /\ m.pending = FALSE
    BY <2>a, <2>b
  <2>3. SaveOrEnd(m, "loop")
    BY <1>3, <2>a, <2>1
  <2> QED BY <1>1, <1>2, <2>2, <2>3, BoardHas, SaveOrEndKeeps
<1>4. CASE Dies /\ disk' = [disk EXCEPT !.pending = FALSE, !.id = mem.id]
  <2>1. DiskRecord(disk') /\ disk'.id = mem.id /\ disk'.pending = FALSE
    BY <1>4, BoardHas DEF DiskRecord
  <2>2. BoardTypes'
    BY <1>1, <1>4, <2>1, BoardHas, DiesIs DEF BoardTypes
  <2> SUFFICES Remembers'
    BY <2>2 DEF BoardInv
  <2>3. Recorded'
    BY <1>2, <2>1 DEF Recorded
  <2> QED BY <1>4, <2>3, DiesIs DEF Remembers
<1> QED BY <1>3, <1>4 DEF Withdraw

LEMMA RecordKeeps == BoardInv /\ Noting /\ Record => BoardInv'
<1> SUFFICES ASSUME BoardInv, Noting, Record PROVE BoardInv'
  OBVIOUS
<1>1. UNCHANGED <<post, body>> /\ at.pc = "record"
  BY DEF Record
<1>2. PICK k : k = SetID(at.new)
  OBVIOUS
<1>3. PICK m : m = [k EXCEPT !.shown = at.body]
  OBVIOUS
<1>4. MemRecord(k) /\ k.id = at.new /\ k.pending = FALSE
  BY <1>2, BoardHas, SetIDIs
<1>5. MemRecord(m) /\ m.id = at.new /\ m.pending = FALSE
  BY <1>3, <1>4, MemWith, ZenonT(60)
<1>6. SaveOrEnd(m, "loop")
  BY <1>2, <1>3 DEF Record
<1>7. Ours' \subseteq {at.new}
  BY <1>1, OursShrinks DEF BoardInv, Remembers, Known
<1> QED BY <1>1, <1>5, <1>6, <1>7, BoardHas, SaveOrEndKeeps

(* The message is taken away, or marked off, and then it is forgotten.      *)
LEMMA DeleteKeeps == BoardInv /\ Noting /\ Delete => BoardInv'
<1> SUFFICES ASSUME BoardInv, Noting, Delete PROVE BoardInv'
  OBVIOUS
<1>1. UNCHANGED <<disk, body>> /\ at.pc = "delete"
  BY DEF Delete
<1>2. CASE post' = [post EXCEPT ![mem.id] = Absent] /\ To("forget") /\ UNCHANGED <<mem, spare>>
  <2>1. AtRecord(at') /\ at'.pc = "forget" /\ at'.body = at.body /\ at'.new = at.new
    BY <1>2, BoardHas, ToIs
  <2>2. PICK v \in Int : v = Absent
    BY DEF Absent
  <2>3. post' = [post EXCEPT ![mem.id] = v]
    BY <1>2, <2>2
  <2> QED BY <1>1, <1>2, <2>1, <2>2, <2>3, BoardHas, BodyKeeps
<1>3. ASSUME NEW pc \in {"note", "loop"}, To(pc), UNCHANGED <<post, mem>> PROVE BoardInv'
  <2>1. AtRecord(at') /\ at'.pc = pc /\ at'.body = at.body /\ at'.new = at.new
    BY <1>3, BoardHas, ToIs
  <2>2. Still
    BY <1>1, <1>3, BoardHas DEF Still
  <2> QED BY <1>1, <2>1, <2>2, BoardHas, StillKeeps
<1>4. CASE Dies /\ UNCHANGED post
  BY <1>1, <1>4, DiesKeeps
<1> QED BY <1>2, <1>3, <1>4 DEF Delete

LEMMA OffNoteKeeps == BoardInv /\ Noting /\ OffNote => BoardInv'
<1> SUFFICES ASSUME BoardInv, Noting, OffNote PROVE BoardInv'
  OBVIOUS
<1>1. UNCHANGED <<disk, body>> /\ at.pc = "note"
  BY DEF OffNote
<1>2. CASE Dies /\ UNCHANGED post
  BY <1>1, <1>2, DiesKeeps
<1>3. CASE To("forget") /\ UNCHANGED mem /\ There(mem.id) /\ post' = [post EXCEPT ![mem.id] = Off]
  <2>1. AtRecord(at') /\ at'.pc = "forget" /\ at'.body = at.body /\ at'.new = at.new
    BY <1>3, BoardHas, ToIs
  <2>2. PICK v \in Int : v = Off
    BY DEF Off
  <2>3. post' = [post EXCEPT ![mem.id] = v]
    BY <1>3, <2>2
  <2> QED BY <1>1, <1>3, <2>1, <2>2, <2>3, BoardHas, BodyKeeps
<1>4. CASE To("forget") /\ UNCHANGED <<mem, post>>
  <2>1. AtRecord(at') /\ at'.pc = "forget" /\ at'.body = at.body /\ at'.new = at.new
    BY <1>4, BoardHas, ToIs
  <2>2. Still
    BY <1>1, <1>4, BoardHas DEF Still
  <2>3. mem.pending \/ Ours' = {}
    <3> SUFFICES ASSUME ~mem.pending PROVE Ours' = {}
      OBVIOUS
    <3>1. Ours \subseteq {mem.id} /\ Ours' \subseteq Ours
      BY <1>1, <1>4, OursShrinks DEF BoardInv, Remembers, Known
    <3>2. CASE There(mem.id)
      <4>1. mem.id \in forgot'
        BY <1>1, <1>4, <2>1, <3>2 DEF Noting, Forgotten, GivesUpMarker, LeavesNote
      <4> QED BY <3>1, <4>1 DEF Ours
    <3>3. CASE ~There(mem.id)
      BY <3>1, <3>3, BoardHas, NothingAlive
    <3> QED BY <3>2, <3>3
  <2> QED BY <1>1, <2>1, <2>2, <2>3, BoardHas, GoesKeeps
<1> QED BY <1>2, <1>3, <1>4 DEF OffNote

LEMMA ForgetKeeps == BoardInv /\ Noting /\ Forget => BoardInv'
<1> SUFFICES ASSUME BoardInv, Noting, Forget PROVE BoardInv'
  OBVIOUS
<1>1. UNCHANGED <<post, body>> /\ at.pc = "forget"
  BY DEF Forget
<1>2. PICK k : k = SetID(0)
  OBVIOUS
<1>a. PICK none : none = 0
  OBVIOUS
<1>3. PICK m : m = [k EXCEPT !.shown = none]
  OBVIOUS
<1>4. MemRecord(k) /\ k.id = 0 /\ k.pending = FALSE
  BY <1>2, BoardHas, SetIDIs
<1>b. MemRecord(m) /\ m.id = k.id /\ m.pending = k.pending
  BY <1>3, <1>4, MemWith
<1>5. MemRecord(m) /\ m.id = 0 /\ m.pending = FALSE
  BY <1>4, <1>b
<1>6. SaveOrEnd(m, "loop")
  BY <1>2, <1>3, <1>a DEF Forget
<1>7. 0 \in 0..Len(post)
  BY BoardHas
<1>8. CASE Dies /\ UNCHANGED disk
  BY <1>1, <1>8, DiesKeeps
<1>9. CASE Saved(m) /\ To("loop")
  <2>1. AtRecord(at') /\ at'.pc = "loop" /\ at'.body = at.body /\ at'.new = at.new
    BY <1>9, BoardHas, ToIs
  <2>2. mem'.pending = FALSE
    BY <1>5, <1>9, BoardHas, SavedIs
  <2>3. Ours' = {}
    <3>1. CASE mem.pending
      BY <1>1, <2>1, <2>2, <3>1 DEF Noting, Forgotten, GivesUpMarker, Ours, LiveLooking
    <3>2. CASE ~mem.pending
      BY <1>1, <3>2, OursShrinks DEF BoardInv, Remembers, Known
    <3> QED BY <3>1, <3>2
  <2> QED BY <1>1, <1>5, <1>7, <1>9, <2>1, <2>3, BoardHas, SavedKeeps
<1> QED BY <1>6, <1>8, <1>9 DEF SaveOrEnd

LEMMA CrashKeeps == BoardInv /\ Noting /\ Crash => BoardInv'
  BY DiesKeeps DEF Crash

(* The operator records a message that is there.                            *)
LEMMA ResolveKeeps == BoardInv /\ Noting /\ Resolve => BoardInv'
<1> SUFFICES ASSUME BoardInv, Noting, Resolve PROVE BoardInv'
  OBVIOUS
<1>1. UNCHANGED <<post, mem, at, body>> /\ at.pc = "down" /\ disk.pending
  BY DEF Resolve
<1>2. PICK id \in IF LiveLooking = {} THEN {disk.id} ELSE LiveLooking :
             disk' = [disk EXCEPT !.pending = FALSE, !.id = id]
  BY DEF Resolve
<1>3. id \in 0..Len(post)
  <2>1. CASE LiveLooking = {}
    BY <2>1, BoardHas
  <2>2. CASE LiveLooking # {}
    <3>1. id \in DOMAIN post
      BY <1>2, <2>2 DEF LiveLooking
    <3> QED BY <3>1, BoardHas
  <2> QED BY <2>1, <2>2
<1>4. DiskRecord(disk') /\ disk'.id = id /\ disk'.pending = FALSE
  BY <1>2, BoardHas DEF DiskRecord
<1>5. BoardTypes'
  BY <1>1, <1>3, <1>4, BoardHas DEF BoardTypes
<1> SUFFICES Remembers'
  BY <1>5 DEF BoardInv
<1>6. forgot' = forgot \cup (LiveLooking \ {id})
  BY <1>1, <1>4 DEF Noting, Forgotten, GivesUpMarker, LeavesNote, PassesOver, Resolved
<1>7. Ours' \subseteq {id}
  BY <1>1, <1>6 DEF Ours, LiveLooking
<1>8. Recorded'
  BY <1>4, <1>7 DEF Recorded
<1> QED BY <1>1, <1>8 DEF Remembers

LEMMA BoardStarted == BoardInit => BoardInv
<1> SUFFICES ASSUME BoardInit PROVE BoardInv
  OBVIOUS
<1>1. /\ post = <<>> /\ body = 1
      /\ disk = [id |-> 0, pending |-> FALSE, on |-> TRUE]
      /\ mem = DownMem /\ at = [pc |-> "down", body |-> 0, new |-> 0]
  BY DEF BoardInit, BoardStarts
<1>2. BoardTypes
  BY <1>1 DEF BoardTypes, DownMem, MemRecord, DiskRecord, AtRecord
<1>3. Ours = {}
  BY <1>1 DEF Ours, LiveLooking
<1>4. Remembers
  BY <1>1, <1>3 DEF Remembers, Recorded
<1> QED BY <1>2, <1>4 DEF BoardInv

LEMMA BoardNextKeeps == BoardInv /\ [BoardNext]_boardVars => BoardInv'
<1> SUFFICES ASSUME BoardInv, [BoardNext]_boardVars PROVE BoardInv'
  OBVIOUS
<1>1. CASE UNCHANGED boardVars
  BY <1>1 DEF boardVars, BoardInv, BoardTypes, MemRecord, DiskRecord, AtRecord, Remembers, Recorded, Known, Ours, LiveLooking, There
<1>2. CASE BoardNext
  <2>1. Noting
    BY <1>2 DEF BoardNext, Noted, Noting
  <2>2. BoardMove => BoardInv'
    BY <2>1, StartKeeps, RepinKeeps, FirstScheduleKeeps, FireKeeps, PersistPendingKeeps, RefreshKeeps, EditKeeps,
       IntendKeeps, SendNewKeeps, WithdrawKeeps, RecordKeeps, UnpinKeeps, DeleteKeeps, OffNoteKeeps, ForgetKeeps
       DEF BoardMove
  <2> QED BY <1>2, <2>1, <2>2, FireKeeps, ChangesKeeps, SwitchKeeps, DeletedByHandKeeps, CrashKeeps, ResolveKeeps,
             OtherSaveKeeps DEF BoardNext, Noted
<1> QED BY <1>1, <1>2

LEMMA AtMostOne ==
  ASSUME NEW S, \A x, y \in S : x = y
  PROVE  Cardinality(S) <= 1
<1>1. CASE S = {}
  BY <1>1, FS_EmptySet
<1>2. CASE S # {}
  <2>1. PICK x \in S : TRUE
    BY <1>2
  <2>2. S = {x}
    BY <2>1
  <2> QED BY <2>2, FS_Singleton
<1> QED BY <1>1, <1>2

(* Whatever is lost, repeated or refused and whenever the daemon dies, at   *)
(* most one message that looks like the dashboard is not a forgotten one.   *)
THEOREM OneLooksAlive == BoardSpec => []OneDashboard
<1>1. BoardInit => BoardInv
  BY BoardStarted
<1>2. BoardInv /\ [BoardNext]_boardVars => BoardInv'
  BY BoardNextKeeps
<1>3. BoardInv => OneDashboard
  BY AtMostOne DEF BoardInv, Remembers, Recorded, Ours, OneDashboard
<1> QED BY <1>1, <1>2, <1>3, PTL DEF BoardSpec

(**************************************************************************)
(* What agents say (Replies).  What rang last is kept as posted for the   *)
(* key the agent has, or for one on the way to it, so that what rings is  *)
(* compared with it.                                                      *)
(**************************************************************************)
Statuses == {"working", "blocked", "done", "idle"}
Texts == {"question", "text", "reply"} \X Nat \X {0, 1}
AgentTurns == [started: Nat, prompt: BOOLEAN, ended: BOOLEAN]
Keyboards == [msg: Nat, question: Nat, waiting: BOOLEAN]
Captures == [text: Texts, seq: Nat]
Retries == [attempts: Nat, turn: AgentTurns \cup {None}]
Outs ==
  [posted: Texts \cup {None}, kb: Keyboards \cup {None}, announced: BOOLEAN, turn: AgentTurns \cup {None},
   capture: Captures \cup {None}, refresh: Nat \cup {None}, typing: Nat \cup {None}, retry: Retries \cup {None}]
Said == [kind: {"changed", "appeared", "gone"}, key: AgentKeys, from: AgentKeys \cup {None}, status: Statuses, seq: Nat]
Timers == [running: SUBSET AgentKeys, due: SUBSET AgentKeys]
Topics ==
  [msgs: Nat, shown: SUBSET Nat, rung: Texts \cup {None}, unsaid: SUBSET (Nat \X {"ring", "silent", "held", "stopped"})]
Modes == [sync: BOOLEAN, hush: {"ring", "silent", "held", "stopped"}, left: BOOLEAN]
Spendings ==
  [questions: Nat, presses: Nat, repeats: Nat, modes: Nat, failures: Nat, prompts: Nat]

RepliesTyped ==
  /\ opt \in Worlds
  /\ pane \in [status: Statuses, turn: Nat \ {0}, question: Nat, ticks: {0, 1}]
  /\ view \in [key: AgentKeys, status: Statuses, seq: Nat] \cup {Gone}
  /\ events \in Seq(Said)
  /\ mode \in Modes
  /\ out \in [AgentKeys -> Outs]
  /\ timer \in Timers /\ settle \in Timers
  /\ pager \in BOOLEAN
  /\ topic \in Topics
  /\ spent \in Spendings

(* What a post does to the row of its key, which had posted p and had or   *)
(* had not announced (a), and to the topic: nothing is said; or something  *)
(* without a sound, or by a post of which the bridge knows no more; or it  *)
(* rings and is kept as posted.                                            *)
Outcome(k, p, a, force) ==
  \E r \in Outs :
    /\ out' = [out EXCEPT ![k] = r]
    /\ topic' \in Topics /\ pager' \in BOOLEAN /\ spent' \in Spendings
    /\ \/ topic'.rung = topic.rung /\ topic'.msgs = topic.msgs /\ r.posted = p /\ r.announced = a
       \/ topic'.rung = None /\ view # Gone /\ view.key = k
       \/ topic'.rung = r.posted /\ r.announced = TRUE /\ (force \/ p # r.posted) /\ view # Gone /\ view.key = k

LEMMA SpentTyped ==
  ASSUME RepliesTyped, Fails \/ Succeeds \/ Repeating
  PROVE  spent' \in Spendings
  <1>1. CASE Fails
    BY <1>1 DEF RepliesTyped, Fails, Spendings
  <1>2. CASE Succeeds
    BY <1>2 DEF RepliesTyped, Succeeds
  <1>3. CASE Repeating
    <2>1. spent' = [spent EXCEPT !.repeats = @ + 1]
      BY <1>3 DEF Repeating
    <2>2. spent \in Spendings
      BY DEF RepliesTyped
    <2> QED
      BY <2>1, <2>2 DEF Spendings
  <1> QED
    BY <1>1, <1>2, <1>3

LEMMA TimersTyped ==
  ASSUME NEW t \in Timers, NEW k \in AgentKeys, NEW l \in AgentKeys
  PROVE  /\ Arm(t, k) \in Timers /\ Cancel(t, k) \in Timers /\ Move(t, k, l) \in Timers
         /\ Fired(t, k) \in Timers /\ TakenOff(t, k) \in Timers
  BY DEF Timers, Arm, Cancel, Move, Fired, TakenOff

LEMMA ScreenTyped ==
  ASSUME RepliesTyped
  PROVE  Screen \in Texts
  BY DEF RepliesTyped, Screen, Texts

LEMMA RetiredTyped ==
  ASSUME NEW r \in Outs
  PROVE  Retired(r) \in Outs /\ Retired(r).posted = r.posted /\ Retired(r).announced = r.announced
  <1>1. CASE r.kb = None
    BY <1>1 DEF Retired
  <1>2. CASE r.kb # None
    <2> DEFINE typing == IF r.kb.waiting THEN None ELSE r.typing
    <2>1. typing \in Nat \cup {None}
      BY DEF Outs
    <2>2. Retired(r) = [r EXCEPT !.kb = None, !.refresh = None, !.typing = typing]
      BY <1>2 DEF Retired
    <2> HIDE DEF typing
    <2> QED
      BY <2>1, <2>2 DEF Outs
  <1> QED
    BY <1>1, <1>2

LEMMA SoundTyped ==
  ASSUME RepliesTyped, NEW text \in Texts, NEW n \in {1, 2}
  PROVE  /\ Rung(n, text) \in Topics /\ Rung(n, text).rung = text
         /\ Silent(n, text) \in Topics /\ Silent(n, text).rung = None
  <1> DEFINE shown == IF Asks(text) THEN topic.shown \cup {text[2]} ELSE topic.shown
             msgs == topic.msgs + n
  <1>1. shown \in SUBSET Nat /\ msgs \in Nat
    BY DEF RepliesTyped, Topics, Texts
  <1>2. Rung(n, text) = [topic EXCEPT !.msgs = msgs, !.shown = shown, !.rung = text]
    BY DEF Rung, With
  <1>3. Silent(n, text) = [topic EXCEPT !.msgs = msgs, !.shown = shown, !.rung = None]
    BY DEF Silent, With
  <1> HIDE DEF shown, msgs
  <1> QED
    BY <1>1, <1>2, <1>3 DEF RepliesTyped, Topics

LEMMA PostOutcome ==
  ASSUME RepliesTyped, NEW k \in AgentKeys, NEW r \in Outs, NEW text \in Texts,
         NEW buttons \in BOOLEAN, NEW notify \in BOOLEAN, NEW force \in BOOLEAN,
         view # Gone, view.key = k, Post(k, r, text, buttons, notify, force)
  PROVE  Outcome(k, r.posted, r.announced, force)
  <1> DEFINE kb(n) == IF buttons /\ Asks(text) THEN [msg |-> topic.msgs + n, question |-> text[2], waiting |-> FALSE] ELSE None
             new(n) == [Retired(r) EXCEPT !.posted = text, !.kb = kb(n)]
             rung(n) == [new(n) EXCEPT !.announced = TRUE]
  <1>1. CASE r.posted = text /\ ~force
    BY <1>1, SpentTyped DEF Post, Keep, Outcome, RepliesTyped
  <1>2. CASE ~(r.posted = text /\ ~force)
    <2>0. Posted(k, r, text, buttons, notify)
      BY <1>2 DEF Post
    <2>1. ASSUME NEW n \in {1, 2}
          PROVE  /\ new(n) \in Outs /\ new(n).posted = text
                 /\ rung(n) \in Outs /\ rung(n).posted = text /\ rung(n).announced = TRUE
      <3>1. kb(n) \in Keyboards \cup {None}
        BY DEF Keyboards, Texts, RepliesTyped, Topics
      <3> HIDE DEF kb
      <3>2. new(n) \in Outs /\ new(n).posted = text
        BY <3>1, RetiredTyped DEF Outs
      <3> HIDE DEF new
      <3> QED
        BY <3>2 DEF Outs
    <2>2. \/ Fails /\ Keep(k, Retired(r)) /\ topic' \in {topic, Silent(1, text)} /\ UNCHANGED pager
          \/ \E n \in {1, 2} : Resends(n) /\ UNCHANGED pager /\ ~notify /\ Keep(k, new(n)) /\ topic' = Silent(n, text)
          \/ \E n \in {1, 2} : Resends(n) /\ UNCHANGED pager /\ Keep(k, rung(n)) /\ topic' = Rung(n, text)
          \/ Fails /\ Keep(k, new(1)) /\ topic' = Silent(1, text) /\ pager' \in BOOLEAN
      BY <2>0 DEF Posted
    <2> HIDE DEF kb, new, rung
    <2>3. topic \in Topics /\ Silent(1, text) \in Topics /\ Silent(1, text).rung = None
      BY SoundTyped DEF RepliesTyped
    <2>4. CASE Fails /\ Keep(k, Retired(r)) /\ topic' \in {topic, Silent(1, text)} /\ UNCHANGED pager
      BY <2>3, <2>4, RetiredTyped, SpentTyped DEF Keep, Outcome, RepliesTyped
    <2>5. ASSUME NEW n \in {1, 2}, Resends(n), UNCHANGED pager, Keep(k, new(n)), topic' = Silent(n, text)
          PROVE  Outcome(k, r.posted, r.announced, force)
      BY <2>1, <2>5, SoundTyped, SpentTyped DEF Resends, Keep, Outcome, RepliesTyped
    <2>6. ASSUME NEW n \in {1, 2}, Resends(n), UNCHANGED pager, Keep(k, rung(n)), topic' = Rung(n, text)
          PROVE  Outcome(k, r.posted, r.announced, force)
      BY <1>2, <2>1, <2>6, SoundTyped, SpentTyped DEF Resends, Keep, Outcome, RepliesTyped
    <2>7. CASE Fails /\ Keep(k, new(1)) /\ topic' = Silent(1, text) /\ pager' \in BOOLEAN
      BY <2>1, <2>3, <2>7, SpentTyped DEF Keep, Outcome, RepliesTyped
    <2> QED
      BY <2>2, <2>4, <2>5, <2>6, <2>7
  <1> QED
    BY <1>1, <1>2

LEMMA KeepsOutcome ==
  ASSUME RepliesTyped, NEW k \in AgentKeys, NEW r \in Outs, NEW force, Unread(k, r) \/ Skip(k, r)
  PROVE  Outcome(k, r.posted, r.announced, force)
  BY SpentTyped DEF Unread, Skip, Keep, Outcome, RepliesTyped

LEMMA KeepBackOutcome ==
  ASSUME RepliesTyped, NEW k \in AgentKeys, NEW r \in Outs, NEW force, NEW status, KeepBack(k, r, status)
  PROVE  Outcome(k, r.posted, r.announced, force)
  <1> DEFINE more == topic.unsaid \cup {<<pane.question, Posts>>}
  <1>1. topic \in Topics
    BY DEF RepliesTyped
  <1>2. Posts \in {"ring", "silent", "held", "stopped"} /\ pane.question \in Nat
    BY DEF RepliesTyped, Modes, Posts
  <1>3. more \in SUBSET (Nat \X {"ring", "silent", "held", "stopped"})
    BY <1>1, <1>2 DEF Topics
  <1>4. topic' = topic \/ topic' = [topic EXCEPT !.unsaid = more]
    BY DEF KeepBack
  <1> HIDE DEF more
  <1>5. topic' \in Topics /\ topic'.rung = topic.rung /\ topic'.msgs = topic.msgs
    BY <1>1, <1>3, <1>4 DEF Topics
  <1> QED
    BY <1>5, SpentTyped DEF KeepBack, Keep, Outcome, RepliesTyped

LEMMA QuestionOutcome ==
  ASSUME RepliesTyped, NEW k \in AgentKeys, NEW r \in Outs, NEW notify \in BOOLEAN, NEW force \in BOOLEAN,
         NEW t \in Timers, view # Gone, view.key = k, PostQuestion(k, r, notify, force, t)
  PROVE  Outcome(k, r.posted, r.announced, force) /\ timer' \in Timers
  <1>1. CASE force \/ ~Has("delay")
    <2> DEFINE bare == [r EXCEPT !.capture = IF force THEN None ELSE @]
    <2>1. bare \in Outs /\ bare.posted = r.posted /\ bare.announced = r.announced
      BY DEF Outs
    <2>2. timer' = t /\ (Unread(k, bare) \/ Post(k, bare, Screen, TRUE, notify, force))
      BY <1>1 DEF PostQuestion
    <2> HIDE DEF bare
    <2>3. CASE Unread(k, bare)
      BY <2>1, <2>2, <2>3, KeepsOutcome
    <2>4. CASE Post(k, bare, Screen, TRUE, notify, force)
      BY <2>1, <2>2, <2>4, PostOutcome, ScreenTyped
    <2> QED
      BY <2>2, <2>3, <2>4
  <1>2. CASE ~force /\ Has("delay")
    <2>1. CASE timer' = t /\ Unread(k, r)
      BY <2>1, KeepsOutcome
    <2>2. CASE /\ timer' = Arm(t, k)
               /\ Skip(k, [r EXCEPT !.capture = [text |-> Screen, seq |-> view.seq]])
      <3> DEFINE first == [r EXCEPT !.capture = [text |-> Screen, seq |-> view.seq]]
      <3>1. [text |-> Screen, seq |-> view.seq] \in Captures
        BY ScreenTyped DEF Captures, RepliesTyped
      <3>2. first \in Outs /\ first.posted = r.posted /\ first.announced = r.announced
        BY <3>1 DEF Outs
      <3> QED
        BY <2>2, <3>2, KeepsOutcome, TimersTyped
    <2>3. CASE /\ Second(r) /\ timer' = t
               /\ \E text \in Better(r.capture.text, Screen) : Post(k, [r EXCEPT !.capture = None], text, TRUE, notify, FALSE)
      <3>1. r.capture.text \in Texts
        BY <2>3 DEF Second, Outs, Captures
      <3>2. PICK text \in Texts : Post(k, [r EXCEPT !.capture = None], text, TRUE, notify, FALSE)
        BY <2>3, <3>1, ScreenTyped DEF Better
      <3>3. [r EXCEPT !.capture = None] \in Outs /\ [r EXCEPT !.capture = None].posted = r.posted
            /\ [r EXCEPT !.capture = None].announced = r.announced
        BY DEF Outs
      <3>4. Outcome(k, r.posted, r.announced, FALSE)
        BY <3>2, <3>3, PostOutcome
      <3> QED
        BY <1>2, <2>3, <3>4
    <2> QED
      BY <1>2, <2>1, <2>2, <2>3 DEF PostQuestion
  <1> QED
    BY <1>1, <1>2

LEMMA ScreenOutcome ==
  ASSUME RepliesTyped, NEW k \in AgentKeys, NEW r \in Outs, NEW t \in Timers, view # Gone, view.key = k,
         PostScreen(k, r, t)
  PROVE  Outcome(k, r.posted, r.announced, FALSE) /\ timer' \in Timers
  BY PostOutcome, KeepsOutcome, ScreenTyped DEF PostScreen

LEMMA AnswerOutcome ==
  ASSUME RepliesTyped, NEW k \in AgentKeys, NEW r \in Outs, NEW turn \in AgentTurns \cup {None}, NEW attempts \in Nat,
         NEW t \in Timers, view # Gone, view.key = k, PostAnswer(k, r, turn, attempts, t)
  PROVE  Outcome(k, r.posted, r.announced, FALSE) /\ timer' \in Timers
  <1>1. CASE PostScreen(k, r, t)
    BY <1>1, ScreenOutcome
  <1>2. CASE /\ timer' = Arm(t, k)
             /\ Skip(k, [r EXCEPT !.retry = [attempts |-> attempts + 1, turn |-> turn]])
    <2> DEFINE later == [r EXCEPT !.retry = [attempts |-> attempts + 1, turn |-> turn]]
    <2>1. [attempts |-> attempts + 1, turn |-> turn] \in Retries
      BY DEF Retries
    <2>2. later \in Outs /\ later.posted = r.posted /\ later.announced = r.announced
      BY <2>1 DEF Outs
    <2> QED
      BY <1>2, <2>2, KeepsOutcome, TimersTyped
  <1>3. CASE \E written \in {pane.turn, pane.turn - 1} \ {0} :
               timer' = t /\ Post(k, r, <<"reply", written, 0>>, FALSE, FALSE, FALSE)
    <2>1. PICK written \in {pane.turn, pane.turn - 1} \ {0} :
            timer' = t /\ Post(k, r, <<"reply", written, 0>>, FALSE, FALSE, FALSE)
      BY <1>3
    <2>2. written \in Nat
      BY DEF RepliesTyped
    <2>3. <<"reply", written, 0>> \in Texts
      BY <2>2 DEF Texts
    <2> QED
      BY <2>1, <2>3, PostOutcome
  <1> QED
    BY <1>1, <1>2, <1>3 DEF PostAnswer

LEMMA RedrawnOutcome ==
  ASSUME RepliesTyped, NEW k \in AgentKeys, NEW r \in Outs, r.kb # None, view # Gone, view.key = k, Redrawn(k, r)
  PROVE  \A p, a, force : Outcome(k, p, a, force)
  <1> DEFINE kb == [r.kb EXCEPT !.question = pane.question]
             new == [r EXCEPT !.refresh = None, !.kb = kb, !.posted = Screen]
  <1>1. kb \in Keyboards
    BY DEF Outs, Keyboards, RepliesTyped
  <1>2. out' = [out EXCEPT ![k] = new]
    BY DEF Redrawn, Keep
  <1> HIDE DEF kb
  <1>3. new \in Outs
    BY <1>1, ScreenTyped DEF Outs
  <1>4. topic' \in Topics /\ topic'.rung = None
    BY DEF Redrawn, RepliesTyped, Topics
  <1>5. spent' \in Spendings /\ pager' \in BOOLEAN
    BY SpentTyped DEF Redrawn, RepliesTyped
  <1> HIDE DEF new
  <1> QED
    BY <1>2, <1>3, <1>4, <1>5 DEF Outcome

LEMMA LiveOutcome ==
  ASSUME RepliesTyped, NEW k \in AgentKeys, NEW r \in Outs, NEW status \in Statuses,
         NEW turn \in AgentTurns \cup {None}, NEW attempts \in Nat, NEW force \in BOOLEAN, NEW t \in Timers,
         view # Gone, view.key = k, force => status = "blocked", FireLive(k, r, status, turn, attempts, force, t)
  PROVE  Outcome(k, r.posted, r.announced, force) /\ timer' \in Timers
  <1> DEFINE redraws == r.refresh # None /\ ~force /\ r.kb # None /\ r.kb.msg = r.refresh
             on == IF force THEN r ELSE [r EXCEPT !.refresh = None]
             bare == [on EXCEPT !.capture = None]
  <1>1. on \in Outs /\ on.posted = r.posted /\ on.announced = r.announced
    BY DEF Outs
  <1>0. redraws => r.kb # None
    OBVIOUS
  <1> HIDE DEF redraws, on
  <1>2. bare \in Outs /\ bare.posted = r.posted /\ bare.announced = r.announced
    BY <1>1 DEF Outs
  <1> HIDE DEF bare
  <1>3. CASE Posts = "stopped"
    <2>1. timer' = t /\ KeepBack(k, r, status)
      BY <1>3 DEF FireLive
    <2> QED
      BY <2>1, KeepBackOutcome
  <1>4. CASE Posts # "stopped" /\ redraws /\ pane.question \in Multi
    <2>1. timer' = t /\ (Redrawn(k, r) \/ Unread(k, on))
      BY <1>4 DEF FireLive, redraws, on
    <2>2. CASE Unread(k, on)
      <3>1. Outcome(k, on.posted, on.announced, force)
        BY <1>1, <2>2, KeepsOutcome
      <3> QED
        BY <1>1, <2>1, <3>1
    <2> QED
      BY <1>0, <1>4, <2>1, <2>2, RedrawnOutcome
  <1>5. CASE Posts # "stopped" /\ ~(redraws /\ pane.question \in Multi)
    <2>0. FireLive(k, r, status, turn, attempts, force, t) =
            CASE status \notin {"blocked", "done"} -> timer' = t /\ Skip(k, bare)
              [] Posts = "held" /\ ~force /\ status \in {"blocked", "done"} -> timer' = t /\ KeepBack(k, on, status)
              [] status = "blocked" /\ (Posts # "held" \/ force) ->
                   PostQuestion(k, on, force \/ Posts = "ring", force, t)
              [] status = "done" /\ Posts # "held" -> PostAnswer(k, on, turn, attempts, t)
      BY <1>5 DEF FireLive, redraws, on, bare
    <2>1. CASE status \notin {"blocked", "done"}
      <3>1. timer' = t /\ Skip(k, bare)
        BY <2>0, <2>1
      <3>2. Outcome(k, bare.posted, bare.announced, force)
        BY <1>2, <3>1, KeepsOutcome
      <3> QED
        BY <1>2, <3>1, <3>2
    <2>2. CASE status \in {"blocked", "done"} /\ Posts = "held" /\ ~force
      <3>1. timer' = t /\ KeepBack(k, on, status)
        BY <2>0, <2>2
      <3>2. Outcome(k, on.posted, on.announced, force)
        BY <1>1, <3>1, KeepBackOutcome
      <3> QED
        BY <1>1, <3>1, <3>2
    <2>3. CASE status = "blocked" /\ (Posts # "held" \/ force)
      <3>1. PostQuestion(k, on, force \/ Posts = "ring", force, t)
        BY <2>0, <2>3
      <3>2. Outcome(k, on.posted, on.announced, force) /\ timer' \in Timers
        BY <1>1, <3>1, QuestionOutcome
      <3> QED
        BY <1>1, <3>2
    <2>4. CASE status = "done" /\ Posts # "held"
      <3>1. PostAnswer(k, on, turn, attempts, t) /\ force = FALSE
        BY <2>0, <2>4
      <3>2. Outcome(k, on.posted, on.announced, FALSE) /\ timer' \in Timers
        BY <1>1, <3>1, AnswerOutcome
      <3> QED
        BY <1>1, <3>1, <3>2
    <2> QED
      BY <2>1, <2>2, <2>3, <2>4
  <1> QED
    BY <1>3, <1>4, <1>5

LEMMA FireOutcome ==
  ASSUME RepliesTyped, NEW k \in AgentKeys, NEW force \in BOOLEAN, NEW idle \in BOOLEAN,
         NEW t \in Timers, NEW s \in Timers, force => view # Gone /\ view.status = "blocked",
         FireScreen(k, force, idle, t, s)
  PROVE  Outcome(k, out[k].posted, out[k].announced, force) /\ timer' \in Timers /\ settle' \in Timers
  <1> DEFINE retry == out[k].retry
             r == [out[k] EXCEPT !.retry = None]
             status == IF (idle \/ retry # None) /\ view.status = "idle" THEN "done" ELSE view.status
             ends == status = "done" /\ retry = None /\ r.turn # None
             ended == IF ends THEN [r EXCEPT !.turn = None] ELSE r
             turn == IF retry # None THEN retry.turn ELSE r.turn
             attempts == IF retry # None THEN retry.attempts ELSE 0
  <1>0. out[k] \in Outs
    BY DEF RepliesTyped
  <1>1. r \in Outs /\ r.posted = out[k].posted /\ r.announced = out[k].announced
    BY <1>0 DEF Outs
  <1>2. turn \in AgentTurns \cup {None} /\ attempts \in Nat
    BY <1>0 DEF Outs, Retries
  <1> HIDE DEF r
  <1>3. ended \in Outs /\ ended.posted = out[k].posted /\ ended.announced = out[k].announced
    BY <1>1 DEF Outs
  <1>4. CASE view = Gone \/ view.key # k
    <2>1. timer' = t /\ settle' = s /\ Skip(k, r)
      BY <1>4 DEF FireScreen, r
    <2>2. Outcome(k, r.posted, r.announced, force)
      BY <1>1, <2>1, KeepsOutcome
    <2> QED
      BY <1>1, <2>1, <2>2
  <1>5. CASE view # Gone /\ view.key = k
    <2>1. status \in Statuses /\ (force => status = "blocked")
      BY <1>5 DEF RepliesTyped, Statuses
    <2>2. /\ settle' = IF ends THEN Cancel(s, k) ELSE s
          /\ FireLive(k, ended, status, turn, attempts, force, t)
      BY <1>5 DEF FireScreen, r
    <2> HIDE DEF status, ends, ended, turn, attempts
    <2>3. settle' \in Timers
      BY <2>2, TimersTyped
    <2>4. Outcome(k, ended.posted, ended.announced, force) /\ timer' \in Timers
      BY <1>2, <1>3, <1>5, <2>1, <2>2, LiveOutcome
    <2> QED
      BY <1>3, <2>3, <2>4
  <1> QED
    BY <1>4, <1>5

---------------------------------------------------------------------------
(* Changes of key on their way to the bridge, first left first.  Outside   *)
(* the worlds with returns none of them leads to a key another one leaves  *)
(* or left before, and the last leads to the key the agent has.            *)
Moves == {i \in DOMAIN events : events[i].kind = "appeared"}
Path ==
  /\ \A i \in DOMAIN events : events[i].kind = "appeared" <=> events[i].from # None
  /\ view # Gone /\ ~Has("returns") =>
       /\ \A i \in Moves : events[i].from # view.key
       /\ \A i, j \in Moves : i # j => events[i].from # events[j].from /\ events[i].key # events[j].key
       /\ \A i, j \in Moves : j <= i => events[i].key # events[j].from
       /\ \A i \in Moves : events[i].key = view.key \/ \E m \in Moves : events[m].from = events[i].key

(* What rang last is what was posted last for the agent's key, or for one  *)
(* that the bridge will hear it left, with nothing posted since on the way.*)
Holds(h) ==
  /\ out[h].posted = topic.rung /\ out[h].announced = TRUE
  /\ \/ h = view.key
     \/ \E i \in Moves : events[i].from = h /\ \A j \in Moves : j >= i => out[events[j].key].posted = None
RungHeld == ~Has("returns") /\ view # Gone /\ topic.rung # None => \E h \in AgentKeys : Holds(h)

(* A key that is not the agent's, and that the bridge will not hear it     *)
(* left, has nothing posted.                                               *)
Foreign ==
  view # Gone /\ ~Has("returns") =>
    \A k \in AgentKeys : k # view.key /\ (\A i \in Moves : events[i].from # k) => out[k].posted = None

RingInv == RepliesTyped /\ Path /\ RungHeld /\ Foreign

(* Rows change, and nothing that was posted or announced.                  *)
SameRows == \A k \in AgentKeys : out'[k].posted = out[k].posted /\ out'[k].announced = out[k].announced

LEMMA EventTyped ==
  ASSUME RepliesTyped
  PROVE  /\ DOMAIN events = 1..Len(events)
         /\ \A i \in DOMAIN events : events[i] \in Said /\ events[i].key \in AgentKeys
  <1>1. events \in Seq(Said)
    BY DEF RepliesTyped
  <1>2. DOMAIN events = 1..Len(events) /\ \A i \in DOMAIN events : events[i] \in Said
    BY <1>1
  <1> QED
    BY <1>2 DEF Said

LEMMA SameRowsHold ==
  ASSUME RingInv, SameRows, UNCHANGED <<opt, view, events>>, topic'.rung = topic.rung
  PROVE  Path' /\ RungHeld' /\ Foreign'
  <1>1. Path'
    BY DEF RingInv, Path, Moves, Has
  <1>2. RungHeld'
    <2> SUFFICES ASSUME ~Has("returns")', view' # Gone, topic'.rung # None
                 PROVE  \E h \in AgentKeys : Holds(h)'
      BY DEF RungHeld
    <2>1. PICK h \in AgentKeys : Holds(h)
      BY DEF RingInv, RungHeld, Has
    <2>2. \A j \in Moves : events[j].key \in AgentKeys
      BY EventTyped DEF RingInv, Moves
    <2> QED
      BY <2>1, <2>2 DEF Holds, SameRows, Moves
  <1>3. Foreign'
    BY DEF RingInv, Foreign, SameRows, Moves, Has
  <1> QED
    BY <1>1, <1>2, <1>3

(* A post.                                                                 *)
LEMMA OutcomeHolds ==
  ASSUME RingInv, NEW k \in AgentKeys, NEW force \in BOOLEAN,
         Outcome(k, out[k].posted, out[k].announced, force), UNCHANGED <<opt, view, events>>
  PROVE  out' \in [AgentKeys -> Outs] /\ topic' \in Topics /\ pager' \in BOOLEAN /\ spent' \in Spendings /\ Path' /\ RungHeld' /\ Foreign'
  <1>1. PICK r \in Outs :
          /\ out' = [out EXCEPT ![k] = r]
          /\ topic' \in Topics /\ pager' \in BOOLEAN /\ spent' \in Spendings
          /\ \/ topic'.rung = topic.rung /\ topic'.msgs = topic.msgs /\ r.posted = out[k].posted /\ r.announced = out[k].announced
             \/ topic'.rung = None /\ view # Gone /\ view.key = k
             \/ topic'.rung = r.posted /\ r.announced = TRUE /\ (force \/ out[k].posted # r.posted) /\ view # Gone /\ view.key = k
    BY DEF Outcome
  <1>2. out \in [AgentKeys -> Outs]
    BY DEF RingInv, RepliesTyped
  <1>3. out' \in [AgentKeys -> Outs] /\ out'[k] = r
    BY <1>1, <1>2
  <1>4. Path'
    BY DEF RingInv, Path, Moves, Has
  <1>5. RungHeld'
    <2>1. CASE topic'.rung = topic.rung /\ topic'.msgs = topic.msgs /\ r.posted = out[k].posted /\ r.announced = out[k].announced
      <3>1. SameRows
        BY <1>1, <1>2, <2>1 DEF SameRows
      <3> QED
        BY <2>1, <3>1, SameRowsHold
    <2>2. CASE topic'.rung = None
      BY <2>2 DEF RungHeld
    <2>3. CASE topic'.rung = r.posted /\ r.announced = TRUE /\ view # Gone /\ view.key = k
      BY <1>3, <2>3 DEF RungHeld, Holds
    <2> QED
      BY <1>1, <2>1, <2>2, <2>3
  <1>6. Foreign'
    <2>1. CASE topic'.rung = topic.rung /\ topic'.msgs = topic.msgs /\ r.posted = out[k].posted /\ r.announced = out[k].announced
      <3>1. SameRows
        BY <1>1, <1>2, <2>1 DEF SameRows
      <3> QED
        BY <2>1, <3>1, SameRowsHold
    <2>2. CASE view # Gone /\ view.key = k
      <3>1. \A l \in AgentKeys : l # k => out'[l] = out[l]
        BY <1>1, <1>2
      <3> QED
        BY <2>2, <3>1 DEF RingInv, Foreign, Moves, Has
    <2> QED
      BY <1>1, <2>1, <2>2
  <1> QED
    BY <1>1, <1>3, <1>4, <1>5, <1>6

LEMMA DueKeeps ==
  ASSUME RingInv, NEW k \in AgentKeys, ScreenDue(k) \/ EndTurn(k)
  PROVE  RingInv'
  <1>0. timer \in Timers /\ settle \in Timers
    BY DEF RingInv, RepliesTyped
  <1>1. CASE ScreenDue(k)
    <2>1. FireScreen(k, FALSE, FALSE, TakenOff(timer, k), settle) /\ UNCHANGED <<opt, pane, view, events, mode>>
      BY <1>1 DEF ScreenDue
    <2>2. TakenOff(timer, k) \in Timers
      BY <1>0, TimersTyped
    <2>3. Outcome(k, out[k].posted, out[k].announced, FALSE) /\ timer' \in Timers /\ settle' \in Timers
      BY <1>0, <2>1, <2>2, FireOutcome DEF RingInv
    <2>4. out' \in [AgentKeys -> Outs] /\ topic' \in Topics /\ pager' \in BOOLEAN /\ spent' \in Spendings /\ Path' /\ RungHeld' /\ Foreign'
      BY <2>1, <2>3, OutcomeHolds
    <2> QED
      BY <2>1, <2>3, <2>4 DEF RingInv, RepliesTyped
  <1>2. CASE EndTurn(k) /\ out[k].turn # None /\ view # Gone /\ view.key = k /\ view.status = "idle"
    <2>1. FireScreen(k, FALSE, TRUE, timer, TakenOff(settle, k)) /\ UNCHANGED <<opt, pane, view, events, mode>>
      BY <1>2 DEF EndTurn
    <2>2. TakenOff(settle, k) \in Timers
      BY <1>0, TimersTyped
    <2>3. Outcome(k, out[k].posted, out[k].announced, FALSE) /\ timer' \in Timers /\ settle' \in Timers
      BY <1>0, <2>1, <2>2, FireOutcome DEF RingInv
    <2>4. out' \in [AgentKeys -> Outs] /\ topic' \in Topics /\ pager' \in BOOLEAN /\ spent' \in Spendings /\ Path' /\ RungHeld' /\ Foreign'
      BY <2>1, <2>3, OutcomeHolds
    <2> QED
      BY <2>1, <2>3, <2>4 DEF RingInv, RepliesTyped
  <1>3. CASE EndTurn(k) /\ ~(out[k].turn # None /\ view # Gone /\ view.key = k /\ view.status = "idle")
    <2>1. settle' = TakenOff(settle, k) /\ UNCHANGED <<opt, pane, view, events, mode, out, timer, topic, pager, spent>>
      BY <1>3 DEF EndTurn
    <2>2. settle' \in Timers
      BY <1>0, <2>1, TimersTyped
    <2>3. SameRows
      BY <2>1 DEF SameRows
    <2>4. Path' /\ RungHeld' /\ Foreign'
      BY <2>1, <2>3, SameRowsHold
    <2> QED
      BY <2>1, <2>2, <2>4 DEF RingInv, RepliesTyped
  <1> QED
    BY <1>1, <1>2, <1>3

LEMMA CatchUpKeeps ==
  ASSUME RingInv, CatchUp
  PROVE  RingInv'
  <1>0. timer \in Timers /\ settle \in Timers
    BY DEF RingInv, RepliesTyped
  <1>1. mode' \in Modes /\ UNCHANGED <<opt, pane, view, events>>
    BY DEF CatchUp, RingInv, RepliesTyped, Modes
  <1>2. CASE view # Gone /\ view.status = "blocked" /\ FireScreen(view.key, TRUE, FALSE, timer, settle)
    <2>0. view.key \in AgentKeys
      BY <1>2 DEF RingInv, RepliesTyped
    <2>1. Outcome(view.key, out[view.key].posted, out[view.key].announced, TRUE) /\ timer' \in Timers /\ settle' \in Timers
      BY <1>0, <1>2, <2>0, FireOutcome DEF RingInv
    <2>2. out' \in [AgentKeys -> Outs] /\ topic' \in Topics /\ pager' \in BOOLEAN /\ spent' \in Spendings /\ Path' /\ RungHeld' /\ Foreign'
      BY <1>1, <2>0, <2>1, OutcomeHolds
    <2> QED
      BY <1>1, <2>1, <2>2 DEF RingInv, RepliesTyped
  <1>3. CASE UNCHANGED <<out, timer, settle, topic, pager, spent>>
    <2>1. SameRows
      BY <1>3 DEF SameRows
    <2>2. Path' /\ RungHeld' /\ Foreign'
      BY <1>1, <1>3, <2>1, SameRowsHold
    <2> QED
      BY <1>1, <1>3, <2>2 DEF RingInv, RepliesTyped
  <1> QED
    BY <1>2, <1>3 DEF CatchUp

---------------------------------------------------------------------------
(* The events.                                                             *)

LEMMA MergedTyped ==
  ASSUME NEW old \in Outs, NEW new \in Outs
  PROVE  /\ Merged(old, new) \in Outs
         /\ Merged(old, new).posted = IF new.posted = None THEN old.posted ELSE new.posted
         /\ Merged(old, new).announced = IF new.announced = FALSE THEN old.announced ELSE new.announced
  <1> DEFINE F == {"posted", "kb", "announced", "turn", "capture", "refresh", "typing", "retry"}
             m == [f \in F |-> IF new[f] = NoState[f] THEN old[f] ELSE new[f]]
  <1>1. DOMAIN old = F
    BY DEF Outs
  <1>2. Merged(old, new) = m
    BY <1>1 DEF Merged
  <1>3. /\ m = [posted |-> m.posted, kb |-> m.kb, announced |-> m.announced, turn |-> m.turn,
                capture |-> m.capture, refresh |-> m.refresh, typing |-> m.typing, retry |-> m.retry]
    OBVIOUS
  <1>4. /\ m.posted = IF new.posted = None THEN old.posted ELSE new.posted
        /\ m.announced = IF new.announced = FALSE THEN old.announced ELSE new.announced
    BY DEF NoState
  <1>5. /\ m.posted \in {old.posted, new.posted} /\ m.kb \in {old.kb, new.kb} /\ m.announced \in {old.announced, new.announced}
        /\ m.turn \in {old.turn, new.turn} /\ m.capture \in {old.capture, new.capture}
        /\ m.refresh \in {old.refresh, new.refresh} /\ m.typing \in {old.typing, new.typing} /\ m.retry \in {old.retry, new.retry}
    OBVIOUS
  <1> HIDE DEF m
  <1>6. m \in Outs
    BY <1>3, <1>5 DEF Outs
  <1> QED
    BY <1>2, <1>4, <1>6

LEMMA NoStateTyped == NoState \in Outs /\ NoState.posted = None
  BY DEF NoState, Outs

LEMMA TurnTyped ==
  ASSUME RepliesTyped, NEW t \in AgentTurns \cup {None}, NEW status \in Statuses
  PROVE  TurnAfter(t, status) \in AgentTurns \cup {None}
  <1>1. pane.turn \in Nat
    BY DEF RepliesTyped
  <1>2. [NewTurn(FALSE) EXCEPT !.started = pane.turn] \in AgentTurns
    BY <1>1 DEF NewTurn, AgentTurns
  <1>3. t # None => [t EXCEPT !.started = pane.turn] \in AgentTurns /\ [t EXCEPT !.ended = TRUE] \in AgentTurns
    BY <1>1 DEF AgentTurns
  <1>4. CASE status = "working"
    BY <1>2, <1>3, <1>4 DEF TurnAfter
  <1>5. CASE status = "done" /\ t # None
    BY <1>3, <1>5 DEF TurnAfter
  <1>6. CASE status # "working" /\ ~(status = "done" /\ t # None)
    BY <1>6 DEF TurnAfter
  <1> QED
    BY <1>4, <1>5, <1>6

LEMMA ObservedTyped ==
  ASSUME RepliesTyped, NEW r \in Outs, NEW status \in Statuses
  PROVE  /\ Observed(r, status) \in Outs /\ Observed(r, status).posted = r.posted
         /\ status = "blocked" => Observed(r, status).announced = r.announced
  <1> DEFINE turn == TurnAfter(r.turn, status)
             retry == IF Superseded(status) THEN None ELSE r.retry
             announced == IF status = "blocked" THEN r.announced ELSE FALSE
             capture == IF status = "blocked" THEN r.capture ELSE None
  <1>1. turn \in AgentTurns \cup {None} /\ retry \in Retries \cup {None} /\ announced \in BOOLEAN /\ capture \in Captures \cup {None}
    BY TurnTyped DEF Outs
  <1>2. Observed(r, status) = [r EXCEPT !.turn = turn, !.retry = retry, !.announced = announced, !.capture = capture]
    BY DEF Observed
  <1>3. status = "blocked" => announced = r.announced
    OBVIOUS
  <1> HIDE DEF turn, retry, announced, capture
  <1> QED
    BY <1>1, <1>2, <1>3 DEF Outs

LEMMA TimerAfterTyped ==
  ASSUME NEW t \in Timers, NEW e \in Said, NEW r
  PROVE  TimerAfter(t, e, r) \in Timers /\ SettleAfter(t, e, r) \in Timers
  BY TimersTyped DEF TimerAfter, SettleAfter, Said

LEMMA EventHeadTail ==
  ASSUME RepliesTyped, events # <<>>
  PROVE  /\ Head(events) = events[1] /\ 1 \in DOMAIN events /\ events[1] \in Said
         /\ Tail(events) \in Seq(Said)
         /\ \A i : i \in DOMAIN Tail(events) <=> i \in Nat \ {0} /\ i + 1 \in DOMAIN events
         /\ \A i \in DOMAIN Tail(events) : Tail(events)[i] = events[i + 1]
  <1>1. events \in Seq(Said)
    BY DEF RepliesTyped
  <1> QED
    BY <1>1

LEMMA PathPops ==
  ASSUME RingInv, events # <<>>, events' = Tail(events), UNCHANGED <<opt, view>>
  PROVE  Path'
  <1> DEFINE M == Moves
             N == {i \in DOMAIN Tail(events) : Tail(events)[i].kind = "appeared"}
  <1>0. RepliesTyped /\ Path
    BY DEF RingInv
  <1>1. \A i \in N : i + 1 \in M /\ Tail(events)[i] = events[i + 1] /\ i \in Nat
    BY <1>0, EventHeadTail DEF Moves
  <1>2. \A i \in M : i \in Nat /\ (i # 1 => i - 1 \in N)
    BY <1>0, EventHeadTail, EventTyped DEF Moves
  <1>3. Moves' = N
    BY DEF Moves
  <1>4. \A i \in DOMAIN Tail(events) : Tail(events)[i].kind = "appeared" <=> Tail(events)[i].from # None
    BY <1>0, EventHeadTail DEF Path
  <1>5. ASSUME view # Gone, ~Has("returns")
        PROVE  /\ \A i \in N : Tail(events)[i].from # view.key
               /\ \A i, j \in N : i # j => Tail(events)[i].from # Tail(events)[j].from /\ Tail(events)[i].key # Tail(events)[j].key
               /\ \A i, j \in N : j <= i => Tail(events)[i].key # Tail(events)[j].from
               /\ \A i \in N : Tail(events)[i].key = view.key \/ \E m \in N : Tail(events)[m].from = Tail(events)[i].key
    <2>0. /\ \A i \in M : events[i].from # view.key
          /\ \A i, j \in M : i # j => events[i].from # events[j].from /\ events[i].key # events[j].key
          /\ \A i, j \in M : j <= i => events[i].key # events[j].from
          /\ \A i \in M : events[i].key = view.key \/ \E m \in M : events[m].from = events[i].key
      BY <1>0, <1>5 DEF Path
    <2> HIDE DEF M, N
    <2>1. \A i \in N : Tail(events)[i].from # view.key
      BY <1>1, <2>0
    <2>2. \A i, j \in N : i # j => Tail(events)[i].from # Tail(events)[j].from /\ Tail(events)[i].key # Tail(events)[j].key
      <3> SUFFICES ASSUME NEW i \in N, NEW j \in N, i # j
                   PROVE  Tail(events)[i].from # Tail(events)[j].from /\ Tail(events)[i].key # Tail(events)[j].key
        OBVIOUS
      <3>0. i \in Nat /\ j \in Nat
        BY <1>1
      <3>1. i + 1 \in M /\ j + 1 \in M /\ Tail(events)[i] = events[i + 1] /\ Tail(events)[j] = events[j + 1]
        BY <1>1
      <3>2. events[i + 1].from # events[j + 1].from /\ events[i + 1].key # events[j + 1].key
        BY <2>0, <3>0, <3>1
      <3> QED
        BY <3>1, <3>2
    <2>3. \A i, j \in N : j <= i => Tail(events)[i].key # Tail(events)[j].from
      <3> SUFFICES ASSUME NEW i \in N, NEW j \in N, j <= i PROVE Tail(events)[i].key # Tail(events)[j].from
        OBVIOUS
      <3>0. i \in Nat /\ j \in Nat
        BY <1>1
      <3>1. i + 1 \in M /\ j + 1 \in M /\ Tail(events)[i] = events[i + 1] /\ Tail(events)[j] = events[j + 1]
        BY <1>1
      <3>2. events[i + 1].key # events[j + 1].from
        BY <2>0, <3>0, <3>1
      <3> QED
        BY <3>1, <3>2
    <2>4. ASSUME NEW i \in N, Tail(events)[i].key # view.key PROVE \E m \in N : Tail(events)[m].from = Tail(events)[i].key
      <3>1. PICK m \in M : events[m].from = events[i + 1].key
        BY <1>1, <2>0, <2>4
      <3>2. m # 1
        <4>1. 1 <= i + 1
          BY <1>1
        <4> QED
          BY <1>1, <2>0, <3>1, <4>1
      <3>3. m - 1 \in N /\ (m - 1) + 1 = m
        BY <1>2, <3>2
      <3>4. Tail(events)[m - 1] = events[m] /\ Tail(events)[i] = events[i + 1]
        BY <1>1, <3>3
      <3> QED
        BY <3>1, <3>3, <3>4
    <2> QED
      BY <2>1, <2>2, <2>3, <2>4
  <1> QED
    BY <1>3, <1>4, <1>5 DEF Path, Has

(* A change of key leads on from the first of those that wait, or ends at  *)
(* the agent's key.                                                        *)
LEMMA MoveHolds ==
  ASSUME RingInv, events # <<>>, events' = Tail(events), UNCHANGED <<opt, view, topic>>,
         view # Gone, ~Has("returns"), topic.rung # None,
         NEW e, e = Head(events), e.kind = "appeared", NEW row \in Outs,
         row.posted = Merged(out[e.from], out[e.key]).posted,
         row.announced = Merged(out[e.from], out[e.key]).announced,
         out' = [out EXCEPT ![e.key] = row, ![e.from] = NoState]
  PROVE  RungHeld'
  <1>0. RepliesTyped /\ Path
    BY DEF RingInv
  <1>1. e = events[1] /\ 1 \in Moves /\ e.key \in AgentKeys /\ e.from \in AgentKeys
    BY <1>0, EventHeadTail DEF Moves, Path, Said
  <1>2. e.from # view.key /\ e.key # e.from
    BY <1>0, <1>1 DEF Path
  <1>3. out[e.from] \in Outs /\ out[e.key] \in Outs
    BY <1>0, <1>1 DEF RepliesTyped
  <1>4. /\ row.posted = IF out[e.key].posted = None THEN out[e.from].posted ELSE out[e.key].posted
        /\ row.announced = IF out[e.key].announced = FALSE THEN out[e.from].announced ELSE out[e.key].announced
    BY <1>3, MergedTyped
  <1>5. /\ out'[e.key] = row /\ out'[e.from].posted = None
        /\ \A k \in AgentKeys : k # e.key /\ k # e.from => out'[k] = out[k]
    BY <1>0, <1>1, <1>2, NoStateTyped DEF RepliesTyped
  <1>6. \A i \in Moves' : i \in Nat \ {0} /\ i + 1 \in Moves /\ events'[i] = events[i + 1]
    BY <1>0, EventHeadTail DEF Moves
  <1>7. \A i \in Moves : i # 1 => i - 1 \in Moves' /\ events'[i - 1] = events[i] /\ i \in Nat
    BY <1>0, EventHeadTail, EventTyped DEF Moves
  <1>8. \A i \in Moves : events[i].key \in AgentKeys /\ i \in Nat /\ i >= 1
    BY <1>0, EventTyped DEF Moves
  <1>9. \A i \in Moves : i # 1 => events[i].key # e.key /\ events[i].from # e.from
    BY <1>0, <1>1 DEF Path
  <1>10. PICK h \in AgentKeys : Holds(h)
    BY DEF RingInv, RungHeld
  <1>11. \A i \in Moves' : i + 1 \in Moves /\ i + 1 # 1
    BY <1>6
  <1>12. CASE h = e.from
    <2>1. PICK i \in Moves : events[i].from = h /\ \A j \in Moves : j >= i => out[events[j].key].posted = None
      BY <1>2, <1>10, <1>12 DEF Holds
    <2>2. i = 1
      BY <1>9, <1>12, <2>1
    <2>3. \A j \in Moves : out[events[j].key].posted = None
      BY <1>8, <2>1, <2>2
    <2>4. row.posted = topic.rung /\ row.announced = TRUE
      BY <1>1, <1>3, <1>4, <1>10, <1>12, <2>3 DEF Holds, Outs
    <2>5. ASSUME NEW j \in Moves' PROVE out'[events'[j].key].posted = None
      <3>1. j + 1 \in Moves /\ j + 1 # 1 /\ events'[j] = events[j + 1]
        BY <1>6, <1>11
      <3>2. events[j + 1].key # e.key /\ events[j + 1].key \in AgentKeys /\ out[events[j + 1].key].posted = None
        BY <1>8, <1>9, <2>3, <3>1
      <3> QED
        BY <1>5, <3>1, <3>2
    <2>6. CASE e.key = view.key
      BY <1>1, <1>5, <2>4, <2>6 DEF RungHeld, Holds
    <2>7. CASE e.key # view.key
      <3>1. PICK m \in Moves : events[m].from = e.key
        BY <1>0, <1>1, <2>7 DEF Path
      <3>2. m # 1
        BY <1>1, <1>2, <3>1
      <3>3. m - 1 \in Moves' /\ events'[m - 1].from = e.key
        BY <1>7, <3>1, <3>2
      <3>4. Holds(e.key)'
        BY <1>5, <2>4, <2>5, <3>3 DEF Holds
      <3> QED
        BY <1>1, <3>4 DEF RungHeld
    <2> QED
      BY <2>6, <2>7
  <1>13. CASE h # e.from
    <2>1. out'[h].posted = topic.rung /\ out'[h].announced = TRUE
      <3>1. out[h].posted = topic.rung /\ out[h].announced = TRUE
        BY <1>10 DEF Holds
      <3>2. CASE h = e.key
        BY <1>4, <1>5, <3>1, <3>2
      <3>3. CASE h # e.key
        BY <1>5, <1>13, <3>1, <3>3
      <3> QED
        BY <3>2, <3>3
    <2>2. CASE h = view.key
      BY <2>1, <2>2 DEF RungHeld, Holds
    <2>3. CASE h # view.key
      <3>1. PICK i \in Moves : events[i].from = h /\ \A j \in Moves : j >= i => out[events[j].key].posted = None
        BY <1>10, <2>3 DEF Holds
      <3>2. i # 1
        BY <1>1, <1>13, <3>1
      <3>3. i - 1 \in Moves' /\ events'[i - 1].from = h
        BY <1>7, <3>1, <3>2
      <3>4. ASSUME NEW j \in Moves', j >= i - 1 PROVE out'[events'[j].key].posted = None
        <4>0. j \in Nat /\ i \in Nat
          BY <1>6, <1>8
        <4>1. j + 1 \in Moves /\ j + 1 # 1 /\ events'[j] = events[j + 1]
          BY <1>6, <1>11
        <4>2. j + 1 >= i
          BY <3>4, <4>0
        <4>3. out[events[j + 1].key].posted = None /\ events[j + 1].key \in AgentKeys /\ events[j + 1].key # e.key
          BY <1>8, <1>9, <3>1, <4>1, <4>2
        <4> QED
          BY <1>5, <4>1, <4>3
      <3>5. Holds(h)'
        BY <2>1, <3>3, <3>4 DEF Holds
      <3> QED
        BY <3>5 DEF RungHeld
    <2> QED
      BY <2>2, <2>3
  <1> QED
    BY <1>12, <1>13

(* An event that changes no key leaves what rang, or forgets it.           *)
LEMMA StayHolds ==
  ASSUME RingInv, events # <<>>, events' = Tail(events), UNCHANGED <<opt, view, topic>>,
         Head(events).kind # "appeared", SameRows
  PROVE  RungHeld'
  <1>0. RepliesTyped
    BY DEF RingInv
  <1> SUFFICES ASSUME view # Gone, ~Has("returns"), topic.rung # None
               PROVE  \E h \in AgentKeys : Holds(h)'
    BY DEF RungHeld, Has
  <1>1. \A i \in Moves : events[i].key \in AgentKeys /\ i \in Nat /\ i >= 1
    BY <1>0, EventTyped DEF Moves
  <1>2. 1 \notin Moves
    BY <1>0, EventHeadTail DEF Moves
  <1>3. \A i \in Moves : i - 1 \in Moves' /\ events'[i - 1] = events[i]
    BY <1>0, <1>2, EventHeadTail, EventTyped DEF Moves
  <1>4. \A i \in Moves' : i \in Nat /\ i + 1 \in Moves /\ events'[i] = events[i + 1]
    BY <1>0, EventHeadTail DEF Moves
  <1>5. PICK h \in AgentKeys : Holds(h)
    BY DEF RingInv, RungHeld
  <1>6. out'[h].posted = topic.rung /\ out'[h].announced = TRUE
    BY <1>5 DEF SameRows, Holds
  <1>7. CASE h = view.key
    BY <1>6, <1>7 DEF Holds
  <1>8. CASE h # view.key
    <2>1. PICK i \in Moves : events[i].from = h /\ \A j \in Moves : j >= i => out[events[j].key].posted = None
      BY <1>5, <1>8 DEF Holds
    <2>2. i - 1 \in Moves' /\ events'[i - 1].from = h
      BY <1>3, <2>1
    <2>3. ASSUME NEW j \in Moves', j >= i - 1 PROVE out'[events'[j].key].posted = None
      <3>1. j \in Nat /\ i \in Nat
        BY <1>1, <1>4
      <3>2. j + 1 \in Moves /\ events'[j] = events[j + 1]
        BY <1>4
      <3>3. j + 1 >= i
        BY <2>3, <3>1
      <3>4. out[events[j + 1].key].posted = None /\ events[j + 1].key \in AgentKeys
        BY <1>1, <2>1, <3>2, <3>3
      <3> QED
        BY <3>2, <3>4 DEF SameRows
    <2>4. Holds(h)'
      BY <1>6, <2>2, <2>3 DEF Holds
    <2> QED
      BY <2>4
  <1> QED
    BY <1>7, <1>8

(* What an event leaves posted for a key that is not the agent's.          *)
LEMMA PopForeign ==
  ASSUME RingInv, events # <<>>, events' = Tail(events), UNCHANGED <<opt, view>>,
         \A k \in AgentKeys :
           \/ out'[k].posted \in {None, out[k].posted}
           \/ Head(events).kind = "appeared" /\ k = Head(events).key,
         \A k \in AgentKeys : k = Head(events).from /\ k # Head(events).key => out'[k].posted = None
  PROVE  Foreign'
  <1> DEFINE e == events[1]
  <1>0. RepliesTyped /\ Path /\ Foreign
    BY DEF RingInv
  <1> SUFFICES ASSUME view # Gone, ~Has("returns"), NEW k \in AgentKeys, k # view.key, \A i \in Moves' : events'[i].from # k
               PROVE  out'[k].posted = None
    BY DEF Foreign, Has
  <1>1. Head(events) = e /\ (e.kind = "appeared" <=> 1 \in Moves)
    BY <1>0, EventHeadTail DEF Moves
  <1>2. \A i \in Moves : i # 1 => i - 1 \in Moves' /\ events'[i - 1] = events[i]
    BY <1>0, EventHeadTail, EventTyped DEF Moves
  <1>3. \A i \in Moves : i # 1 => events[i].from # k
    BY <1>2
  <1>4. 1 \in Moves => e.from # e.key
    BY <1>0 DEF Path
  <1>5. CASE 1 \in Moves /\ k = e.from
    BY <1>1, <1>4, <1>5
  <1>6. CASE ~(1 \in Moves /\ k = e.from)
    <2>1. \A i \in Moves : events[i].from # k
      BY <1>3, <1>6
    <2>2. out[k].posted = None
      BY <1>0, <2>1 DEF Foreign
    <2>3. 1 \in Moves => e.key # k
      BY <1>0, <2>1 DEF Path
    <2> QED
      BY <1>1, <2>2, <2>3
  <1> QED
    BY <1>5, <1>6

LEMMA ObserveKeeps ==
  ASSUME RingInv, Observe
  PROVE  RingInv'
  <1> DEFINE e == Head(events)
  <1>0. RepliesTyped /\ Path
    BY DEF RingInv
  <1>1. events # <<>> /\ events' = Tail(events) /\ UNCHANGED <<opt, pane, view, mode, pager, spent>>
    BY DEF Observe
  <1>2. e \in Said /\ e.key \in AgentKeys /\ e.status \in Statuses /\ events' \in Seq(Said)
    BY <1>0, <1>1, EventHeadTail DEF Said
  <1>3. e.kind = "appeared" <=> e.from # None
    BY <1>0, <1>1, EventHeadTail DEF Path
  <1>4. Path'
    BY <1>1, PathPops
  <1>5. CASE e.kind = "gone"
    <2>1. ObserveGone(e) /\ topic' = [topic EXCEPT !.rung = None]
      BY <1>5 DEF Observe
    <2> HIDE DEF e
    <2>2. out' \in [AgentKeys -> Outs]
      BY <1>0, <1>2, <2>1, NoStateTyped DEF ObserveGone, RepliesTyped
    <2>3. timer' \in Timers /\ settle' \in Timers
      BY <1>0, <1>2, <2>1, TimersTyped DEF ObserveGone, RepliesTyped
    <2>4. topic' \in Topics /\ topic'.rung = None
      BY <1>0, <2>1 DEF RepliesTyped, Topics
    <2>5. \A k \in AgentKeys : out'[k].posted \in {None, out[k].posted}
      BY <1>0, <1>2, <2>1, NoStateTyped DEF ObserveGone, RepliesTyped
    <2>6. e.from = None
      BY <1>3, <1>5
    <2>7. Foreign'
      BY <1>1, <2>5, <2>6, PopForeign, RepliesAssumption DEF e
    <2> QED
      BY <1>0, <1>1, <1>2, <1>4, <2>2, <2>3, <2>4, <2>7 DEF RingInv, RepliesTyped, RungHeld
  <1>6. CASE e.kind # "gone"
    <2> DEFINE moved == e.from # None /\ e.from # e.key
               merged == Merged(out[e.from], out[e.key])
               before == IF moved THEN [out EXCEPT ![e.key] = merged, ![e.from] = NoState] ELSE out
               r == Observed(before[e.key], e.status)
               t == IF moved THEN MovedTimer(e.from, e.key) ELSE timer
               s == IF moved THEN Cancel(settle, e.from) ELSE settle
    <2>1. /\ out' = [before EXCEPT ![e.key] = r]
          /\ timer' = TimerAfter(t, e, r) /\ settle' = SettleAfter(s, e, r)
      BY <1>6 DEF Observe, ObserveLive
    <2>2. topic' = IF e.status # "blocked" THEN [topic EXCEPT !.rung = None] ELSE topic
      BY <1>6 DEF Observe
    <2> HIDE DEF e
    <2>3. moved => e.from \in AgentKeys
      BY <1>2 DEF Said
    <2>4. moved => merged \in Outs
      BY <1>0, <1>2, <2>3, MergedTyped DEF RepliesTyped
    <2>5. moved => t \in Timers /\ s \in Timers
      BY <1>0, <1>2, <2>3, TimersTyped DEF RepliesTyped, MovedTimer
    <2>6. t \in Timers /\ s \in Timers
      BY <1>0, <2>5 DEF RepliesTyped
    <2> HIDE DEF merged, t, s
    <2>7. before \in [AgentKeys -> Outs]
      BY <1>0, <1>2, <2>4, NoStateTyped DEF RepliesTyped
    <2>8. r \in Outs /\ r.posted = before[e.key].posted /\ (e.status = "blocked" => r.announced = before[e.key].announced)
      BY <1>0, <1>2, <2>7, ObservedTyped
    <2> HIDE DEF r
    <2>9. out' \in [AgentKeys -> Outs] /\ timer' \in Timers /\ settle' \in Timers
      <3> HIDE DEF before
      <3> QED
        BY <1>2, <2>1, <2>6, <2>7, <2>8, TimerAfterTyped
    <2>10. topic' \in Topics /\ (e.status # "blocked" => topic'.rung = None)
      BY <1>0, <2>2 DEF RepliesTyped, Topics
    <2>11. RungHeld'
      <3>1. CASE e.status # "blocked"
        BY <2>10, <3>1 DEF RungHeld
      <3>2. CASE e.status = "blocked" /\ e.kind # "appeared"
        <4>1. before = out
          BY <1>3, <3>2
        <4>2. SameRows
          BY <1>0, <1>2, <2>1, <2>8, <3>2, <4>1 DEF SameRows, RepliesTyped
        <4>3. topic' = topic
          BY <2>2, <3>2
        <4> QED
          BY <1>1, <3>2, <4>2, <4>3, StayHolds DEF e
      <3>3. CASE e.status = "blocked" /\ e.kind = "appeared"
        <4> SUFFICES ASSUME view # Gone, ~Has("returns"), topic.rung # None PROVE RungHeld'
          BY <1>1, <2>2, <3>3 DEF RungHeld, Has
        <4>1. e.from # e.key
          BY <1>0, <1>1, <3>3, EventHeadTail DEF Path, Moves, e
        <4>2. moved
          BY <1>3, <3>3, <4>1
        <4>3. before[e.key] = merged
          BY <1>0, <1>2, <4>1, <4>2 DEF RepliesTyped
        <4>4. out' = [out EXCEPT ![e.key] = r, ![e.from] = NoState]
          BY <1>0, <1>2, <2>1, <2>3, <2>7, <4>1, <4>2 DEF RepliesTyped
        <4>5. topic' = topic
          BY <2>2, <3>3
        <4> QED
          BY <1>1, <2>8, <3>3, <4>3, <4>4, <4>5, MoveHolds DEF e, merged
      <3> QED
        BY <3>1, <3>2, <3>3
    <2>12. Foreign'
      <3>1. \A k \in AgentKeys : k # e.key => out'[k] = before[k]
        BY <1>2, <2>1, <2>7
      <3>2. out'[e.key].posted = before[e.key].posted
        BY <1>2, <2>1, <2>7, <2>8
      <3>3. CASE moved
        <4>1. \A k \in AgentKeys : k # e.key /\ k # e.from => before[k] = out[k]
          BY <1>0, <1>2, <2>3, <3>3 DEF RepliesTyped
        <4>2. before[e.from].posted = None
          BY <1>0, <1>2, <2>3, <3>3, NoStateTyped DEF RepliesTyped
        <4>3. e.kind = "appeared" /\ e.from # e.key /\ e.from \in AgentKeys
          BY <1>3, <2>3, <3>3
        <4> HIDE DEF before
        <4>4. \A k \in AgentKeys : out'[k].posted \in {None, out[k].posted} \/ (e.kind = "appeared" /\ k = e.key)
          BY <3>1, <4>1, <4>2, <4>3
        <4>5. \A k \in AgentKeys : k = e.from /\ k # e.key => out'[k].posted = None
          BY <3>1, <4>2
        <4> QED
          BY <1>1, <4>4, <4>5, PopForeign DEF e
      <3>4. CASE ~moved
        <4>1. before = out
          BY <3>4
        <4>2. \A k \in AgentKeys : out'[k].posted \in {None, out[k].posted}
          BY <3>1, <3>2, <4>1
        <4>3. \A k \in AgentKeys : ~(k = e.from /\ k # e.key)
          BY <3>4, RepliesAssumption
        <4> QED
          BY <1>1, <4>2, <4>3, PopForeign DEF e
      <3> QED
        BY <3>3, <3>4
    <2> QED
      BY <1>0, <1>1, <1>2, <1>4, <2>9, <2>10, <2>11, <2>12 DEF RingInv, RepliesTyped
  <1> QED
    BY <1>5, <1>6

---------------------------------------------------------------------------
(* The registry's events.                                                  *)
LEMMA AppendPath ==
  ASSUME RepliesTyped, NEW e \in Said, events' = Append(events, e)
  PROVE  /\ events' \in Seq(Said) /\ Len(events) + 1 \in DOMAIN events' /\ events'[Len(events) + 1] = e
         /\ DOMAIN events' = DOMAIN events \cup {Len(events) + 1}
         /\ \A i \in DOMAIN events : events'[i] = events[i] /\ i \in Nat /\ i >= 1 /\ i <= Len(events)
         /\ Len(events) \in Nat
  <1>1. events \in Seq(Said)
    BY DEF RepliesTyped
  <1> QED
    BY <1>1

(* An event that changes no key.                                           *)
LEMMA ChangeSaid ==
  ASSUME RingInv, NEW e \in Said, e.kind # "appeared", e.from = None, events' = Append(events, e),
         view' # Gone => view # Gone /\ view'.key = view.key, UNCHANGED <<opt, out, topic>>
  PROVE  Path' /\ RungHeld' /\ Foreign'
  <1>0. RepliesTyped /\ Path /\ RungHeld /\ Foreign
    BY DEF RingInv
  <1>1. Moves' = Moves /\ \A i \in Moves : events'[i] = events[i]
    BY <1>0, AppendPath DEF Moves
  <1>2. \A i \in DOMAIN events' : events'[i].kind = "appeared" <=> events'[i].from # None
    BY <1>0, AppendPath DEF Path
  <1>3. Path'
    <2> SUFFICES ASSUME view' # Gone, ~Has("returns")
                 PROVE  /\ \A i \in Moves' : events'[i].from # view'.key
                        /\ \A i, j \in Moves' : i # j => events'[i].from # events'[j].from /\ events'[i].key # events'[j].key
                        /\ \A i, j \in Moves' : j <= i => events'[i].key # events'[j].from
                        /\ \A i \in Moves' : events'[i].key = view'.key \/ \E m \in Moves' : events'[m].from = events'[i].key
      BY <1>2 DEF Path, Has
    <2>1. /\ \A i \in Moves : events[i].from # view.key
          /\ \A i, j \in Moves : i # j => events[i].from # events[j].from /\ events[i].key # events[j].key
          /\ \A i, j \in Moves : j <= i => events[i].key # events[j].from
          /\ \A i \in Moves : events[i].key = view.key \/ \E m \in Moves : events[m].from = events[i].key
      BY <1>0 DEF Path
    <2>2. view'.key = view.key
      OBVIOUS
    <2> QED
      BY ONLY <1>1, <2>1, <2>2
  <1>4. RungHeld'
    <2> SUFFICES ASSUME view' # Gone, ~Has("returns"), topic.rung # None PROVE \E h \in AgentKeys : Holds(h)'
      BY DEF RungHeld, Has
    <2>1. PICK h \in AgentKeys : Holds(h)
      BY <1>0 DEF RungHeld
    <2>2. view'.key = view.key /\ out' = out /\ topic' = topic
      OBVIOUS
    <2> QED
      BY ONLY <1>1, <2>1, <2>2 DEF Holds
  <1>5. Foreign'
    <2> SUFFICES ASSUME view' # Gone, ~Has("returns")
                 PROVE  \A k \in AgentKeys : k # view.key /\ (\A i \in Moves' : events'[i].from # k) => out[k].posted = None
      BY DEF Foreign, Has
    <2>1. \A k \in AgentKeys : k # view.key /\ (\A i \in Moves : events[i].from # k) => out[k].posted = None
      BY <1>0 DEF Foreign
    <2> QED
      BY ONLY <1>1, <2>1
  <1> QED
    BY <1>3, <1>4, <1>5

LEMMA RekeysKeeps ==
  ASSUME RingInv, NEW k \in AgentKeys, Rekeys(k)
  PROVE  RingInv'
  <1> DEFINE e == [kind |-> "appeared", key |-> k, from |-> view.key, status |-> view.status, seq |-> view.seq]
             n == Len(events) + 1
  <1>0. RepliesTyped /\ Path /\ RungHeld /\ Foreign
    BY DEF RingInv
  <1>1. view # Gone /\ view \in [key: AgentKeys, status: Statuses, seq: Nat] /\ view.key # k /\ view.key # None
    BY <1>0, RepliesAssumption DEF Rekeys, RepliesTyped
  <1>2. view' = [view EXCEPT !.key = k] /\ events' = Append(events, e) /\ UNCHANGED <<opt, pane, mode, out, timer, settle, pager, topic>>
    BY DEF Rekeys, Announce
  <1>3. e \in Said
    BY <1>1 DEF Said
  <1>4. view' \in [key: AgentKeys, status: Statuses, seq: Nat] /\ view'.key = k
    BY <1>1, <1>2
  <1>5. spent' \in Spendings
    BY <1>0, SpentTyped DEF Rekeys
  <1>6. /\ Moves' = Moves \cup {n} /\ events'[n] = e /\ n \notin Moves /\ n \in Nat
        /\ \A i \in Moves : events'[i] = events[i] /\ i \in Nat /\ i < n
    BY <1>0, <1>2, <1>3, AppendPath DEF Moves
  <1>7. \A i \in DOMAIN events' : events'[i].kind = "appeared" <=> events'[i].from # None
    BY <1>0, <1>1, <1>2, <1>3, AppendPath DEF Path
  <1>8. events' \in Seq(Said)
    BY <1>0, <1>2, <1>3, AppendPath
  <1>9. e.from = view.key /\ e.key = k
    OBVIOUS
  <1> HIDE DEF e, n
  <1>10. ASSUME ~Has("returns")
         PROVE  /\ \A i \in Moves' : events'[i].from # k
                /\ \A i, j \in Moves' : i # j => events'[i].from # events'[j].from /\ events'[i].key # events'[j].key
                /\ \A i, j \in Moves' : j <= i => events'[i].key # events'[j].from
                /\ \A i \in Moves' : events'[i].key = k \/ \E m \in Moves' : events'[m].from = events'[i].key
    <2>0. /\ \A i \in Moves : events[i].from # view.key
          /\ \A i, j \in Moves : i # j => events[i].from # events[j].from /\ events[i].key # events[j].key
          /\ \A i, j \in Moves : j <= i => events[i].key # events[j].from
          /\ \A i \in Moves : events[i].key = view.key \/ \E m \in Moves : events[m].from = events[i].key
      BY <1>0, <1>1, <1>10 DEF Path
    <2>1. \A i \in Moves : events[i].from # k
      BY <1>0, <1>10, EventTyped DEF Rekeys, Leaving, Moves
    <2>2. \A i \in Moves : events[i].key # k
      BY <1>1, <2>0, <2>1
    <2>3. \A i \in Moves' : events'[i].from # k
      BY <1>1, <1>6, <1>9, <2>1
    <2>4. \A i, j \in Moves' : i # j => events'[i].from # events'[j].from /\ events'[i].key # events'[j].key
      BY <1>6, <1>9, <2>0, <2>2
    <2>5. ASSUME NEW i \in Moves', NEW j \in Moves', j <= i PROVE events'[i].key # events'[j].from
      <3>1. CASE i \in Moves /\ j \in Moves
        BY <1>6, <2>0, <2>5, <3>1
      <3>2. CASE i = n
        BY <1>6, <1>9, <2>3, <3>2
      <3>3. CASE i \in Moves /\ j = n
        BY <1>6, <2>5, <3>3
      <3> QED
        BY <1>6, <3>1, <3>2, <3>3
    <2>6. ASSUME NEW i \in Moves' PROVE events'[i].key = k \/ \E m \in Moves' : events'[m].from = events'[i].key
      <3>1. CASE i = n
        BY <1>6, <1>9, <3>1
      <3>2. CASE i \in Moves /\ events[i].key = view.key
        BY <1>6, <1>9, <3>2
      <3>3. CASE i \in Moves /\ events[i].key # view.key
        BY <1>6, <2>0, <3>3
      <3> QED
        BY <1>6, <3>1, <3>2, <3>3
    <2> QED
      BY <2>3, <2>4, <2>5, <2>6
  <1>11. Path'
    BY <1>2, <1>4, <1>7, <1>10 DEF Path, Has
  <1>12. RungHeld'
    <2> SUFFICES ASSUME ~Has("returns"), topic.rung # None PROVE \E h \in AgentKeys : Holds(h)'
      BY <1>2 DEF RungHeld, Has
    <2>1. PICK h \in AgentKeys : Holds(h)
      BY <1>0, <1>1 DEF RungHeld
    <2>2. out[k].posted = None
      <3>1. \A i \in Moves : events[i].from # k
        BY <1>0, EventTyped DEF Rekeys, Leaving, Moves
      <3> QED
        BY <1>0, <1>1, <3>1 DEF Foreign
    <2>3. out[h].posted = topic.rung /\ out[h].announced = TRUE
      BY <2>1 DEF Holds
    <2>6. out' = out /\ topic' = topic
      BY <1>2
    <2>4. CASE h = view.key
      <3>1. \A j \in Moves' : j >= n => out[events'[j].key].posted = None
        BY <1>6, <1>9, <2>2
      <3> QED
        BY ONLY <1>6, <1>9, <2>3, <2>4, <2>6, <3>1 DEF Holds
    <2>5. CASE h # view.key
      <3>1. PICK i \in Moves : events[i].from = h /\ \A j \in Moves : j >= i => out[events[j].key].posted = None
        BY <2>1, <2>5 DEF Holds
      <3>2. \A j \in Moves' : j >= i => out[events'[j].key].posted = None
        BY <1>6, <1>9, <2>2, <3>1
      <3> QED
        BY ONLY <1>6, <2>3, <2>6, <3>1, <3>2 DEF Holds
    <2> QED
      BY <2>4, <2>5
  <1>13. Foreign'
    <2> SUFFICES ASSUME ~Has("returns"), NEW l \in AgentKeys, l # k, \A i \in Moves' : events'[i].from # l
                 PROVE  out[l].posted = None
      BY <1>2, <1>4 DEF Foreign, Has
    <2>1. l # view.key
      BY <1>6, <1>9
    <2>2. \A i \in Moves : events[i].from # l
      BY <1>6
    <2> QED
      BY <1>0, <1>1, <2>1, <2>2 DEF Foreign
  <1> QED
    BY <1>0, <1>2, <1>4, <1>5, <1>8, <1>11, <1>12, <1>13 DEF RingInv, RepliesTyped

(* The registry says what the pane is at, and that the agent has exited.   *)
LEMMA SaysKeeps ==
  ASSUME RingInv, RegistryNotice \/ Flaps \/ Repeats \/ Exits
  PROVE  RingInv'
  <1>0. RepliesTyped
    BY DEF RingInv
  <1>1. view # Gone /\ view \in [key: AgentKeys, status: Statuses, seq: Nat]
    BY <1>0 DEF RepliesTyped, RegistryNotice, Flaps, Repeats, Exits
  <1>2. UNCHANGED <<opt, mode, out, timer, settle, pager, topic>>
    BY DEF RegistryNotice, Flaps, Repeats, Exits
  <1>3. spent' \in Spendings
    <2>1. CASE Flaps \/ Repeats
      BY <1>0, <2>1, SpentTyped DEF Flaps, Repeats
    <2>2. CASE RegistryNotice \/ Exits
      BY <1>0, <2>2 DEF RegistryNotice, Exits, RepliesTyped
    <2> QED
      BY <2>1, <2>2
  <1>4. pane' \in [status: Statuses, turn: Nat \ {0}, question: Nat, ticks: {0, 1}]
    <2>1. CASE Exits
      <3>1. pane' = [pane EXCEPT !.status = "idle", !.question = 0, !.ticks = 0]
        BY <2>1 DEF Exits
      <3> QED
        BY <1>0, <3>1 DEF RepliesTyped, Statuses
    <2>2. CASE UNCHANGED pane
      BY <1>0, <2>2 DEF RepliesTyped
    <2> QED
      BY <2>1, <2>2 DEF RegistryNotice, Flaps, Repeats
  <1>5. \E e \in Said : /\ e.kind # "appeared" /\ e.from = None /\ events' = Append(events, e)
                        /\ view' = Gone \/ (view' \in [key: AgentKeys, status: Statuses, seq: Nat] /\ view'.key = view.key)
    <2>1. CASE RegistryNotice
      <3>1. PICK seq \in {view.seq, view.seq + 1} :
              /\ view' = [view EXCEPT !.status = pane.status, !.seq = seq]
              /\ events' = Append(events, [kind |-> "changed", key |-> view.key, from |-> None, status |-> pane.status, seq |-> seq])
        BY <2>1 DEF RegistryNotice, Announce
      <3>2. pane.status \in Statuses /\ seq \in Nat
        BY <1>0, <1>1 DEF RepliesTyped
      <3>3. view' \in [key: AgentKeys, status: Statuses, seq: Nat] /\ view'.key = view.key
        BY <1>1, <3>1, <3>2
      <3>4. [kind |-> "changed", key |-> view.key, from |-> None, status |-> pane.status, seq |-> seq] \in Said
        BY <1>1, <3>2 DEF Said
      <3> QED
        BY <3>1, <3>3, <3>4
    <2>2. CASE Flaps
      <3>1. /\ view' = [view EXCEPT !.status = "working"]
            /\ events' = Append(events, [kind |-> "changed", key |-> view.key, from |-> None, status |-> "working", seq |-> view.seq])
        BY <2>2 DEF Flaps, Announce
      <3>2. view' \in [key: AgentKeys, status: Statuses, seq: Nat] /\ view'.key = view.key
        BY <1>1, <3>1 DEF Statuses
      <3>3. [kind |-> "changed", key |-> view.key, from |-> None, status |-> "working", seq |-> view.seq] \in Said
        BY <1>1 DEF Said, Statuses
      <3> QED
        BY <3>1, <3>2, <3>3
    <2>3. CASE Repeats
      <3>1. /\ view' = view
            /\ events' = Append(events, [kind |-> "changed", key |-> view.key, from |-> None, status |-> view.status, seq |-> view.seq])
        BY <2>3 DEF Repeats, Announce
      <3>2. [kind |-> "changed", key |-> view.key, from |-> None, status |-> view.status, seq |-> view.seq] \in Said
        BY <1>1 DEF Said
      <3> QED
        BY <1>1, <3>1, <3>2
    <2>4. CASE Exits
      <3>1. /\ view' = Gone
            /\ events' = Append(events, [kind |-> "gone", key |-> view.key, from |-> None, status |-> view.status, seq |-> view.seq])
        BY <2>4 DEF Exits, Announce
      <3>2. [kind |-> "gone", key |-> view.key, from |-> None, status |-> view.status, seq |-> view.seq] \in Said
        BY <1>1 DEF Said
      <3> QED
        BY <3>1, <3>2
    <2> QED
      BY <2>1, <2>2, <2>3, <2>4
  <1>6. PICK e \in Said : /\ e.kind # "appeared" /\ e.from = None /\ events' = Append(events, e)
                          /\ view' = Gone \/ (view' \in [key: AgentKeys, status: Statuses, seq: Nat] /\ view'.key = view.key)
    BY <1>5
  <1>7. Path' /\ RungHeld' /\ Foreign'
    BY <1>1, <1>2, <1>6, ChangeSaid
  <1>8. events' \in Seq(Said)
    BY <1>0, <1>6, AppendPath
  <1> QED
    BY <1>0, <1>2, <1>3, <1>4, <1>6, <1>7, <1>8 DEF RingInv, RepliesTyped

---------------------------------------------------------------------------
(* Steps that post nothing.                                                *)

(* The row of a key changes, and not what was posted or announced.         *)
LEMMA RowKept ==
  ASSUME RepliesTyped, NEW k \in AgentKeys, NEW r \in Outs, Keep(k, r),
         r.posted = out[k].posted, r.announced = out[k].announced
  PROVE  SameRows /\ out' \in [AgentKeys -> Outs]
  BY DEF RepliesTyped, Keep, SameRows

LEMMA PaneTyped ==
  ASSUME RepliesTyped, NEW what
  PROVE  /\ DialogAnswered(pane) \in [status: Statuses, turn: Nat \ {0}, question: Nat, ticks: {0, 1}]
         /\ Typed(what) \in [status: Statuses, turn: Nat \ {0}, question: Nat, ticks: {0, 1}]
  <1>1. pane \in [status: Statuses, turn: Nat \ {0}, question: Nat, ticks: {0, 1}]
    BY DEF RepliesTyped
  <1>2. DialogAnswered(pane) \in [status: Statuses, turn: Nat \ {0}, question: Nat, ticks: {0, 1}]
    BY <1>1 DEF DialogAnswered, Statuses
  <1>3. TickBox(pane) \in [status: Statuses, turn: Nat \ {0}, question: Nat, ticks: {0, 1}]
    BY <1>1 DEF TickBox
  <1> QED
    BY <1>1, <1>2, <1>3 DEF Typed

LEMMA OperatorKeeps ==
  ASSUME RingInv, NEW k \in AgentKeys, NEW typed \in BOOLEAN, NEW what,
         Prompt(k) \/ PressLate(k) \/ Press(k, what) \/ Text(k, typed)
  PROVE  RingInv'
  <1>0. RepliesTyped /\ out[k] \in Outs /\ timer \in Timers /\ settle \in Timers
    BY DEF RingInv, RepliesTyped
  <1>1. SameRows /\ out' \in [AgentKeys -> Outs]
    <2>1. CASE Prompt(k)
      <3> DEFINE turn == IF view.status = "working" THEN [NewTurn(TRUE) EXCEPT !.started = pane.turn] ELSE NewTurn(TRUE)
      <3>1. turn \in AgentTurns
        BY <1>0 DEF RepliesTyped, NewTurn, AgentTurns
      <3>2. out' = [out EXCEPT ![k].turn = turn]
        BY <2>1 DEF Prompt
      <3> HIDE DEF turn
      <3>3. [out[k] EXCEPT !.turn = turn] \in Outs /\ [out[k] EXCEPT !.turn = turn].posted = out[k].posted
            /\ [out[k] EXCEPT !.turn = turn].announced = out[k].announced
        BY <1>0, <3>1 DEF Outs
      <3>4. Keep(k, [out[k] EXCEPT !.turn = turn])
        BY <3>2 DEF Keep
      <3> QED
        BY <1>0, <3>3, <3>4, RowKept
    <2>2. CASE Keep(k, Retired(out[k]))
      BY <1>0, <2>2, RetiredTyped, RowKept
    <2>3. CASE Press(k, what) /\ ~Keep(k, Retired(out[k]))
      <3>0. out[k].kb \in Keyboards
        BY <1>0, <2>3 DEF Press, Outs
      <3> DEFINE waits == [out[k] EXCEPT !.kb.waiting = TRUE, !.typing = out[k].kb.msg]
                 ticks == [out[k] EXCEPT !.refresh = out[k].kb.msg]
                 ends == [out[k] EXCEPT !.kb = None, !.capture = None, !.refresh = IF what = "submit" THEN None ELSE @]
      <3>1. Keep(k, waits) \/ Keep(k, ticks) \/ Keep(k, ends)
        BY <2>3 DEF Press
      <3>2. waits \in Outs /\ waits.posted = out[k].posted /\ waits.announced = out[k].announced
        <4>1. [out[k].kb EXCEPT !.waiting = TRUE] \in Keyboards /\ out[k].kb.msg \in Nat
          BY <3>0 DEF Keyboards
        <4>2. waits = [out[k] EXCEPT !.kb = [out[k].kb EXCEPT !.waiting = TRUE], !.typing = out[k].kb.msg]
          OBVIOUS
        <4> QED
          BY <1>0, <4>1, <4>2 DEF Outs
      <3>3. ticks \in Outs /\ ticks.posted = out[k].posted /\ ticks.announced = out[k].announced
        BY <1>0, <3>0 DEF Outs, Keyboards
      <3>4. ends \in Outs /\ ends.posted = out[k].posted /\ ends.announced = out[k].announced
        BY <1>0 DEF Outs
      <3> HIDE DEF waits, ticks, ends
      <3> QED
        BY <1>0, <3>1, <3>2, <3>3, <3>4, RowKept
    <2>4. CASE Text(k, typed)
      <3> DEFINE kb == IF out[k].kb # None /\ out[k].kb.msg = out[k].typing THEN None ELSE out[k].kb
                 done == [out[k] EXCEPT !.typing = None, !.kb = kb]
      <3>1. kb \in Keyboards \cup {None}
        BY <1>0 DEF Outs
      <3>2. Keep(k, done)
        BY <2>4 DEF Text
      <3> HIDE DEF kb
      <3>3. done \in Outs /\ done.posted = out[k].posted /\ done.announced = out[k].announced
        BY <1>0, <3>1 DEF Outs
      <3> HIDE DEF done
      <3> QED
        BY <1>0, <3>2, <3>3, RowKept
    <2> QED
      BY <2>1, <2>2, <2>3, <2>4 DEF PressLate
  <1>2. UNCHANGED <<opt, view, events, mode, topic, pager>>
    BY DEF Prompt, PressLate, Press, Text, world
  <1>3. timer' \in Timers /\ settle' \in Timers
    BY <1>0, TimersTyped DEF Prompt, PressLate, Press, Text
  <1>4. pane' \in [status: Statuses, turn: Nat \ {0}, question: Nat, ticks: {0, 1}]
    <2>1. UNCHANGED pane \/ pane' = Typed(what) \/ pane' = DialogAnswered(pane)
      BY DEF Prompt, PressLate, Press, Text, world
    <2> QED
      BY <1>0, <2>1, PaneTyped DEF RepliesTyped
  <1>5. spent' \in Spendings
    <2>1. CASE Prompt(k)
      <3>1. spent' = [spent EXCEPT !.prompts = @ + 1]
        BY <2>1 DEF Prompt
      <3> QED
        BY <1>0, <3>1 DEF RepliesTyped, Spendings
    <2>2. CASE Press(k, what) /\ Fails
      BY <1>0, <2>2, SpentTyped
    <2>3. CASE Press(k, what) /\ ~Fails
      <3>1. spent' = [spent EXCEPT !.presses = @ + 1]
        BY <2>3 DEF Press
      <3> QED
        BY <1>0, <3>1 DEF RepliesTyped, Spendings
    <2>4. CASE PressLate(k) \/ Text(k, typed)
      BY <1>0, <2>4 DEF PressLate, Text, world, RepliesTyped
    <2> QED
      BY <2>1, <2>2, <2>3, <2>4
  <1>6. Path' /\ RungHeld' /\ Foreign'
    BY <1>1, <1>2, SameRowsHold
  <1> QED
    BY <1>0, <1>1, <1>2, <1>3, <1>4, <1>5, <1>6 DEF RingInv, RepliesTyped

LEMMA AgentKeeps ==
  ASSUME RingInv, Works \/ AsksQuestion \/ Finishes \/ Looked
  PROVE  RingInv'
  <1>0. RepliesTyped
    BY DEF RingInv
  <1>1. UNCHANGED <<opt, view, events, mode, out, timer, settle, pager, topic>>
    BY DEF Works, AsksQuestion, Finishes, Looked
  <1>2. pane' \in [status: Statuses, turn: Nat \ {0}, question: Nat, ticks: {0, 1}]
    <2>1. CASE Works
      <3>1. pane' = DialogAnswered(pane) \/ pane' = [pane EXCEPT !.status = "working", !.turn = @ + 1]
        BY <2>1 DEF Works
      <3>2. [pane EXCEPT !.status = "working", !.turn = @ + 1] \in [status: Statuses, turn: Nat \ {0}, question: Nat, ticks: {0, 1}]
        <4>1. pane.turn + 1 \in Nat \ {0}
          BY <1>0 DEF RepliesTyped
        <4> QED
          BY <1>0, <4>1 DEF RepliesTyped, Statuses
      <3> QED
        BY <1>0, <3>1, <3>2, PaneTyped
    <2>2. CASE AsksQuestion
      <3>1. pane' = [pane EXCEPT !.status = "blocked", !.question = spent.questions + 1, !.ticks = 0]
        BY <2>2 DEF AsksQuestion
      <3>2. spent.questions + 1 \in Nat
        BY <1>0 DEF RepliesTyped, Spendings
      <3> QED
        BY <1>0, <3>1, <3>2 DEF RepliesTyped, Statuses
    <2>3. CASE Finishes
      BY <1>0, <2>3 DEF Finishes, RepliesTyped, Statuses
    <2>4. CASE Looked
      BY <1>0, <2>4 DEF Looked, RepliesTyped, Statuses
    <2> QED
      BY <2>1, <2>2, <2>3, <2>4
  <1>3. spent' \in Spendings
    BY <1>0 DEF Works, AsksQuestion, Finishes, Looked, RepliesTyped, Spendings
  <1>4. SameRows
    BY <1>1 DEF SameRows
  <1>5. Path' /\ RungHeld' /\ Foreign'
    BY <1>1, <1>4, SameRowsHold
  <1> QED
    BY <1>0, <1>1, <1>2, <1>3, <1>5 DEF RingInv, RepliesTyped

LEMMA SwitchesKeeps ==
  ASSUME RingInv, NEW new \in Modes, Switches(new)
  PROVE  RingInv'
  <1>0. RepliesTyped
    BY DEF RingInv
  <1>1. UNCHANGED <<opt, pane, view, events, out, timer, settle, pager, topic>> /\ mode' \in Modes
    BY DEF Switches
  <1>2. spent' = [spent EXCEPT !.modes = @ + 1]
    BY DEF Switches
  <1>3. spent' \in Spendings
    BY <1>0, <1>2 DEF RepliesTyped, Spendings
  <1>4. SameRows
    BY <1>1 DEF SameRows
  <1>5. Path' /\ RungHeld' /\ Foreign'
    BY <1>1, <1>4, SameRowsHold
  <1> QED
    BY <1>0, <1>1, <1>3, <1>5 DEF RingInv, RepliesTyped

LEMMA ModesKeep ==
  ASSUME RingInv, SetsSync \/ (\E m \in opt.modes \ {"stopped"} : SetsHush(m))
  PROVE  RingInv'
  <1>0. mode \in Modes /\ opt \in Worlds
    BY DEF RingInv, RepliesTyped
  <1>1. CASE SetsSync
    <2>1. [mode EXCEPT !.sync = ~@] \in Modes
      BY <1>0 DEF Modes
    <2> QED
      BY <1>1, <2>1, SwitchesKeeps DEF SetsSync
  <1>2. ASSUME NEW m \in opt.modes \ {"stopped"}, SetsHush(m) PROVE RingInv'
    <2>1. m \in {"ring", "silent", "held", "stopped"}
      BY <1>0, RepliesAssumption
    <2>2. [mode EXCEPT !.hush = m, !.left = @ \/ m = "ring"] \in Modes
      BY <1>0, <2>1 DEF Modes
    <2> QED
      BY <1>2, <2>2, SwitchesKeeps DEF SetsHush
  <1> QED
    BY <1>1, <1>2

LEMMA OthersKeep ==
  ASSUME RingInv, (\E k \in AgentKeys : TimerFires(k)) \/ UNCHANGED vars
  PROVE  RingInv'
  <1>0. RepliesTyped /\ timer \in Timers /\ settle \in Timers
    BY DEF RingInv, RepliesTyped
  <1>1. UNCHANGED <<opt, pane, view, events, mode, out, pager, topic, spent>>
    BY DEF TimerFires, world, vars
  <1>2. timer' \in Timers /\ settle' \in Timers
    BY <1>0, TimersTyped DEF TimerFires, vars
  <1>3. SameRows
    BY <1>1 DEF SameRows
  <1>4. Path' /\ RungHeld' /\ Foreign'
    BY <1>1, <1>3, SameRowsHold
  <1> QED
    BY <1>0, <1>1, <1>2, <1>4 DEF RingInv, RepliesTyped

---------------------------------------------------------------------------
LEMMA RepliesInit ==
  ASSUME Init
  PROVE  RingInv
  <1>1. RepliesTyped
    <2>1. opt \in Worlds /\ pager \in BOOLEAN /\ events \in Seq(Said)
      BY DEF Init, Has
    <2>2. pane \in [status: Statuses, turn: Nat \ {0}, question: Nat, ticks: {0, 1}]
      BY DEF Init, Statuses
    <2>3. view \in [key: AgentKeys, status: Statuses, seq: Nat]
      BY RepliesAssumption DEF Init, Statuses
    <2>4. mode \in Modes
      <3>1. opt.modes \subseteq {"ring", "silent", "held", "stopped"}
        BY <2>1, RepliesAssumption
      <3> QED
        BY <3>1 DEF Init, Modes
    <2>5. out \in [AgentKeys -> Outs]
      BY NoStateTyped DEF Init
    <2>6. timer \in Timers /\ settle \in Timers /\ topic \in Topics /\ spent \in Spendings
      BY DEF Init, Timers, Topics, Spendings
    <2> QED
      BY <2>1, <2>2, <2>3, <2>4, <2>5, <2>6 DEF RepliesTyped
  <1>2. DOMAIN events = {}
    BY DEF Init
  <1>3. Path
    BY <1>2 DEF Path, Moves
  <1>4. RungHeld
    BY DEF Init, RungHeld
  <1>5. Foreign
    BY DEF Init, Foreign, NoState
  <1> QED
    BY <1>1, <1>3, <1>4, <1>5 DEF RingInv

(* Every state is typed; changes of key form a path to the key the agent   *)
(* has; what rang is the last post of that key or of one on the way to it; *)
(* no other key has anything posted.                                       *)
THEOREM RepliesInvariant == Spec => []RingInv
  <1>1. Init => RingInv
    BY RepliesInit
  <1>2. RingInv /\ [Next]_vars => RingInv'
    <2> SUFFICES ASSUME RingInv, [Next]_vars PROVE RingInv'
      OBVIOUS
    <2>1. CASE Bridge
      BY <2>1, ObserveKeeps, CatchUpKeeps, DueKeeps DEF Bridge
    <2>2. CASE Operator
      BY <2>2, OperatorKeeps, ModesKeep DEF Operator
    <2>3. CASE Agent
      BY <2>3, AgentKeeps, SaysKeeps, RekeysKeeps DEF Agent
    <2>4. CASE RegistryNotice
      BY <2>4, SaysKeeps
    <2>5. CASE (\E k \in AgentKeys : TimerFires(k)) \/ UNCHANGED vars
      BY <2>5, OthersKeep
    <2> QED
      BY <2>1, <2>2, <2>3, <2>4, <2>5 DEF Next
  <1> QED
    BY <1>1, <1>2, PTL DEF Spec

(* A post made for a key that has no change on the way does not ring what  *)
(* rang last, unless forced.                                               *)
LEMMA PostRings ==
  ASSUME RingInv, NEW k \in AgentKeys, NEW force \in BOOLEAN, Outcome(k, out[k].posted, out[k].announced, force),
         force => out[k].announced # TRUE,
         ~Has("returns"), ~Moving, topic.rung # None, topic'.msgs # topic.msgs
  PROVE  topic'.rung # topic.rung
  <1>1. Moves = {}
    BY EventTyped DEF RingInv, Moves, Moving
  <1>2. PICK r \in Outs :
          \/ topic'.msgs = topic.msgs
          \/ topic'.rung = None
          \/ topic'.rung = r.posted /\ (force \/ out[k].posted # r.posted) /\ view # Gone /\ view.key = k
    BY DEF Outcome
  <1>3. CASE topic'.rung = r.posted /\ (force \/ out[k].posted # r.posted) /\ view # Gone /\ view.key = k
    <2>1. PICK h \in AgentKeys : Holds(h)
      BY <1>3 DEF RingInv, RungHeld
    <2>2. h = k
      BY <1>1, <1>3, <2>1 DEF Holds
    <2> QED
      BY <1>3, <2>1, <2>2 DEF Holds
  <1> QED
    BY <1>2, <1>3

(* What rings is not what rang last: a post that rings differs from what   *)
(* its key posted, or is the catch-up's, for a question that has not rung. *)
THEOREM QuestionsRingOnce == Spec => RingsOnce
  <1>1. ASSUME RingInv, [Next]_vars, ~Has("returns"), ~Moving, topic.rung # None, topic'.msgs # topic.msgs
        PROVE  topic'.rung # topic.rung
    <2>0. RepliesTyped /\ timer \in Timers /\ settle \in Timers
      BY <1>1 DEF RingInv, RepliesTyped
    <2>1. CASE Observe
      BY <1>1, <2>0, <2>1 DEF Observe, RepliesTyped, Topics
    <2>2. CASE CatchUp
      <3>1. CASE view # Gone /\ view.status = "blocked" /\ ~out[view.key].announced
                 /\ FireScreen(view.key, TRUE, FALSE, timer, settle)
        <4>1. view.key \in AgentKeys
          BY <2>0, <3>1 DEF RepliesTyped
        <4>2. Outcome(view.key, out[view.key].posted, out[view.key].announced, TRUE)
          BY <2>0, <3>1, <4>1, FireOutcome
        <4> QED
          BY <1>1, <3>1, <4>1, <4>2, PostRings
      <3>2. CASE UNCHANGED topic
        BY <1>1, <3>2
      <3> QED
        BY <2>2, <3>1, <3>2 DEF CatchUp
    <2>3. ASSUME NEW k \in AgentKeys, ScreenDue(k) PROVE topic'.rung # topic.rung
      <3>1. FireScreen(k, FALSE, FALSE, TakenOff(timer, k), settle)
        BY <2>3 DEF ScreenDue
      <3>2. Outcome(k, out[k].posted, out[k].announced, FALSE)
        BY <2>0, <3>1, FireOutcome, TimersTyped
      <3> QED
        BY <1>1, <3>2, PostRings
    <2>4. ASSUME NEW k \in AgentKeys, EndTurn(k) PROVE topic'.rung # topic.rung
      <3>1. CASE FireScreen(k, FALSE, TRUE, timer, TakenOff(settle, k))
        <4>1. Outcome(k, out[k].posted, out[k].announced, FALSE)
          BY <2>0, <3>1, FireOutcome, TimersTyped
        <4> QED
          BY <1>1, <4>1, PostRings
      <3>2. CASE UNCHANGED topic
        BY <1>1, <3>2
      <3> QED
        BY <2>4, <3>1, <3>2 DEF EndTurn
    <2>5. CASE Operator
      BY <1>1, <2>5 DEF Operator, Prompt, PressLate, Press, Text, SetsSync, SetsHush, Switches
    <2>6. CASE Agent \/ RegistryNotice \/ (\E k \in AgentKeys : TimerFires(k)) \/ UNCHANGED vars
      BY <1>1, <2>6 DEF Agent, Works, AsksQuestion, Finishes, Looked, Flaps, Repeats, Exits, Rekeys, RegistryNotice, TimerFires, vars
    <2> QED
      BY <1>1, <2>1, <2>2, <2>3, <2>4, <2>5, <2>6 DEF Next, Bridge
  <1>2. RingInv /\ [Next]_vars =>
          [~Has("returns") /\ ~Moving /\ topic.rung # None /\ topic'.msgs # topic.msgs => topic'.rung # topic.rung]_vars
    BY <1>1
  <1> QED
    BY <1>2, RepliesInvariant, PTL DEF Spec, RingsOnce
=============================================================================
