------------------------ MODULE LogVoleSessionProofs ------------------------
(***************************************************************************)
(* Session ids and sizes of LogVoleSession, for every plan, number of      *)
(* repetitions and set of faults, "badX" included.                         *)
(*                                                                         *)
(* An offline phase names its instance by a fork nobody used before, and   *)
(* starts with no id spent; SenderOk and ReceiverOk say what that gives    *)
(* each object, Named what it gives the messages.  Each operator of        *)
(* LogVoleSession that makes the next object is one of a few changes:      *)
(* Rests (only the application's place moves), Forgets (the instance is    *)
(* dropped), Starts (an online call), an offline phase.                    *)
(***************************************************************************)
EXTENDS LogVoleSession, TLAPS

Fields ==
  {"st", "n", "next", "off", "used", "active", "int", "rel", "forks", "pc", "sid", "got", "at", "tries"}

\* What both objects have at all times.
IsObject(p) == DOMAIN p = Fields /\ p.forks \in Nat

\* toR: the messages of an offline phase are in consecutive forks.
IsMeta(msgs, k) == k \in DOMAIN msgs /\ "n" \in DOMAIN msgs[k]
Named(msgs) ==
  \A k \in DOMAIN msgs :
    /\ k \in Nat
    /\ "inst" \in DOMAIN msgs[k] => msgs[k].inst = k - 1 /\ IsMeta(msgs, k - 1)

\* The instance an object holds has the object's size.
Sized(p, msgs) == p.off # None => IsMeta(msgs, p.off) /\ msgs[p.off].n = p.n

\* The ids an instance ran under are spent.
Spent(p, runs) == \A k \in DOMAIN runs : runs[k].inst = p.off => runs[k].sid \in p.used

\* The sender's instances are named by forks it has left behind.
SenderOk(p, runs, msgs) ==
  /\ IsObject(p) /\ p.pc \in {"idle", "digest"}
  /\ p.off # None => p.off \in 0 .. (p.forks - 1)
  /\ \A k \in DOMAIN runs : runs[k].inst \in 0 .. (p.forks - 1)
  /\ Spent(p, runs) /\ RunsFresh(runs)
  /\ p.pc = "digest" => p.off # None /\ p.sid \notin p.used
  /\ \A k \in DOMAIN msgs : k < p.forks /\ (p.pc = "digest" => k < p.forks - 1)
  /\ Sized(p, msgs)

\* The receiver's were read from forks before the one it is at.
Behind(i, forks) == i \in Nat /\ i + 2 <= forks
ReceiverHolds(p, runs, msgs) ==
  /\ IsObject(p)
  /\ p.off # None => Behind(p.off, p.forks)
  /\ \A k \in DOMAIN runs : Behind(runs[k].inst, p.forks)
  /\ Spent(p, runs) /\ RunsFresh(runs)
  /\ Sized(p, msgs)
\* Inside an offline phase: it read one more fork, whose count it holds.
ReceiverOk(p, runs, msgs) ==
  /\ ReceiverHolds(p, runs, msgs)
  /\ p.pc \in {"idle", "meta", "ring", "response"}
  /\ p.pc = "ring" =>
       /\ \A k \in DOMAIN runs : Behind(runs[k].inst, p.forks - 1)
       /\ p.forks - 2 \in DOMAIN msgs
       /\ IsMeta(msgs, p.forks - 2) => p.got = msgs[p.forks - 2].n

IInv ==
  /\ SenderOk(S, outS, toR)
  /\ ReceiverOk(R, toS, toR)
  /\ Named(toR)

-----------------------------------------------------------------------------
(* What the operators do to an object.                                     *)

\* p to q: the object keeps its instance, its size and its forks and is idle
\* again, in LogVoleSession's words the call was made or threw.
Keeps(p, q) ==
  IsObject(q) /\ q.off = p.off /\ q.used = p.used /\ q.n = p.n
Same(p, q) == Keeps(p, q) /\ q.forks = p.forks
Rests(p, q) == Same(p, q) /\ q.pc = "idle"
Forgets(p, q) == IsObject(q) /\ q.forks = p.forks /\ q.off = None /\ q.pc = "idle"
\* A new instance, named by the next fork, with no id spent.
Renews(p, q) ==
  /\ IsObject(q) /\ q.forks = p.forks + 2 /\ q.off = p.forks /\ q.n = p.n
  /\ q.used = {} /\ q.pc = p.pc
Starts(p, q) ==
  /\ Keeps(p, q) /\ q.forks = p.forks + 1 /\ q.pc = "digest"
  /\ p.off # None /\ q.sid \notin p.used

\* The application's own steps leave the object's instance alone.
LEMMA Application ==
  ASSUME NEW p, IsObject(p)
  PROVE  Rests(p, Threw(p)) /\ Rests(p, Done(p))
<1>1. Rests(p, Done(p))
  BY DEF IsObject, Fields, Rests, Same, Keeps, Done
<1>2. Rests(p, [p EXCEPT !.tries = @ + 1, !.pc = "idle"])
  BY DEF IsObject, Fields, Rests, Same, Keeps
<1> QED
  BY <1>1, <1>2 DEF Threw

\* configure and clear drop the instance.
LEMMA Setting ==
  ASSUME NEW p, NEW n, IsObject(p), p.pc = "idle"
  PROVE  /\ Forgets(p, Configured(p, n)) /\ Configured(p, n).n = n
         /\ Forgets(p, Done(Configured(p, n)))
         /\ Forgets(p, Done(Cleared(p)))
BY DEF IsObject, Fields, Forgets, Done, Configured, Cleared, Fresh

\* Taking an id out of the counter is not seen by the invariant.
LEMMA Taking ==
  ASSUME NEW p, IsObject(p)
  PROVE  Same(p, [p EXCEPT !.next = @ + 1]) /\ [p EXCEPT !.next = @ + 1].pc = p.pc
BY DEF IsObject, Fields, Same, Keeps

\* Nothing is seen of a change that keeps all but the counters before another one.
LEMMA SameFirst ==
  ASSUME NEW p, NEW q, NEW w, Same(p, q)
  PROVE  /\ Same(q, w) => Same(p, w)
         /\ Rests(q, w) => Rests(p, w)
         /\ Starts(q, w) => Starts(p, w)
BY DEF Rests, Same, Starts, Keeps, IsObject

\* The preparation of an id does not touch the instance.
LEMMA Preparing ==
  ASSUME NEW p, NEW sid, IsObject(p)
  PROVE  Same(p, Prepared(p, sid))
<1>1. Same(p, [p EXCEPT !.active = sid, !.rel = FALSE, !.int = FALSE])
  BY DEF IsObject, Fields, Same, Keeps
<1>2. Same(p, p)
  BY DEF Same, Keeps
<1> QED
  BY <1>1, <1>2 DEF Prepared

\* An online call of the sender is refused or starts under an id not spent.
LEMMA Releasing ==
  ASSUME NEW p, NEW sid, IsObject(p)
  PROVE  Rests(p, Release(p, sid)) \/ Starts(p, Release(p, sid))
<1> DEFINE q == Prepared(p, sid)
<1>1. Same(p, q) /\ IsObject(q)
  BY Preparing DEF Same, Keeps
<1>2. Rests(p, Threw(p)) /\ Rests(p, Threw(q))
  BY <1>1, Application, SameFirst
<1>3. Rests(p, Threw([q EXCEPT !.int = TRUE]))
  <2> HIDE DEF q
  <2>1. Same(q, [q EXCEPT !.int = TRUE])
    BY <1>1 DEF IsObject, Fields, Same, Keeps
  <2>2. Rests([q EXCEPT !.int = TRUE], Threw([q EXCEPT !.int = TRUE]))
    BY <2>1, Application DEF Same, Keeps
  <2> QED
    BY <1>1, <2>1, <2>2, SameFirst
<1>4. ASSUME ~ SidRefused(p, sid), p.off # None
      PROVE  Starts(p, [q EXCEPT !.int = TRUE, !.pc = "digest", !.sid = sid, !.forks = @ + 1])
  <2>1. sid \notin p.used
    BY <1>4 DEF SidRefused
  <2> HIDE DEF q
  <2> QED
    BY <1>1, <1>4, <2>1 DEF IsObject, Fields, Same, Starts, Keeps
<1> QED
  BY <1>2, <1>3, <1>4 DEF Release

\* So it is with a counted id.
LEMMA NextReleasing ==
  ASSUME NEW p, IsObject(p)
  PROVE  Rests(p, NextRelease(p)) \/ Starts(p, NextRelease(p))
<1> DEFINE q == [p EXCEPT !.next = @ + 1]
<1>1. Same(p, q) /\ IsObject(q)
  BY Taking DEF Same, Keeps
<1>2. NextRelease(p) = Release(q, p.next)
  BY DEF NextRelease
<1> HIDE DEF q
<1> QED
  BY <1>1, <1>2, Releasing, SameFirst

\* An offline phase of the sender starts a new instance.
LEMMA Renewing ==
  ASSUME NEW p, IsObject(p)
  PROVE  Renews(p, Offlined(p))
<1> DEFINE q == Fresh(p)
<1>1. IsObject(q) /\ q.forks = p.forks /\ q.n = p.n /\ q.used = {} /\ q.pc = p.pc
  BY DEF IsObject, Fields, Fresh
<1>2. Offlined(p) = [q EXCEPT !.st = "offline", !.off = p.forks, !.forks = @ + 2]
  BY DEF Offlined
<1> HIDE DEF q
<1> QED
  BY <1>1, <1>2 DEF IsObject, Fields, Renews

-----------------------------------------------------------------------------
(* What each change keeps of the invariant.                                *)

\* The sender's application, between its calls.
LEMMA SenderRests ==
  ASSUME NEW p, NEW q, NEW runs, NEW msgs, SenderOk(p, runs, msgs),
         Rests(p, q) \/ Forgets(p, q)
  PROVE  SenderOk(q, runs, msgs)
<1>1. CASE Rests(p, q)
  BY <1>1 DEF SenderOk, Rests, Same, Keeps, Spent, Sized
<1>2. CASE Forgets(p, q)
  <2>1. \A k \in DOMAIN runs : runs[k].inst # q.off
    BY <1>2 DEF SenderOk, Forgets, None
  <2> QED
    BY <1>2, <2>1 DEF SenderOk, Forgets, Spent, Sized
<1> QED
  BY <1>1, <1>2

\* The sender waits for a digest: its fork is empty, its id not yet spent.
LEMMA SenderStarts ==
  ASSUME NEW p, NEW q, NEW runs, NEW msgs, SenderOk(p, runs, msgs), Named(msgs), Starts(p, q)
  PROVE  SenderOk(q, runs, msgs)
<1>1. /\ p.forks \in Nat /\ q.forks = p.forks + 1 /\ q.off = p.off /\ q.pc = "digest"
      /\ q.used = p.used /\ q.n = p.n /\ IsObject(q) /\ p.off # None /\ q.sid \notin p.used
  BY DEF SenderOk, IsObject, Starts, Keeps
<1>2. q.off \in 0 .. (q.forks - 1)
  BY <1>1 DEF SenderOk
<1>3. \A k \in DOMAIN runs : runs[k].inst \in 0 .. (q.forks - 1)
  BY <1>1 DEF SenderOk
<1>4. \A k \in DOMAIN msgs : k < q.forks /\ k < q.forks - 1
  BY <1>1 DEF SenderOk, Named
<1>5. Spent(q, runs) /\ RunsFresh(runs) /\ Sized(q, msgs)
  BY <1>1 DEF SenderOk, Spent, Sized
<1> QED
  BY <1>1, <1>2, <1>3, <1>4, <1>5 DEF SenderOk

\* What an offline phase sends is named as the receiver will read it.
LEMMA OfflineSends ==
  ASSUME NEW p, NEW n, SenderOk(p, outS, toR), p.pc = "idle", Named(toR)
  PROVE  /\ Named(OfflineMessages(p))
         /\ \A k \in DOMAIN toR : k \in DOMAIN OfflineMessages(p) /\ OfflineMessages(p)[k] = toR[k]
         /\ \A k \in DOMAIN OfflineMessages(p) : k < p.forks + 2
         /\ IsMeta(OfflineMessages(p), p.forks) /\ OfflineMessages(p)[p.forks].n = p.n
<1> DEFINE meta == With(toR, p.forks, [n |-> p.n])
           all == With(meta, p.forks + 1, [inst |-> p.forks])
<1>1. /\ p.forks \in Nat /\ p.forks \notin DOMAIN toR /\ p.forks + 1 \notin DOMAIN toR
      /\ \A k \in DOMAIN toR : k \in Nat /\ k < p.forks
  BY DEF SenderOk, IsObject, Named
<1>2. /\ DOMAIN meta = DOMAIN toR \union {p.forks} /\ meta[p.forks] = [n |-> p.n]
      /\ \A k \in DOMAIN toR : meta[k] = toR[k]
  BY <1>1 DEF With
<1>3. /\ DOMAIN all = DOMAIN meta \union {p.forks + 1}
      /\ all[p.forks + 1] = [inst |-> p.forks]
      /\ \A k \in DOMAIN meta : k # p.forks + 1 => all[k] = meta[k]
  <2> HIDE DEF meta
  <2> QED
    BY DEF With
<1>4. OfflineMessages(p) = all
  BY DEF OfflineMessages
<1> HIDE DEF meta, all
<1>5. /\ DOMAIN all = DOMAIN toR \union {p.forks, p.forks + 1}
      /\ all[p.forks] = [n |-> p.n] /\ all[p.forks + 1] = [inst |-> p.forks]
      /\ \A k \in DOMAIN toR : all[k] = toR[k]
  BY <1>1, <1>2, <1>3
<1>6. IsMeta(all, p.forks) /\ all[p.forks].n = p.n
  BY <1>5 DEF IsMeta
<1>7. \A k \in DOMAIN all : k \in Nat /\ k < p.forks + 2
  BY <1>1, <1>5
<1>8. Named(all)
  <2>1. ASSUME NEW k \in DOMAIN all, "inst" \in DOMAIN all[k]
        PROVE  all[k].inst = k - 1 /\ IsMeta(all, k - 1)
    <3>1. CASE k \in DOMAIN toR
      <4>1. toR[k].inst = k - 1 /\ IsMeta(toR, k - 1)
        BY <2>1, <3>1, <1>5 DEF Named
      <4> QED
        BY <4>1, <3>1, <1>5 DEF IsMeta
    <3>2. CASE k = p.forks
      BY <2>1, <3>2, <1>5
    <3>3. CASE k = p.forks + 1
      <4>1. all[k].inst = p.forks /\ k - 1 = p.forks
        BY <3>3, <1>1, <1>5
      <4> QED
        BY <4>1, <1>6
    <3> QED
      BY <1>5, <3>1, <3>2, <3>3
  <2> QED
    BY <2>1, <1>7 DEF Named
<1> QED
  BY <1>4, <1>5, <1>6, <1>7, <1>8

\* The sender after an offline phase.
LEMMA SenderRenews ==
  ASSUME NEW p, NEW q, SenderOk(p, outS, toR), p.pc = "idle", Named(toR), Renews(p, q)
  PROVE  SenderOk(q, outS, OfflineMessages(p))
<1>1. /\ p.forks \in Nat /\ q.forks = p.forks + 2 /\ q.off = p.forks /\ q.pc = "idle"
      /\ q.used = {} /\ q.n = p.n /\ IsObject(q)
  BY DEF SenderOk, IsObject, Renews
<1>2. \A k \in DOMAIN outS : outS[k].inst \in 0 .. (q.forks - 1) /\ outS[k].inst # q.off
  BY <1>1 DEF SenderOk
<1>3. Spent(q, outS) /\ RunsFresh(outS)
  BY <1>2 DEF Spent, SenderOk
<1>4. q.off \in 0 .. (q.forks - 1) /\ \A k \in DOMAIN OfflineMessages(p) : k < q.forks
  BY <1>1, OfflineSends
<1>5. Sized(q, OfflineMessages(p))
  BY <1>1, OfflineSends DEF Sized
<1> QED
  BY <1>1, <1>2, <1>3, <1>4, <1>5 DEF SenderOk

\* The receiver does not see messages added to toR.
LEMMA ReceiverWaits ==
  ASSUME NEW p, NEW runs, NEW msgs, NEW more, ReceiverOk(p, runs, msgs),
         \A k \in DOMAIN msgs : k \in DOMAIN more /\ more[k] = msgs[k]
  PROVE  ReceiverOk(p, runs, more)
BY DEF ReceiverOk, ReceiverHolds, Sized, IsMeta

-----------------------------------------------------------------------------
(* The steps of the sender.                                                *)

\* A step of the sender keeps its part, and only adds messages.
Grown(msgs, more) == \A k \in DOMAIN msgs : k \in DOMAIN more /\ more[k] = msgs[k]
SenderAdvances ==
  SenderOk(S', outS', toR') /\ Named(toR') /\ Grown(toR, toR')

\* Calls that send nothing.
LEMMA SenderQuiet ==
  ASSUME IInv, toR' = toR, outS' = outS,
         Rests(S, S') \/ Forgets(S, S') \/ Starts(S, S')
  PROVE  SenderAdvances
BY SenderRests, SenderStarts DEF IInv, SenderAdvances, Grown

\* offline, and send with the offline phase in it.
LEMMA SenderSendsOffline ==
  ASSUME NEW p, SenderOk(p, outS, toR), p.pc = "idle", Named(toR),
         toR' = OfflineMessages(p), outS' = outS,
         Rests(Offlined(p), S') \/ Starts(Offlined(p), S')
  PROVE  SenderAdvances
<1>1. IsObject(p)
  BY DEF SenderOk
<1>2. SenderOk(Offlined(p), outS, OfflineMessages(p))
  BY <1>1, Renewing, SenderRenews
<1>3. Named(OfflineMessages(p)) /\ Grown(toR, OfflineMessages(p))
  BY OfflineSends DEF Grown
<1>4. SenderOk(S', outS, OfflineMessages(p))
  BY <1>2, <1>3, SenderRests, SenderStarts
<1> QED
  BY <1>3, <1>4 DEF SenderAdvances

\* The digest is answered in the fork the sender waits at, under an id it has
\* not spent; now it has.
LEMMA SenderAnswers ==
  ASSUME IInv, SenderRespond
  PROVE  SenderAdvances
<1> DEFINE slot == S.forks - 1
<1>1. /\ IsObject(S) /\ S.forks \in Nat /\ S.pc = "digest" /\ S.off # None
      /\ S.off \in 0 .. (S.forks - 1) /\ S.sid \notin S.used
      /\ slot \in Nat /\ slot \notin DOMAIN toR
      /\ \A k \in DOMAIN toR : k \in Nat /\ k < slot
  BY DEF IInv, SenderRespond, SenderOk, IsObject, Named
<1>2. CASE S' = Threw(S) /\ toR' = toR /\ outS' = outS
  BY <1>1, <1>2, Application, SenderQuiet
<1>3. CASE /\ S' = Done([S EXCEPT !.used = @ \union {S.sid}, !.rel = TRUE])
           /\ toR' = With(toR, slot, [response |-> S.sid])
           /\ outS' = With(outS, slot, [inst |-> S.off, sid |-> S.sid])
  <2> DEFINE run == [inst |-> S.off, sid |-> S.sid]
  <2>1. /\ IsObject(S') /\ S'.forks = S.forks /\ S'.off = S.off /\ S'.n = S.n
        /\ S'.used = S.used \union {S.sid} /\ S'.pc = "idle"
    <3> DEFINE q == [S EXCEPT !.used = @ \union {S.sid}, !.rel = TRUE]
    <3>1. /\ IsObject(q) /\ q.forks = S.forks /\ q.off = S.off /\ q.n = S.n
          /\ q.used = S.used \union {S.sid}
      BY <1>1 DEF IsObject, Fields
    <3>2. S' = Done(q)
      BY <1>3
    <3> HIDE DEF q
    <3> QED
      BY <3>1, <3>2, Application DEF Rests, Same, Keeps
  <2>2. /\ DOMAIN outS' = DOMAIN outS \union {slot} /\ outS'[slot] = run
        /\ \A k \in DOMAIN outS : k # slot => outS'[k] = outS[k]
    BY <1>3 DEF With
  <2>3. run.inst = S.off /\ run.sid = S.sid
    OBVIOUS
  <2>4. /\ DOMAIN toR' = DOMAIN toR \union {slot}
        /\ DOMAIN toR'[slot] = {"response"}
        /\ \A k \in DOMAIN toR : toR'[k] = toR[k]
    BY <1>1, <1>3 DEF With
  <2>5. Grown(toR, toR')
    BY <2>4 DEF Grown
  <2>6. Named(toR')
    <3>1. ASSUME NEW k \in DOMAIN toR', "inst" \in DOMAIN toR'[k]
          PROVE  toR'[k].inst = k - 1 /\ IsMeta(toR', k - 1)
      <4>1. k \in DOMAIN toR /\ toR'[k] = toR[k]
        BY <2>4, <3>1
      <4>2. toR[k].inst = k - 1 /\ IsMeta(toR, k - 1)
        BY <4>1, <3>1 DEF IInv, Named
      <4> QED
        BY <4>1, <4>2, <2>4 DEF IsMeta
    <3>2. \A k \in DOMAIN toR' : k \in Nat
      BY <1>1, <2>4
    <3> QED
      BY <3>1, <3>2 DEF Named
  <2> HIDE DEF run
  <2>7. \A k \in DOMAIN outS : outS[k].inst = S.off => outS[k].sid \in S.used
    BY DEF IInv, SenderOk, Spent
  <2>8. Spent(S', outS')
    BY <2>1, <2>2, <2>3, <2>7 DEF Spent
  <2>9. RunsFresh(outS')
    <3>1. RunsFresh(outS)
      BY DEF IInv, SenderOk
    <3>2. ASSUME NEW j \in DOMAIN outS, NEW k \in DOMAIN outS', j # slot,
                 outS'[j].inst = outS'[k].inst, outS'[j].sid = outS'[k].sid
          PROVE  j = k
      <4>1. CASE k = slot
        BY <4>1, <3>2, <2>2, <2>3, <2>7, <1>1
      <4>2. CASE k # slot
        BY <4>2, <3>1, <3>2, <2>2 DEF RunsFresh
      <4> QED
        BY <4>1, <4>2
    <3>3. ASSUME NEW j \in DOMAIN outS', NEW k \in DOMAIN outS',
                 outS'[j].inst = outS'[k].inst, outS'[j].sid = outS'[k].sid
          PROVE  j = k
      BY <3>2, <3>3, <2>2
    <3> QED
      BY <3>3 DEF RunsFresh
  <2>10. \A k \in DOMAIN outS' : outS'[k].inst \in 0 .. (S'.forks - 1)
    BY <1>1, <2>1, <2>2, <2>3 DEF IInv, SenderOk
  <2>11. \A k \in DOMAIN toR' : k < S'.forks
    BY <1>1, <2>1, <2>4
  <2>12. Sized(S', toR')
    BY <1>1, <2>1, <2>4 DEF IInv, SenderOk, Sized, IsMeta
  <2>13. S'.off \in 0 .. (S'.forks - 1)
    BY <1>1, <2>1
  <2> QED
    BY <2>1, <2>5, <2>6, <2>8, <2>9, <2>10, <2>11, <2>12, <2>13 DEF SenderOk, SenderAdvances
<1> QED
  BY <1>2, <1>3 DEF SenderRespond

\* Every step of the sender.
LEMMA SenderKeeps ==
  ASSUME IInv, SenderStep
  PROVE  IInv'
<1>1. IsObject(S) /\ SenderOk(S, outS, toR) /\ Named(toR)
  BY DEF IInv, SenderOk
<1>2. SenderAdvances
  <2>1. CASE SenderConfigure
    BY <1>1, <2>1, Setting, SenderQuiet DEF SenderConfigure, Idle
  <2>2. CASE SenderClear
    BY <1>1, <2>2, Setting, SenderQuiet DEF SenderClear, Idle
  <2>3. CASE SenderSid
    BY <1>1, <2>3, Releasing, SenderQuiet DEF SenderSid
  <2>4. CASE SenderReleaseK
    <3> DEFINE sid == Op(S)[2]
               q == Prepared(S, sid)
    <3>1. Same(S, q) /\ IsObject(q) /\ Same(S, S)
      BY <1>1, Preparing DEF Same, Keeps
    <3>2. S' = Done(S) \/ S' = Done(q)
      BY <2>4 DEF SenderReleaseK
    <3> HIDE DEF q
    <3>3. Rests(S, S')
      BY <1>1, <3>1, <3>2, Application, SameFirst
    <3> QED
      BY <2>4, <3>3, SenderQuiet DEF SenderReleaseK
  <2>5. CASE SenderOffline
    <3>1. S.pc = "idle" /\ outS' = outS
      BY <2>5 DEF SenderOffline, Idle
    <3>2. CASE S' = Threw(S) /\ toR' = toR
      BY <1>1, <3>1, <3>2, Application, SenderQuiet
    <3>3. CASE S' = Done(Offlined(S)) /\ toR' = OfflineMessages(S)
      <4>1. Rests(Offlined(S), S')
        BY <1>1, <3>3, Renewing, Application DEF Renews
      <4> QED
        BY <1>1, <3>1, <3>3, <4>1, SenderSendsOffline
    <3> QED
      BY <2>5, <3>2, <3>3 DEF SenderOffline
  <2>6. CASE SenderSend
    <3> DEFINE n == Op(S)[2]
               conf == IF S.st = "default" THEN Configured(S, n) ELSE S
    <3>1. S.pc = "idle" /\ outS' = outS
      BY <2>6 DEF SenderSend, Idle
    <3>2. SenderOk(conf, outS, toR) /\ conf.pc = "idle" /\ IsObject(conf) /\ conf.forks = S.forks
      <4>1. Forgets(S, Configured(S, n))
        BY <1>1, <3>1, Setting
      <4>2. SenderOk(Configured(S, n), outS, toR)
        BY <1>1, <4>1, SenderRests
      <4> QED
        BY <1>1, <3>1, <4>1, <4>2 DEF Forgets
    <3>3. \/ S' = Threw(conf) /\ toR' = toR
          \/ S' = NextRelease(conf) /\ toR' = toR
          \/ S' = NextRelease(Offlined(conf)) /\ toR' = OfflineMessages(conf)
      BY <2>6 DEF SenderSend
    <3> HIDE DEF conf
    <3>4. CASE toR' = toR /\ (S' = Threw(conf) \/ S' = NextRelease(conf))
      <4>1. Rests(conf, S') \/ Starts(conf, S')
        BY <3>2, <3>4, Application, NextReleasing
      <4>2. SenderOk(S', outS, toR)
        BY <1>1, <3>2, <4>1, SenderRests, SenderStarts
      <4> QED
        BY <1>1, <3>1, <3>4, <4>2 DEF SenderAdvances, Grown
    <3>5. CASE S' = NextRelease(Offlined(conf)) /\ toR' = OfflineMessages(conf)
      <4>1. Rests(Offlined(conf), S') \/ Starts(Offlined(conf), S')
        BY <3>2, <3>5, Renewing, NextReleasing DEF Renews
      <4> QED
        BY <1>1, <3>1, <3>2, <3>5, <4>1, SenderSendsOffline
    <3> QED
      BY <3>3, <3>4, <3>5
  <2>7. CASE SenderRespond
    BY <2>7, SenderAnswers
  <2> QED
    BY <2>1, <2>2, <2>3, <2>4, <2>5, <2>6, <2>7 DEF SenderStep
<1>3. R' = R /\ toS' = toS
  BY DEF SenderStep, SenderConfigure, SenderClear, SenderSid, SenderReleaseK, SenderOffline,
         SenderSend, SenderRespond
<1>4. ReceiverOk(R, toS, toR')
  BY <1>2, ReceiverWaits DEF IInv, SenderAdvances, Grown
<1> QED
  BY <1>2, <1>3, <1>4 DEF IInv, SenderAdvances

-----------------------------------------------------------------------------
(* The steps of the receiver.                                              *)

\* The receiver's application, and a counter advanced.
LEMMA ReceiverRests ==
  ASSUME NEW p, NEW q, ReceiverHolds(p, toS, toR), Same(p, q) \/ Forgets(p, q)
  PROVE  /\ ReceiverHolds(q, toS, toR)
         /\ q.pc = "idle" => ReceiverOk(q, toS, toR)
<1>1. CASE Same(p, q)
  BY <1>1 DEF ReceiverHolds, ReceiverOk, Same, Keeps, Spent, Sized
<1>2. CASE Forgets(p, q)
  <2>1. \A k \in DOMAIN toS : toS[k].inst # q.off
    BY <1>2 DEF ReceiverHolds, Forgets, None, Behind
  <2> QED
    BY <1>2, <2>1 DEF ReceiverHolds, ReceiverOk, Forgets, Spent, Sized
<1> QED
  BY <1>1, <1>2

\* A digest goes out only under an id that was not spent, and then is.
LEMMA ReceiverDigests ==
  ASSUME NEW p, NEW sid, ReceiverHolds(p, toS, toR)
  PROVE  ReceiverOk(SetX(p, sid), Digest(SetX(p, sid)), toR)
<1> DEFINE q == SetX(p, sid)
           slot == q.forks - 1
           run == [inst |-> q.off, sid |-> q.sid]
<1>1. IsObject(p) /\ p.forks \in Nat
  BY DEF ReceiverHolds, IsObject
<1>2. CASE p.off = None \/ sid \in p.used
  <2>1. q = Threw(p)
    BY <1>2 DEF SetX
  <2> HIDE DEF q
  <2>2. Same(p, q) /\ q.pc = "idle"
    BY <1>1, <2>1, Application DEF Rests
  <2>3. Digest(q) = toS
    BY <2>2 DEF Digest
  <2> QED
    BY <2>2, <2>3, ReceiverRests DEF q
<1>3. CASE ~ (p.off = None \/ sid \in p.used)
  <2>1. q = [p EXCEPT !.used = @ \union {sid}, !.pc = "response", !.sid = sid, !.forks = @ + 1]
    BY <1>3 DEF SetX
  <2> HIDE DEF q
  <2>2. /\ IsObject(q) /\ q.forks = p.forks + 1 /\ q.off = p.off /\ q.n = p.n
        /\ q.used = p.used \union {sid} /\ q.pc = "response" /\ q.sid = sid
    BY <1>1, <2>1 DEF IsObject, Fields
  <2>3. Digest(q) = With(toS, slot, run)
    BY <2>2 DEF Digest
  <2>4. run.inst = p.off /\ run.sid = sid
    BY <2>2
  <2> DEFINE all == With(toS, slot, run)
  <2>5. /\ DOMAIN all = DOMAIN toS \union {slot} /\ all[slot] = run
        /\ \A k \in DOMAIN toS : k # slot => all[k] = toS[k]
    BY DEF With
  <2> HIDE DEF all, run, slot
  <2>6. /\ Behind(p.off, p.forks) /\ sid \notin p.used
        /\ \A k \in DOMAIN toS : Behind(toS[k].inst, p.forks)
        /\ \A k \in DOMAIN toS : toS[k].inst = p.off => toS[k].sid \in p.used
    BY <1>3 DEF ReceiverHolds, Spent
  <2>7. \A i : Behind(i, p.forks) => Behind(i, q.forks)
    BY <1>1, <2>2 DEF Behind
  <2>8. \A k \in DOMAIN all : Behind(all[k].inst, q.forks)
    BY <2>4, <2>5, <2>6, <2>7
  <2>9. Spent(q, all)
    BY <2>2, <2>4, <2>5, <2>6 DEF Spent
  <2>10. RunsFresh(all)
    <3>1. RunsFresh(toS)
      BY DEF ReceiverHolds
    <3>2. ASSUME NEW j \in DOMAIN toS, NEW k \in DOMAIN all, j # slot,
                 all[j].inst = all[k].inst, all[j].sid = all[k].sid
          PROVE  j = k
      <4>1. CASE k = slot
        BY <4>1, <3>2, <2>4, <2>5, <2>6
      <4>2. CASE k # slot
        BY <4>2, <3>1, <3>2, <2>5 DEF RunsFresh
      <4> QED
        BY <4>1, <4>2
    <3>3. ASSUME NEW j \in DOMAIN all, NEW k \in DOMAIN all,
                 all[j].inst = all[k].inst, all[j].sid = all[k].sid
          PROVE  j = k
      BY <3>2, <3>3, <2>5
    <3> QED
      BY <3>3 DEF RunsFresh
  <2>11. Sized(q, toR)
    BY <2>2 DEF ReceiverHolds, Sized
  <2>12. ReceiverOk(q, all, toR)
    BY <2>2, <2>6, <2>7, <2>8, <2>9, <2>10, <2>11 DEF ReceiverOk, ReceiverHolds
  <2> QED
    BY <2>3, <2>12 DEF q, all
<1> QED
  BY <1>2, <1>3

\* The online part of receive, its id taken from the counter.
LEMMA ReceiverOnline ==
  ASSUME NEW p, ReceiverHolds(p, toS, toR), Online(p)
  PROVE  ReceiverOk(R', toS', toR)
<1> DEFINE q == [p EXCEPT !.next = @ + 1]
<1>1. IsObject(p)
  BY DEF ReceiverHolds
<1>2. ReceiverHolds(q, toS, toR)
  BY <1>1, Taking, ReceiverRests
<1>3. \/ R' = Threw(q) /\ toS' = toS
      \/ R' = SetX(q, p.next) /\ toS' = Digest(R')
  BY DEF Online
<1> HIDE DEF q
<1>4. CASE R' = Threw(q) /\ toS' = toS
  <2>1. Same(q, Threw(q)) /\ Threw(q).pc = "idle"
    BY <1>2, Application DEF Rests, ReceiverHolds
  <2> QED
    BY <1>2, <1>4, <2>1, ReceiverRests
<1>5. CASE R' = SetX(q, p.next) /\ toS' = Digest(R')
  BY <1>2, <1>5, ReceiverDigests
<1> QED
  BY <1>3, <1>4, <1>5

\* The wait for the next offline message.
LEMMA ReceiverWaitsForMeta ==
  ASSUME NEW p, ReceiverHolds(p, toS, toR)
  PROVE  ReceiverOk(WaitForMeta(p), toS, toR)
<1> DEFINE q == WaitForMeta(p)
<1>1. Keeps(p, q) /\ p.forks \in Nat /\ q.forks = p.forks + 1 /\ q.pc = "meta"
  BY DEF ReceiverHolds, IsObject, Fields, Keeps, WaitForMeta
<1> HIDE DEF q
<1>2. \A i : Behind(i, p.forks) => Behind(i, q.forks)
  BY <1>1 DEF Behind
<1>3. ReceiverOk(q, toS, toR)
  BY <1>1, <1>2 DEF ReceiverHolds, ReceiverOk, Keeps, Spent, Sized
<1> QED
  BY <1>3 DEF q

\* The count is read, and with it one more fork is behind.
LEMMA ReceiverReadsMeta ==
  ASSUME IInv, ReceiverMeta
  PROVE  ReceiverOk(R', toS, toR)
<1> DEFINE slot == R.forks - 1
           got == IF "n" \in DOMAIN toR[slot] THEN toR[slot].n ELSE None
<1>1. /\ ReceiverHolds(R, toS, toR) /\ IsObject(R) /\ R.forks \in Nat /\ slot \in DOMAIN toR
      /\ R' = [R EXCEPT !.pc = "ring", !.forks = @ + 1, !.got = got]
  BY DEF IInv, ReceiverOk, ReceiverHolds, IsObject, ReceiverMeta
<1>2. IsMeta(toR, slot) => got = toR[slot].n
  BY DEF IsMeta
<1> HIDE DEF got
<1>3. Keeps(R, R') /\ R'.forks = R.forks + 1 /\ R'.pc = "ring" /\ R'.got = got
  BY <1>1 DEF IsObject, Fields, Keeps
<1>4. R'.forks - 2 = slot /\ R'.forks - 1 = R.forks
  BY <1>1, <1>3
<1>5. \A i : Behind(i, R.forks) => Behind(i, R'.forks)
  BY <1>1, <1>3 DEF Behind
<1> HIDE DEF slot
<1> QED
  BY <1>1, <1>2, <1>3, <1>4, <1>5 DEF ReceiverHolds, ReceiverOk, Keeps, Spent, Sized

\* The ring messages are read: the instance is new to the receiver, and has the
\* size its object has.
LEMMA ReceiverReadsRing ==
  ASSUME IInv, ReceiverRing
  PROVE  ReceiverOk(R', toS', toR)
<1> DEFINE slot == R.forks - 1
           fresh == Fresh(R)
           ready == [fresh EXCEPT !.st = "offline", !.off = toR[slot].inst]
<1>1. /\ ReceiverOk(R, toS, toR) /\ ReceiverHolds(R, toS, toR) /\ IsObject(R) /\ R.forks \in Nat
      /\ R.pc = "ring" /\ slot \in DOMAIN toR /\ "inst" \in DOMAIN toR[slot]
  BY DEF IInv, ReceiverOk, ReceiverHolds, IsObject, ReceiverRing
<1>2. /\ slot \in Nat /\ toR[slot].inst = slot - 1 /\ slot - 1 = R.forks - 2
      /\ IsMeta(toR, R.forks - 2) /\ R.forks - 2 \in Nat
  BY <1>1 DEF IInv, Named, IsMeta
<1>3. R.got = toR[R.forks - 2].n
  BY <1>1, <1>2 DEF ReceiverOk
<1>4. /\ IsObject(fresh) /\ fresh.forks = R.forks /\ fresh.n = R.n /\ fresh.used = {}
  BY <1>1 DEF IsObject, Fields, Fresh
<1>5. /\ IsObject(ready) /\ ready.forks = R.forks /\ ready.n = R.n /\ ready.used = {}
      /\ ready.off = R.forks - 2
  <2> HIDE DEF fresh, slot
  <2> QED
    BY <1>2, <1>4 DEF IsObject, Fields
<1>6. ASSUME SizeAgrees
      PROVE  ReceiverHolds(ready, toS, toR)
  <2> HIDE DEF ready, slot
  <2>1. \A k \in DOMAIN toS : Behind(toS[k].inst, R.forks) /\ toS[k].inst # R.forks - 2
    BY <1>1 DEF ReceiverOk, Behind
  <2>2. Behind(R.forks - 2, R.forks)
    BY <1>1, <1>2 DEF Behind
  <2>3. toR[R.forks - 2].n = R.n
    BY <1>3, <1>6 DEF SizeAgrees
  <2> QED
    BY <1>1, <1>2, <1>5, <2>1, <2>2, <2>3 DEF ReceiverHolds, Spent, Sized
<1>7. \/ R' = Threw(R) /\ toS' = toS
      \/ SizeAgrees /\ R' = Done(ready) /\ toS' = toS
      \/ SizeAgrees /\ Online(ready)
  BY DEF ReceiverRing
<1> HIDE DEF ready, slot
<1>8. CASE R' = Threw(R) /\ toS' = toS
  <2>1. Same(R, R') /\ R'.pc = "idle"
    BY <1>1, <1>8, Application DEF Rests
  <2> QED
    BY <1>1, <1>8, <2>1, ReceiverRests
<1>9. CASE SizeAgrees /\ R' = Done(ready) /\ toS' = toS
  <2>1. Same(ready, R') /\ R'.pc = "idle"
    BY <1>5, <1>9, Application DEF Rests
  <2> QED
    BY <1>6, <1>9, <2>1, ReceiverRests
<1>10. CASE SizeAgrees /\ Online(ready)
  BY <1>6, <1>10, ReceiverOnline
<1> QED
  BY <1>7, <1>8, <1>9, <1>10

\* Every step of the receiver.
LEMMA ReceiverKeeps ==
  ASSUME IInv, ReceiverStep
  PROVE  IInv'
<1>1. IsObject(R) /\ ReceiverHolds(R, toS, toR)
  BY DEF IInv, ReceiverOk, ReceiverHolds
<1>2. ReceiverOk(R', toS', toR)
  <2>1. CASE ReceiverConfigure
    <3>1. Forgets(R, R') /\ toS' = toS
      BY <1>1, <2>1, Setting DEF ReceiverConfigure, Idle
    <3> QED
      BY <1>1, <3>1, ReceiverRests DEF Forgets
  <2>2. CASE ReceiverClear
    <3>1. Forgets(R, R') /\ toS' = toS
      BY <1>1, <2>2, Setting DEF ReceiverClear, Idle
    <3> QED
      BY <1>1, <3>1, ReceiverRests DEF Forgets
  <2>3. CASE ReceiverSkip
    <3>1. Same(R, R') /\ R'.pc = "idle" /\ toS' = toS
      BY <1>1, <2>3, Application DEF ReceiverSkip, Rests
    <3> QED
      BY <1>1, <3>1, ReceiverRests
  <2>4. CASE ReceiverSid
    BY <1>1, <2>4, ReceiverDigests DEF ReceiverSid
  <2>5. CASE ReceiverOffline
    <3>1. CASE R' = Threw(R) /\ toS' = toS
      <4>1. Same(R, R') /\ R'.pc = "idle"
        BY <1>1, <3>1, Application DEF Rests
      <4> QED
        BY <1>1, <3>1, <4>1, ReceiverRests
    <3>2. CASE R' = WaitForMeta(R) /\ toS' = toS
      BY <1>1, <3>2, ReceiverWaitsForMeta
    <3> QED
      BY <2>5, <3>1, <3>2 DEF ReceiverOffline
  <2>6. CASE ReceiverReceive
    <3> DEFINE n == Op(R)[2]
               conf == IF R.st = "default" THEN Configured(R, n) ELSE R
    <3>1. ReceiverHolds(conf, toS, toR) /\ IsObject(conf)
      <4>1. Forgets(R, Configured(R, n))
        BY <1>1, <2>6, Setting DEF ReceiverReceive, Idle
      <4>2. ReceiverHolds(Configured(R, n), toS, toR)
        BY <1>1, <4>1, ReceiverRests
      <4> QED
        BY <1>1, <4>2 DEF ReceiverHolds
    <3>2. \/ R' = Threw(conf) /\ toS' = toS
          \/ R' = WaitForMeta(conf) /\ toS' = toS
          \/ Online(conf)
      BY <2>6 DEF ReceiverReceive
    <3> HIDE DEF conf
    <3>3. CASE R' = Threw(conf) /\ toS' = toS
      <4>1. Same(conf, R') /\ R'.pc = "idle"
        BY <3>1, <3>3, Application DEF Rests
      <4> QED
        BY <3>1, <3>3, <4>1, ReceiverRests
    <3>4. CASE R' = WaitForMeta(conf) /\ toS' = toS
      BY <3>1, <3>4, ReceiverWaitsForMeta
    <3>5. CASE Online(conf)
      BY <3>1, <3>5, ReceiverOnline
    <3> QED
      BY <3>2, <3>3, <3>4, <3>5
  <2>7. CASE ReceiverMeta
    BY <2>7, ReceiverReadsMeta DEF ReceiverMeta
  <2>8. CASE ReceiverRing
    BY <2>8, ReceiverReadsRing
  <2>9. CASE ReceiverOutput
    <3>1. Same(R, R') /\ R'.pc = "idle" /\ toS' = toS
      BY <1>1, <2>9, Application DEF ReceiverOutput, Rests
    <3> QED
      BY <1>1, <3>1, ReceiverRests
  <2> QED
    BY <2>1, <2>2, <2>3, <2>4, <2>5, <2>6, <2>7, <2>8, <2>9 DEF ReceiverStep
<1>3. S' = S /\ outS' = outS /\ toR' = toR
  BY DEF ReceiverStep, ReceiverConfigure, ReceiverClear, ReceiverSkip, ReceiverSid,
         ReceiverOffline, ReceiverReceive, ReceiverMeta, ReceiverRing, ReceiverOutput
<1> QED
  BY <1>2, <1>3 DEF IInv

-----------------------------------------------------------------------------
\* The two objects, without an instance, satisfy their parts.
LEMMA InitKeeps == Init => IInv
<1> SUFFICES ASSUME Init PROVE IInv
  OBVIOUS
<1>1. /\ IsObject(S) /\ S.pc = "idle" /\ S.off = None /\ R = S
      /\ DOMAIN toR = {} /\ DOMAIN toS = {} /\ DOMAIN outS = {}
  BY DEF Init, Object, IsObject, Fields
<1>2. SenderOk(S, outS, toR)
  BY <1>1 DEF SenderOk, Spent, RunsFresh, Sized
<1>3. ReceiverOk(R, toS, toR)
  BY <1>1 DEF ReceiverOk, ReceiverHolds, Spent, RunsFresh, Sized
<1> QED
  BY <1>1, <1>2, <1>3 DEF IInv, Named

\* The inductive invariant.
THEOREM IInvHolds == Spec => []IInv
<1>1. IInv /\ [Next]_vars => IInv'
  <2> SUFFICES ASSUME IInv, [Next]_vars PROVE IInv'
    OBVIOUS
  <2>1. CASE SenderStep
    BY <2>1, SenderKeeps
  <2>2. CASE ReceiverStep
    BY <2>2, ReceiverKeeps
  <2>3. CASE UNCHANGED vars
    BY <2>3 DEF vars, IInv
  <2> QED
    BY <2>1, <2>2, <2>3 DEF Next
<1> QED
  BY <1>1, InitKeeps, PTL DEF Spec

\* One instance never runs twice under one id, on either side: whatever is
\* refused, repeated or done out of order, no two calls of civoleSenderRelease
\* release keys, and no two of civoleReceiverSetX send digests, under the same masks.
THEOREM SidsStayFresh == Spec => []SidsFresh
<1>1. IInv => SidsFresh
  BY DEF IInv, SenderOk, ReceiverOk, ReceiverHolds, SidsFresh
<1> QED
  BY <1>1, IInvHolds, PTL

\* Two objects with the two halves of one offline phase agree on the size,
\* although the receiver compares it only after the sender is done.
THEOREM SizesStayAgreed == Spec => []SizesAgree
<1>1. IInv => SizesAgree
  BY DEF IInv, SenderOk, ReceiverOk, ReceiverHolds, Sized, SizesAgree
<1> QED
  BY <1>1, IInvHolds, PTL
=============================================================================
