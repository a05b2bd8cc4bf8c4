-------------------------- MODULE LogVoleSession --------------------------
(***************************************************************************)
(* The application interface of LogVole (LogVoleSender, LogVoleReceiver    *)
(* and the civole functions under them): configure, offline, send/receive, *)
(* the one-shot calls, explicit session ids, and clear.  Both applications *)
(* follow one plan; a call that throws is made again, then given up.       *)
(*                                                                         *)
(* Neither side closes the socket when it throws and no message carries a  *)
(* session id: the two sides agree on one only by counting their calls.    *)
(* A message travels in the fork of the socket it was written to, so forks *)
(* are numbered and a direction is a function from forks to messages.      *)
(* The ring protocol itself is the subject of LogVole.                     *)
(***************************************************************************)
EXTENDS Integers, Sequences, FiniteSets

CONSTANTS
  Plans,    \* sequences of calls
  Retries,  \* how often an application repeats a call that threw
  Faults    \* subset of {"badX", "badDelta", "seedFails", "size"}

\* What an instance has to satisfy.
SessionAssumption == Retries \in Nat

VARIABLES
  plan,
  left,      \* faults that may still happen
  S, R,      \* the two objects with their coroutines
  toR, toS,
  outS, outR \* what each completed online call ran with, by fork

vars == <<plan, left, S, R, toR, toS, outS, outR>>

None == -1
Fresh(p) == [p EXCEPT !.off = None, !.next = 0, !.used = {}, !.active = None, !.int = FALSE, !.rel = FALSE]

\* A message is written to a fork, a result noted.
With(f, k, v) == [j \in DOMAIN f \union {k} |-> IF j = k THEN v ELSE f[j]]

Configured(p, n) == [Fresh(p) EXCEPT !.st = "configured", !.n = n]
Cleared(p) == [Fresh(p) EXCEPT !.st = "default", !.n = 0]

Object ==
  [st |-> "default", n |-> 0, next |-> 0, off |-> None, used |-> {}, active |-> None,
   int |-> FALSE, rel |-> FALSE, forks |-> 0, pc |-> "idle", sid |-> None, got |-> 0,
   at |-> 1, tries |-> 0]

Init ==
  /\ plan \in Plans
  /\ left = Faults
  /\ S = Object /\ R = Object
  /\ toR = <<>> /\ toS = <<>> /\ outS = <<>> /\ outR = <<>>

-----------------------------------------------------------------------------
(* The application: the next call of the plan, or the same call again.     *)

Op(p) == IF p.at <= Len(plan) THEN plan[p.at] ELSE <<"end">>
Idle(p, call) == p.pc = "idle" /\ Op(p)[1] = call
Done(p) == [p EXCEPT !.at = @ + 1, !.tries = 0, !.pc = "idle"]
Threw(p) ==
  IF p.tries < Retries THEN [p EXCEPT !.tries = @ + 1, !.pc = "idle"] ELSE Done(p)

Fails(fault) == fault \in left /\ left' = left \ {fault}
Works == UNCHANGED left

-----------------------------------------------------------------------------
(* Session ids of the sender (prepareSenderSidForReleaseK).                *)

SidRefused(p, sid) ==
  \/ sid \in p.used
  \/ p.active # None /\ p.active # sid /\ p.rel /\ ~p.int
PreparedKeepsInt(p, sid) ==
  IF p.active = sid THEN p ELSE [p EXCEPT !.active = sid, !.rel = FALSE]
Prepared(p, sid) ==
  IF p.active = sid THEN p ELSE [p EXCEPT !.active = sid, !.rel = FALSE, !.int = FALSE]

ReleaseUnchecked(p, sid) ==
  [Prepared(p, sid) EXCEPT !.int = TRUE, !.pc = "digest", !.sid = sid, !.forks = @ + 1]
\* civoleSenderRelease up to the wait for the root digest.  Without an offline
\* phase the ring has no parameters: it throws with the id already prepared.
Release(p, sid) ==
  IF SidRefused(p, sid) THEN Threw(p)
  ELSE IF Prepared(p, sid).int THEN Threw(Prepared(p, sid))
  ELSE IF p.off = None THEN Threw([Prepared(p, sid) EXCEPT !.int = TRUE])
  ELSE [Prepared(p, sid) EXCEPT !.int = TRUE, !.pc = "digest", !.sid = sid, !.forks = @ + 1]

\* civoleSenderReleaseK: the caches it needs were cleared just before and
\* nothing rebuilds them, so it fails once the id is prepared.
SenderReleaseK ==
  /\ Idle(S, "releaseK")
  /\ LET sid == Op(S)[2] IN
       S' = Done(IF SidRefused(S, sid) THEN S ELSE Prepared(S, sid))
  /\ UNCHANGED <<plan, left, R, toR, toS, outS, outR>>

\* civoleSenderRelease with an id of the caller's.
SenderSid ==
  /\ Idle(S, "sid")
  /\ S' = Release(S, Op(S)[2])
  /\ UNCHANGED <<plan, left, R, toR, toS, outS, outR>>

-----------------------------------------------------------------------------
(* LogVoleSender.                                                          *)

SenderConfigure ==
  /\ Idle(S, "configure")
  /\ S' = Done(Configured(S, Op(S)[2]))
  /\ UNCHANGED <<plan, left, R, toR, toS, outS, outR>>

SenderClear ==
  /\ Idle(S, "clear")
  /\ S' = Done(Cleared(S))
  /\ UNCHANGED <<plan, left, R, toR, toS, outS, outR>>

\* The metadata in one fork, the ring messages in another; an instance is
\* named by its first fork.
OfflineMessages(p) ==
  With(With(toR, p.forks, [n |-> p.n]), p.forks + 1, [inst |-> p.forks])
OfflinedKeepsSid(p) ==
  [Fresh(p) EXCEPT !.st = "offline", !.off = p.forks, !.forks = @ + 2, !.next = p.next]
Offlined(p) == [Fresh(p) EXCEPT !.st = "offline", !.off = p.forks, !.forks = @ + 2]

SenderOffline ==
  /\ Idle(S, "offline")
  /\ \/ /\ S.st = "default"
        /\ S' = Threw(S) /\ Works /\ UNCHANGED toR
     \/ /\ S.st # "default" /\ Fails("badDelta")
        /\ S' = Threw(S) /\ UNCHANGED toR
     \/ /\ S.st # "default" /\ Works
        /\ S' = Done(Offlined(S))
        /\ toR' = OfflineMessages(S)
  /\ UNCHANGED <<plan, R, toS, outS, outR>>

NextRelease(p) == Release([p EXCEPT !.next = @ + 1], p.next)

\* The one-shot send: configures and runs offline first where needed.
SenderSend ==
  /\ Idle(S, "transfer")
  /\ LET n == Op(S)[2]
         conf == IF S.st = "default" THEN Configured(S, n) ELSE S IN
       \/ /\ conf.n # n
          /\ S' = Threw(conf) /\ Works /\ UNCHANGED toR
       \/ /\ conf.n = n /\ conf.st = "offline"
          /\ S' = NextRelease(conf) /\ Works /\ UNCHANGED toR
       \/ /\ conf.n = n /\ conf.st # "offline" /\ Fails("badDelta")
          /\ S' = Threw(conf) /\ UNCHANGED toR
       \/ /\ conf.n = n /\ conf.st # "offline" /\ Works
          /\ S' = NextRelease(Offlined(conf))
          /\ toR' = OfflineMessages(conf)
  /\ UNCHANGED <<plan, R, toS, outS, outR>>

\* The digest arrives: the golden seed is searched, the response sent and
\* the keys released.  The search gives up after a hundred seeds.
SenderRespond ==
  LET slot == S.forks - 1 IN
  /\ S.pc = "digest" /\ slot \in DOMAIN toS
  /\ \/ /\ Fails("seedFails")
        /\ S' = Threw(S) /\ UNCHANGED <<toR, outS>>
     \/ /\ Works
        /\ S' = Done([S EXCEPT !.used = @ \union {S.sid}, !.rel = TRUE])
        /\ toR' = With(toR, slot, [response |-> S.sid])
        /\ outS' = With(outS, slot, [inst |-> S.off, sid |-> S.sid])
  /\ UNCHANGED <<plan, R, toS, outR>>

-----------------------------------------------------------------------------
(* LogVoleReceiver.                                                        *)

\* civoleReceiverSetX: the id is spent before anything is sent.  Without an
\* offline phase the size of the call is refused: the state's is 0.
SetXUnmarked(p, sid) ==
  IF p.off = None \/ sid \in p.used THEN Threw(p)
  ELSE [p EXCEPT !.pc = "response", !.sid = sid, !.forks = @ + 1]
SetX(p, sid) ==
  IF p.off = None \/ sid \in p.used THEN Threw(p)
  ELSE [p EXCEPT !.used = @ \union {sid}, !.pc = "response", !.sid = sid, !.forks = @ + 1]
Digest(p) ==
  IF p.pc = "response" THEN With(toS, p.forks - 1, [inst |-> p.off, sid |-> p.sid]) ELSE toS

\* The online part of receive: the id is taken, then the values are looked at.
OnlineRetakesSid(p) ==
  \/ Fails("badX") /\ R' = Threw(p) /\ UNCHANGED toS
  \/ /\ Works
     /\ R' = SetX([p EXCEPT !.next = @ + 1], p.next)
     /\ toS' = Digest(R')
Online(p) ==
  LET taken == [p EXCEPT !.next = @ + 1] IN
  \/ Fails("badX") /\ R' = Threw(taken) /\ UNCHANGED toS
  \/ /\ Works
     /\ R' = SetX(taken, p.next)
     /\ toS' = Digest(R')

ReceiverSid ==
  /\ Idle(R, "sid")
  /\ R' = SetX(R, Op(R)[2])
  /\ toS' = Digest(R')
  /\ UNCHANGED <<plan, left, S, toR, outS, outR>>

\* A call only the sender has.
ReceiverSkip ==
  /\ Idle(R, "releaseK")
  /\ R' = Done(R)
  /\ UNCHANGED <<plan, left, S, toR, toS, outS, outR>>

ReceiverConfigure ==
  /\ Idle(R, "configure")
  /\ \/ Works /\ R' = Done(Configured(R, Op(R)[2]))
     \/ Fails("size") /\ R' = Done(Configured(R, Op(R)[2] + 1))
  /\ UNCHANGED <<plan, S, toR, toS, outS, outR>>

ReceiverClear ==
  /\ Idle(R, "clear")
  /\ R' = Done(Cleared(R))
  /\ UNCHANGED <<plan, left, S, toR, toS, outS, outR>>

WaitForMeta(p) == [p EXCEPT !.pc = "meta", !.forks = @ + 1]

ReceiverOffline ==
  /\ Idle(R, "offline")
  /\ R' = IF R.st = "default" THEN Threw(R) ELSE WaitForMeta(R)
  /\ UNCHANGED <<plan, left, S, toR, toS, outS, outR>>

ReceiverReceive ==
  /\ Idle(R, "transfer")
  /\ LET n == Op(R)[2]
         conf == IF R.st = "default" THEN Configured(R, n) ELSE R IN
       \/ /\ conf.n # n
          /\ R' = Threw(conf) /\ Works /\ UNCHANGED toS
       \/ /\ conf.n = n /\ conf.st # "offline"
          /\ R' = WaitForMeta(conf) /\ Works /\ UNCHANGED toS
       \/ /\ conf.n = n /\ conf.st = "offline"
          /\ Online(conf)
  /\ UNCHANGED <<plan, S, toR, outS, outR>>

\* Whatever is in the fork, its first eight bytes are the count.
ReceiverMeta ==
  LET slot == R.forks - 1 IN
  /\ R.pc = "meta" /\ slot \in DOMAIN toR
  /\ R' = [R EXCEPT !.pc = "ring", !.forks = @ + 1,
                    !.got = IF "n" \in DOMAIN toR[slot] THEN toR[slot].n ELSE None]
  /\ UNCHANGED <<plan, left, S, toR, toS, outS, outR>>

SizeUnchecked == TRUE
SizeAgrees == R.got = R.n

\* The ring messages are all in before the size is compared.
ReceiverRing ==
  LET slot == R.forks - 1
      ready == [Fresh(R) EXCEPT !.st = "offline", !.off = toR[slot].inst] IN
  /\ R.pc = "ring" /\ slot \in DOMAIN toR /\ "inst" \in DOMAIN toR[slot]
  /\ \/ /\ ~SizeAgrees
        /\ R' = Threw(R) /\ Works /\ UNCHANGED toS
     \/ /\ SizeAgrees /\ Op(R)[1] = "offline"
        /\ R' = Done(ready) /\ Works /\ UNCHANGED toS
     \/ /\ SizeAgrees /\ Op(R)[1] = "transfer"
        /\ Online(ready)
  /\ UNCHANGED <<plan, S, toR, outS, outR>>

ReceiverOutput ==
  LET slot == R.forks - 1 IN
  /\ R.pc = "response" /\ slot \in DOMAIN toR /\ "response" \in DOMAIN toR[slot]
  /\ R' = Done(R)
  /\ outR' = With(outR, slot, [inst |-> R.off, sid |-> R.sid])
  /\ UNCHANGED <<plan, left, S, toR, toS, outS>>

-----------------------------------------------------------------------------
Ended == Op(S)[1] = "end" /\ Op(R)[1] = "end" /\ S.pc = "idle" /\ R.pc = "idle"

SenderStep ==
  \/ SenderConfigure \/ SenderOffline \/ SenderSend \/ SenderSid
  \/ SenderReleaseK \/ SenderClear \/ SenderRespond
ReceiverStep ==
  \/ ReceiverConfigure \/ ReceiverOffline \/ ReceiverReceive \/ ReceiverSid
  \/ ReceiverSkip \/ ReceiverClear \/ ReceiverMeta \/ ReceiverRing \/ ReceiverOutput

Next == SenderStep \/ ReceiverStep
\* Both applications drive their coroutines until they block.
Fairness == WF_vars(SenderStep) /\ WF_vars(ReceiverStep)
Spec == Init /\ [][Next]_vars /\ Fairness

-----------------------------------------------------------------------------
(* The outputs of one online call fit together: LogVole derives every mask *)
(* from the session id and every key from the offline instance, so         *)
(* a = b + x Delta needs both sides to have run with the same two.         *)
VoleHolds ==
  \A k \in DOMAIN outS \intersect DOMAIN outR : outS[k] = outR[k]

(* One instance never runs twice under one id on either side: neither the  *)
(* keys the sender releases nor the digests the receiver sends share masks.*)
RunsFresh(runs) ==
  \A j, k \in DOMAIN runs :
    runs[j].inst = runs[k].inst /\ runs[j].sid = runs[k].sid => j = k
SidsFresh == RunsFresh(outS) /\ RunsFresh(toS)

(* Objects that hold the two halves of one offline phase agree on the size *)
(* of the calls it is for.                                                 *)
SizesAgree ==
  S.off # None /\ S.off = R.off => S.n = R.n
=============================================================================
