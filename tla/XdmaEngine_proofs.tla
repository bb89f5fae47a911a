-------------------------- MODULE XdmaEngine_proofs --------------------------
(***************************************************************************)
(* Proofs about XdmaEngine, for every number and size of requests, every   *)
(* ring and both ways of finding completions.                              *)
(***************************************************************************)
EXTENDS XdmaEngine, SequenceTheorems, FiniteSetTheorems, TLAPS

(***************************************************************************)
(* The inductive invariant. A service of the queue is sound because the    *)
(* count it works with belongs to the head of the queue alone: the last    *)
(* descriptor of every transfer says STOPPED, so each start of the engine  *)
(* executes one transfer, and while the engine is running, or is being     *)
(* serviced, that transfer is still the head.                              *)
(***************************************************************************)
Active == eng.running \/ work = "servicing"

HeadInv ==
  /\ Active =>
       /\ eng.transfer_list # <<>> /\ hw.xfer = Head(eng.transfer_list)
       /\ eng.desc_dequeued = 0
       /\ Xfer(hw.xfer).moved = hw.count
  /\ hw.busy => eng.running /\ hw.count < Xfer(hw.xfer).desc_num
  /\ work = "servicing" /\ eng.running => Len(eng.transfer_list) = 1
  /\ work # "idle" => ~irq_on

\* The queue: transfers that are submitted, of requests that are not over,
\* and those of one request in the order in which they were built.
QueueMembers ==
  \A i \in 1 .. Len(eng.transfer_list) :
    LET t == eng.transfer_list[i]
    IN  /\ t[2] <= Len(tfer[t[1]])
        /\ Xfer(t).state = "SUBMITTED" /\ pc[t[1]] \notin Over

QueueOrder ==
  LET list == eng.transfer_list
  IN  \A i, j \in 1 .. Len(list) :
        i < j /\ list[i][1] = list[j][1] => list[i][2] < list[j][2]

QueueInv == QueueMembers /\ QueueOrder

\* What the device has moved of a transfer, by the transfer's state.
MovedInv ==
  \A r \in Requests : \A k \in 1 .. Len(tfer[r]) :
    LET x == tfer[r][k]
    IN  /\ x.moved <= x.desc_num
        /\ x.state = "COMPLETED" => x.moved = x.desc_num
        /\ x.state \in {"INIT", "SUBMITTED"} =>
             (Active /\ hw.xfer = <<r, k>>) \/ x.moved = 0

\* The transfers of a request lie side by side, and the last one ends it.
LayoutOf(r) ==
  /\ Built(r) <= Size[r]
  /\ \A k \in 1 .. Len(tfer[r]) :
       LET x == tfer[r][k]
       IN  /\ x.sw_desc_idx + x.desc_num <= Built(r)
           /\ x.last_in_request <=> x.sw_desc_idx + x.desc_num = Size[r]
           /\ \A j \in 1 .. k - 1 :
                tfer[r][j].sw_desc_idx + tfer[r][j].desc_num <= x.sw_desc_idx
  /\ \A d \in 0 .. Built(r) - 1 : \E k \in 1 .. Len(tfer[r]) :
       d \in tfer[r][k].sw_desc_idx ..
               tfer[r][k].sw_desc_idx + tfer[r][k].desc_num - 1

LayoutInv == \A r \in Requests : LayoutOf(r)

\* Where a submit call is, and the transfers it has built.
CallOf(r) ==
  /\ pc[r] = "new" => tfer[r] = <<>>
  /\ pc[r] = "build" => Built(r) < Size[r]
  /\ pc[r] \in {"queue", "wait"} => tfer[r] # <<>>
  /\ pc[r] = "queue" => Xfer(Current(r)).state = "INIT"
  /\ pc[r] = "wait" => r \notin AsyncReqs
  /\ r \notin AsyncReqs /\ pc[r] \in {"build", "queue", "wait"} =>
       \A k \in 1 .. Len(tfer[r]) :
         k < Len(tfer[r]) \/ pc[r] = "build" => tfer[r][k].state = "COMPLETED"
  /\ pc[r] = "done" =>
       /\ Built(r) = Size[r]
       /\ \A k \in 1 .. Len(tfer[r]) : tfer[r][k].state = "COMPLETED"

CallInv == \A r \in Requests : CallOf(r)

CoreInv == TypeOK /\ HeadInv /\ QueueInv /\ MovedInv /\ LayoutInv /\ CallInv

(***************************************************************************)
(* Without timeouts the engine is stopped only by its service: the status  *)
(* bits and the word in memory are those of the transfer at the head.      *)
(***************************************************************************)
StatusInv ==
  /\ hw.error => eng.running /\ ~hw.busy /\ Xfer(hw.xfer).erred
  /\ eng.running => ~eng.error
  /\ eng.running /\ ~hw.busy /\ ~hw.error => hw.count = Xfer(hw.xfer).desc_num

IrqInv ==
  /\ work = "pending" => hw.event
  /\ hw.event <=> eng.running /\ ~hw.busy
  /\ work = "servicing" =>
       /\ ~eng.running
       /\ IF eng.error THEN Xfer(hw.xfer).erred
                       ELSE hw.count = Xfer(hw.xfer).desc_num
  /\ wb = NoWb /\ thread.pc = "check"

PollInv ==
  /\ work = "idle"
  /\ wb # NoWb => /\ eng.running /\ ~hw.busy
                  /\ wb.count = hw.count /\ wb.err = hw.error
  /\ thread.pc = "clear" => wb # NoWb /\ thread.desc_wb = wb
  /\ thread.pc = "service" =>
       /\ wb = NoWb /\ eng.running /\ ~hw.busy
       /\ thread.desc_wb.count = hw.count /\ thread.desc_wb.err = hw.error

FailedInv ==
  \A r \in Requests : \A k \in 1 .. Len(tfer[r]) :
    tfer[r][k].state = "FAILED" => tfer[r][k].erred

ExactInv ==
  /\ FailedInv /\ StatusInv
  /\ poll_mode => PollInv
  /\ ~poll_mode => IrqInv

(***************************************************************************)
(* Synchronous requests hold desc_lock from the first transfer to the end: *)
(* only the transfer the holder has just built can be unfinished.          *)
(***************************************************************************)
Unfinished(r, k) == tfer[r][k].state \in {"INIT", "SUBMITTED"}

LockInv ==
  \A r \in Requests :
    /\ pc[r] \in {"build", "queue", "wait"} <=> desc_lock = r
    /\ \A k \in 1 .. Len(tfer[r]) :
         Unfinished(r, k) => desc_lock = r /\ pc[r] # "build" /\ k = Len(tfer[r])

\* Without poll_mode there is no completion thread.
ThreadInv == ~poll_mode => thread.pc = "check"

(***************************************************************************)
(* The runs of the driver the theorems are about: no wait is given up, or  *)
(* all requests are synchronous and completions come by interrupt; and no  *)
(* transfer is refused for an offline card, or all are synchronous.        *)
(***************************************************************************)
Orderly ==
  /\ ~Timeouts \/ (AsyncReqs = {} /\ PollModes \subseteq {FALSE})
  /\ ~Refusals \/ AsyncReqs = {}

EngineInv ==
  /\ CoreInv /\ ThreadInv
  /\ ~Timeouts => ExactInv
  /\ AsyncReqs = {} => LockInv
-----------------------------------------------------------------------------
(***************************************************************************)
(* What a service of the queue does.                                       *)
(***************************************************************************)

\* The first transfer of a queue alone.
LEMMA QueuedNone ==
  ASSUME NEW S, NEW list \in Seq(S)
  PROVE  QueuedDescs(list, 0) = 0
<1>1. SubSeq(list, 1, 0) = <<>>
  OBVIOUS
<1> DEFINE g == [k \in 0 .. 0 |-> 0]
<1>2. g = [k \in 0 .. Len(<<>>) |->
             IF k = 0 THEN 0 ELSE g[k - 1] + Xfer((<<>>)[k]).desc_num]
  OBVIOUS
<1> HIDE DEF g
<1> QED
  BY <1>1, <1>2 DEF QueuedDescs, SumOver

LEMMA QueuedOne ==
  ASSUME NEW S, NEW list \in Seq(S), list # <<>>, Xfer(Head(list)).desc_num \in Int
  PROVE  QueuedDescs(list, 1) = Xfer(Head(list)).desc_num
<1> DEFINE s == SubSeq(list, 1, 1)
           n == Xfer(Head(list)).desc_num
<1>1. Len(s) = 1 /\ s[1] = Head(list)
  OBVIOUS
<1> HIDE DEF s
<1> DEFINE g == [k \in 0 .. 1 |-> IF k = 0 THEN 0 ELSE n]
<1>2. g = [k \in 0 .. Len(s) |-> IF k = 0 THEN 0 ELSE g[k - 1] + Xfer(s[k]).desc_num]
  BY <1>1
<1> HIDE DEF g
<1> DEFINE h == CHOOSE h : h = [k \in 0 .. Len(s) |->
                  IF k = 0 THEN 0 ELSE h[k - 1] + Xfer(s[k]).desc_num]
<1>3. h = [k \in 0 .. Len(s) |-> IF k = 0 THEN 0 ELSE h[k - 1] + Xfer(s[k]).desc_num]
  BY <1>2
<1>4. QueuedDescs(list, 1) = h[1]
  BY <1>1 DEF s, QueuedDescs, SumOver
<1> HIDE DEF h
<1>5. h[0] = 0 /\ h[1] = h[0] + Xfer(s[1]).desc_num
  BY <1>1, <1>3
<1> QED
  BY <1>1, <1>4, <1>5

\* A count of at most the head's descriptors completes nothing before it.
LEMMA PassedNone ==
  ASSUME NEW S, NEW list \in Seq(S), list # <<>>, Xfer(Head(list)).desc_num \in Int,
         NEW count \in Int, count <= Xfer(Head(list)).desc_num
  PROVE  Passed(list, count) = 0
<1>1. QueuedDescs(list, 1) = Xfer(Head(list)).desc_num
  BY QueuedOne
<1> DEFINE P(k) == /\ \A i \in 1 .. k : count > QueuedDescs(list, i)
                   /\ k = Len(list) \/ count <= QueuedDescs(list, k + 1)
<1>2. P(0)
  BY <1>1
<1>3. \A k \in 0 .. Len(list) : P(k) => k = 0
  BY <1>1
<1> QED
  BY <1>2, <1>3 DEF Passed

\* A finite function on an initial interval of the naturals is a sequence.
LEMMA FunctionIsSeq ==
  ASSUME NEW S, NEW n \in Nat, NEW f \in [1 .. n -> S]
  PROVE  f \in Seq(S) /\ Len(f) = n
OBVIOUS

\* A sequence with one member more.
LEMMA Appended ==
  ASSUME NEW S, NEW s \in Seq(S), NEW e \in S, NEW t, t = Append(s, e)
  PROVE  /\ t \in Seq(S) /\ Len(s) \in Nat /\ Len(t) = Len(s) + 1 /\ t # <<>>
         /\ t[Len(s) + 1] = e /\ \A i \in 1 .. Len(s) : t[i] = s[i]
         /\ Head(t) = t[1] /\ Head(t) \in S /\ (s # <<>> => Head(t) = Head(s))
<1>1. /\ t \in Seq(S) /\ Len(s) \in Nat /\ Len(t) = Len(s) + 1
      /\ t[Len(s) + 1] = e /\ \A i \in 1 .. Len(s) : t[i] = s[i]
  OBVIOUS
<1>2. t # <<>> /\ Head(t) = t[1] /\ Head(t) \in S
  BY <1>1
<1>3. s # <<>> => Head(s) = s[1] /\ 1 \in 1 .. Len(s)
  OBVIOUS
<1> QED
  BY <1>1, <1>2, <1>3

\* A sequence with its first member removed.
LEMMA TailOf ==
  ASSUME NEW S, NEW s \in Seq(S), s # <<>>
  PROVE  /\ Tail(s) \in Seq(S) /\ Len(s) \in Nat \ {0} /\ Len(Tail(s)) = Len(s) - 1
         /\ \A i \in 1 .. Len(Tail(s)) : i + 1 \in 2 .. Len(s) /\ Tail(s)[i] = s[i + 1]
         /\ Tail(s) # <<>> => /\ Head(Tail(s)) \in S /\ Head(Tail(s)) = Tail(s)[1]
                             /\ 1 \in 1 .. Len(Tail(s))
         /\ Len(s) = 1 => Tail(s) = <<>>
<1>1. /\ Tail(s) \in Seq(S) /\ Len(s) \in Nat \ {0} /\ Len(Tail(s)) = Len(s) - 1
  OBVIOUS
<1>2. \A i \in 1 .. Len(Tail(s)) : i + 1 \in 2 .. Len(s) /\ Tail(s)[i] = s[i + 1]
  BY <1>1
<1>3. \A t \in Seq(S) : /\ t # <<>> => Head(t) \in S /\ Head(t) = t[1] /\ 1 \in 1 .. Len(t)
                        /\ Len(t) = 0 => t = <<>>
  OBVIOUS
<1> QED
  BY <1>1, <1>2, <1>3

\* The fields of a transfer that steps change.
LEMMA XferWith ==
  ASSUME NEW x \in XferRecord
  PROVE  /\ \A v \in {"INIT", "SUBMITTED", "COMPLETED", "FAILED", "ABORTED"} :
              [x EXCEPT !.state = v] \in XferRecord
         /\ \A n \in Nat : [x EXCEPT !.moved = n] \in XferRecord
         /\ [x EXCEPT !.erred = TRUE] \in XferRecord
BY DEF XferRecord

\* A step that changes one transfer, the k-th of r, to x.
Changes(r, k, x) ==
  /\ tfer' \in [Requests -> Seq(XferRecord)]
  /\ \A q \in Requests :
       /\ Len(tfer'[q]) = Len(tfer[q])
       /\ \A j \in 1 .. Len(tfer[q]) :
            tfer'[q][j] = IF q = r /\ j = k THEN x ELSE tfer[q][j]

LEMMA OneChanged ==
  ASSUME TypeOK, NEW r \in Requests, NEW k \in 1 .. Len(tfer[r]),
         NEW x \in XferRecord, tfer' = [tfer EXCEPT ![r][k] = x]
  PROVE  Changes(r, k, x)
<1>1. ASSUME NEW q \in Requests
      PROVE  /\ tfer'[q] \in Seq(XferRecord) /\ Len(tfer'[q]) = Len(tfer[q])
             /\ \A j \in 1 .. Len(tfer[q]) :
                  tfer'[q][j] = IF q = r /\ j = k THEN x ELSE tfer[q][j]
  <2>1. tfer[q] \in Seq(XferRecord) /\ tfer[r] \in Seq(XferRecord)
    BY DEF TypeOK
  <2>2. CASE q # r
    BY <2>1, <2>2 DEF TypeOK
  <2>3. CASE q = r
    <3>1. tfer'[q] = [tfer[r] EXCEPT ![k] = x]
      BY <2>3 DEF TypeOK
    <3> QED
      BY <2>1, <2>3, <3>1
  <2> QED
    BY <2>2, <2>3
<1> QED
  BY <1>1 DEF Changes, TypeOK

(***************************************************************************)
(* A service with a count of at most the head's descriptors takes exactly  *)
(* the head off the queue and judges it by that count, and ends its        *)
(* request if it was the last transfer of an asynchronous one.             *)
(***************************************************************************)
HeadVerdict(e, count) ==
  IF e.error \/ count < Xfer(Head(eng.transfer_list)).desc_num
  THEN "FAILED" ELSE "COMPLETED"

TakesHead(e, h, count) ==
  LET hd == Head(eng.transfer_list)
  IN  /\ Changes(hd[1], hd[2], [Xfer(hd) EXCEPT !.state = HeadVerdict(e, count)])
      /\ pc' = [r \in Requests |->
                  IF r \in AsyncReqs /\ r = hd[1] /\ Xfer(hd).last_in_request
                  THEN Completed(r, tfer') ELSE pc[r]]
      /\ Resume([e EXCEPT !.transfer_list = Tail(eng.transfer_list),
                          !.running = @ /\ ~e.error,
                          !.desc_dequeued = IF e.error THEN 0 ELSE Xfer(hd).desc_num],
                IF e.error THEN StoppedHw(h) ELSE h)

LEMMA TakeHead ==
  ASSUME TypeOK, QueueInv, eng.transfer_list # <<>>,
         NEW e \in EngineRecord, NEW h \in HwRecord,
         e.transfer_list = eng.transfer_list, e.desc_dequeued = 0,
         NEW count \in 1 .. DESC_MAX,
         count <= Xfer(Head(eng.transfer_list)).desc_num,
         TakeCompleted(e, h, count)
  PROVE  TakesHead(e, h, count)
<1> DEFINE list == eng.transfer_list
           hd   == Head(list)
           v    == HeadVerdict(e, count)
<1>1. /\ list \in Seq(Requests \X (Nat \ {0})) /\ Len(list) \in Nat \ {0}
      /\ hd = list[1] /\ hd \in Requests \X (Nat \ {0})
  BY DEF TypeOK, EngineRecord
<1>2. hd[1] \in Requests /\ hd[2] \in 1 .. Len(tfer[hd[1]])
  BY <1>1 DEF QueueInv, QueueMembers, TypeOK
<1>3. Xfer(hd) \in XferRecord
  BY <1>2 DEF Xfer, TypeOK
<1>4. Xfer(hd).desc_num \in Int /\ count \in Int /\ count <= Xfer(hd).desc_num
  BY <1>3, EngineAssumption DEF XferRecord
<1>5. (count - e.desc_dequeued) % UINT = count
  <2>1. count < UINT /\ UINT \in Nat
    BY <1>2, EngineAssumption
  <2> QED
    BY <2>1, EngineAssumption
<1>6. Passed(list, count) = 0
  <2> HIDE DEF list
  <2> QED
    BY <1>1, <1>4, PassedNone
<1>7. QueuedDescs(list, 0) = 0 /\ QueuedDescs(list, 1) = Xfer(hd).desc_num
  BY <1>1, <1>4, QueuedNone, QueuedOne, EngineAssumption
<1>8. SubSeq(list, 2, Len(list)) = Tail(list)
  BY <1>1
<1>9. Verdict(e, list[1], count) = v
  BY <1>1 DEF Verdict, HeadVerdict
<1>10. TakeTransfers(e, h, 0, count)
  <2>1. count - QueuedDescs(list, 0) = count
    BY <1>7, EngineAssumption
  <2> QED
    BY <1>5, <1>6, <2>1 DEF TakeCompleted
<1>11. tfer' = [r \in Requests |-> [k \in 1 .. Len(tfer[r]) |->
                  [tfer[r][k] EXCEPT !.state =
                     IF <<r, k>> = hd THEN v ELSE tfer[r][k].state]]]
  BY <1>1, <1>9, <1>10, SMTT(60) DEF TakeTransfers, Xfer
<1>12. ASSUME NEW r \in Requests
       PROVE  /\ tfer'[r] \in Seq(XferRecord) /\ Len(tfer'[r]) = Len(tfer[r])
              /\ \A k \in 1 .. Len(tfer[r]) :
                   tfer'[r][k] = IF r = hd[1] /\ k = hd[2]
                                 THEN [Xfer(hd) EXCEPT !.state = v] ELSE tfer[r][k]
  <2>1. Len(tfer[r]) \in Nat /\ \A k \in 1 .. Len(tfer[r]) : tfer[r][k] \in XferRecord
    BY DEF TypeOK
  <2>2. \A k \in 1 .. Len(tfer[r]) :
          tfer'[r][k] = IF r = hd[1] /\ k = hd[2]
                        THEN [Xfer(hd) EXCEPT !.state = v] ELSE tfer[r][k]
    <3>1. \A k \in 1 .. Len(tfer[r]) :
            tfer'[r][k] = [tfer[r][k] EXCEPT !.state =
                             IF <<r, k>> = hd THEN v ELSE tfer[r][k].state]
      BY <1>11
    <3>2. \A k : <<r, k>> = hd <=> r = hd[1] /\ k = hd[2]
      BY <1>1
    <3>3. \A y \in XferRecord : [y EXCEPT !.state = y.state] = y
      BY DEF XferRecord
    <3> QED
      BY <2>1, <3>1, <3>2, <3>3, ZenonT(60) DEF Xfer
  <2>3. tfer'[r] \in [1 .. Len(tfer[r]) -> XferRecord]
    <3>1. v \in {"FAILED", "COMPLETED"}
      BY DEF HeadVerdict
    <3>2. [Xfer(hd) EXCEPT !.state = v] \in XferRecord
      <4> HIDE DEF v
      <4> QED
        BY <1>3, <3>1, XferWith
    <3>3. \A k \in 1 .. Len(tfer[r]) : tfer'[r][k] \in XferRecord
      BY <2>1, <2>2, <3>2
    <3> QED
      BY <1>11, <3>3
  <2> QED
    BY <2>1, <2>2, <2>3, FunctionIsSeq
<1>13. tfer' \in [Requests -> Seq(XferRecord)]
  BY <1>11, <1>12
<1>14. pc' = [r \in Requests |->
                IF r \in AsyncReqs /\ r = hd[1] /\ Xfer(hd).last_in_request
                THEN Completed(r, tfer') ELSE pc[r]]
  <2> DEFINE ended == {r \in AsyncReqs :
                         \E i \in 1 .. (IF 0 < Len(list) THEN 0 + 1 ELSE 0) :
                           list[i][1] = r /\ Xfer(list[i]).last_in_request}
  <2>1. pc' = [r \in Requests |-> IF r \in ended THEN Completed(r, tfer') ELSE pc[r]]
    BY <1>10 DEF TakeTransfers
  <2>2. \A r \in Requests :
          r \in ended <=> r \in AsyncReqs /\ r = hd[1] /\ Xfer(hd).last_in_request
    BY <1>1
  <2> HIDE DEF ended
  <2> QED
    BY <2>1, <2>2
<1>15. Resume([e EXCEPT !.transfer_list = Tail(list), !.running = @ /\ ~e.error,
                        !.desc_dequeued = IF e.error THEN 0 ELSE Xfer(hd).desc_num],
              IF e.error THEN StoppedHw(h) ELSE h)
  <2> DEFINE isFinal == 0 < Len(list)
             stopped == isFinal /\ e.error
             gone    == IF isFinal THEN 0 + 1 ELSE 0
  <2>1. Resume([e EXCEPT !.transfer_list = SubSeq(list, gone + 1, Len(list)),
                         !.running = @ /\ ~stopped,
                         !.desc_dequeued =
                            @ + QueuedDescs(list, IF stopped THEN 0 ELSE gone)],
               IF stopped THEN StoppedHw(h) ELSE h)
    BY <1>10 DEF TakeTransfers
  <2>2. isFinal /\ gone = 1 /\ (stopped <=> e.error)
    BY <1>1
  <2>3. SubSeq(list, gone + 1, Len(list)) = Tail(list)
    BY <1>8, <2>2
  <2>4. e.desc_dequeued + QueuedDescs(list, IF stopped THEN 0 ELSE gone)
          = IF e.error THEN 0 ELSE Xfer(hd).desc_num
    BY <1>4, <1>7, <2>2
  <2> HIDE DEF isFinal, stopped, gone, list, hd
  <2> QED
    BY <2>1, <2>2, <2>3, <2>4
<1> QED
  BY <1>12, <1>13, <1>14, <1>15 DEF TakesHead, Changes

-----------------------------------------------------------------------------
(***************************************************************************)
(* The steps of a submit call.                                             *)
(***************************************************************************)
LEMMA CoreInit == Init => CoreInv
<1> SUFFICES ASSUME Init PROVE CoreInv
  OBVIOUS
<1> USE EngineAssumption DEF Init
<1>1. TypeOK
  BY DEF TypeOK, Waiting, EngineRecord, HwRecord, WbRecord, ThreadRecord, NoWb
<1>2. HeadInv /\ QueueInv
  BY DEF HeadInv, QueueInv, QueueMembers, QueueOrder, Active
<1>3. MovedInv /\ LayoutInv /\ CallInv
  BY DEF MovedInv, LayoutInv, LayoutOf, CallInv, CallOf, Built
<1> QED
  BY <1>1, <1>2, <1>3 DEF CoreInv

\* The parts of CoreInv about transfers that do not change.
LEMMA SameTransfers ==
  ASSUME CoreInv, UNCHANGED <<tfer, hw, eng, work>>
  PROVE  MovedInv' /\ LayoutInv'
BY DEF CoreInv, MovedInv, LayoutInv, LayoutOf, Built, Current, Xfer, Active

\* The fields of a transfer.
LEMMA XferTyped ==
  ASSUME TypeOK, NEW q \in Requests
  PROVE  /\ tfer[q] \in Seq(XferRecord) /\ Len(tfer[q]) \in Nat
         /\ \A k \in 1 .. Len(tfer[q]) :
              /\ tfer[q][k] \in XferRecord
              /\ tfer[q][k].sw_desc_idx \in Nat
              /\ tfer[q][k].desc_num \in 1 .. DESC_MAX /\ tfer[q][k].desc_num \in Nat \ {0}
              /\ tfer[q][k].moved \in Nat
<1>1. tfer[q] \in Seq(XferRecord)
  BY DEF TypeOK
<1>2. \A x \in XferRecord : /\ x.sw_desc_idx \in Nat /\ x.moved \in Nat
                            /\ x.desc_num \in 1 .. DESC_MAX /\ x.desc_num \in Nat \ {0}
  BY EngineAssumption DEF XferRecord
<1>3. \A k \in 1 .. Len(tfer[q]) : tfer[q][k] \in XferRecord
  BY <1>1
<1> QED
  BY <1>1, <1>2, <1>3

\* The members of the queue are transfers.
LEMMA QueueTyped ==
  ASSUME TypeOK, QueueMembers
  PROVE  /\ Len(eng.transfer_list) \in Nat
         /\ \A i \in 1 .. Len(eng.transfer_list) :
              LET t == eng.transfer_list[i]
              IN  /\ t \in Requests \X (Nat \ {0}) /\ t = <<t[1], t[2]>>
                  /\ t[1] \in Requests /\ t[2] \in 1 .. Len(tfer[t[1]])
                  /\ tfer[t[1]][t[2]] \in XferRecord
<1>1. eng.transfer_list \in Seq(Requests \X (Nat \ {0}))
  BY DEF TypeOK, EngineRecord
<1>2. ASSUME NEW i \in 1 .. Len(eng.transfer_list)
      PROVE  LET t == eng.transfer_list[i]
             IN  /\ t \in Requests \X (Nat \ {0}) /\ t = <<t[1], t[2]>>
                 /\ t[1] \in Requests /\ t[2] \in 1 .. Len(tfer[t[1]])
  BY <1>1, SMTT(60) DEF QueueMembers, TypeOK
<1> QED
  BY <1>1, <1>2, SMTT(60) DEF TypeOK

\* The queue is the same, and none of its requests has ended.
LEMMA SameQueue ==
  ASSUME CoreInv, UNCHANGED tfer, eng'.transfer_list = eng.transfer_list,
         \A i \in 1 .. Len(eng.transfer_list) : pc'[eng.transfer_list[i][1]] \notin Over
  PROVE  QueueInv'
BY SMTT(60) DEF CoreInv, QueueInv, QueueMembers, QueueOrder, Xfer

\* While the engine is active the device has the head of the queue.
LEMMA ActiveHead ==
  ASSUME CoreInv, Active
  PROVE  /\ hw.xfer = eng.transfer_list[1] /\ 1 \in 1 .. Len(eng.transfer_list)
         /\ hw.xfer[1] \in Requests /\ hw.xfer[2] \in 1 .. Len(tfer[hw.xfer[1]])
         /\ hw.xfer = <<hw.xfer[1], hw.xfer[2]>>
         /\ Xfer(hw.xfer) = tfer[hw.xfer[1]][hw.xfer[2]] /\ Xfer(hw.xfer) \in XferRecord
         /\ Xfer(hw.xfer).state = "SUBMITTED" /\ pc[hw.xfer[1]] \notin Over
         /\ Xfer(hw.xfer).desc_num \in 1 .. DESC_MAX
         /\ Xfer(hw.xfer).moved = hw.count /\ hw.count <= Xfer(hw.xfer).desc_num
<1>1. /\ eng.transfer_list \in Seq(Requests \X (Nat \ {0})) /\ eng.transfer_list # <<>>
      /\ hw.xfer = Head(eng.transfer_list) /\ Xfer(hw.xfer).moved = hw.count
  BY DEF CoreInv, TypeOK, EngineRecord, HeadInv
<1>2. hw.xfer = eng.transfer_list[1] /\ 1 \in 1 .. Len(eng.transfer_list)
  BY <1>1
<1>3. /\ hw.xfer[1] \in Requests /\ hw.xfer[2] \in 1 .. Len(tfer[hw.xfer[1]])
      /\ hw.xfer = <<hw.xfer[1], hw.xfer[2]>>
      /\ tfer[hw.xfer[1]][hw.xfer[2]] \in XferRecord
  BY <1>2, QueueTyped DEF CoreInv, QueueInv
<1>4. /\ Xfer(hw.xfer).desc_num \in 1 .. DESC_MAX
      /\ Xfer(hw.xfer).moved <= Xfer(hw.xfer).desc_num
  BY <1>3, XferTyped DEF CoreInv, MovedInv, Xfer
<1>5. Xfer(hw.xfer).state = "SUBMITTED" /\ pc[hw.xfer[1]] \notin Over
  BY <1>2 DEF CoreInv, QueueInv, QueueMembers
<1> QED
  BY <1>1, <1>2, <1>3, <1>4, <1>5 DEF Xfer

LEMMA CoreSubmit ==
  ASSUME CoreInv, NEW r \in Requests, SubmitSync(r) \/ SubmitNowait(r)
  PROVE  CoreInv'
<1> USE DEF CoreInv, SubmitSync, SubmitNowait, pollVars
<1>1. TypeOK'
  BY DEF TypeOK, Waiting
<1>2. HeadInv'
  BY DEF HeadInv, Active, Xfer
<1>3. QueueInv'
  <2>1. \A q \in Requests : pc'[q] \in Over => pc[q] \in Over
    BY DEF TypeOK, Over
  <2>2. \A i \in 1 .. Len(eng.transfer_list) : pc'[eng.transfer_list[i][1]] \notin Over
    BY <2>1, QueueTyped DEF QueueInv, QueueMembers
  <2> QED
    BY <2>2, SameQueue
<1>4. MovedInv' /\ LayoutInv'
  BY SameTransfers
<1>5. CallInv'
  <2>1. \A q \in Requests : Built(q)' = Built(q)
    BY DEF Built, Current, Xfer
  <2>2. Built(r) < Size[r]
    BY EngineAssumption DEF CallInv, CallOf, Built
  <2> QED
    BY <2>1, <2>2 DEF CallInv, CallOf, TypeOK, Current, Xfer
<1> QED
  BY <1>1, <1>2, <1>3, <1>4, <1>5

LEMMA CoreWaitOver ==
  ASSUME CoreInv, NEW r \in Requests, WaitCompleted(r) \/ WaitFailed(r)
  PROVE  CoreInv'
<1> USE DEF CoreInv, WaitCompleted, WaitFailed, Proceed, pollVars
<1>1. TypeOK'
  BY DEF TypeOK, Waiting, Over
<1>2. HeadInv'
  BY DEF HeadInv, Active, Xfer
<1>3. QueueInv'
  <2>1. \A k \in 1 .. Len(tfer[r]) : tfer[r][k].state # "SUBMITTED"
    <3>1. tfer[r] # <<>> /\ r \notin AsyncReqs /\ Len(tfer[r]) \in Nat
      BY DEF CallInv, CallOf, TypeOK
    <3>2. tfer[r][Len(tfer[r])].state # "SUBMITTED"
      BY DEF Xfer, Current
    <3>3. \A k \in 1 .. Len(tfer[r]) :
            k < Len(tfer[r]) => tfer[r][k].state = "COMPLETED"
      BY <3>1, SMTT(60) DEF CallInv, CallOf
    <3> QED
      BY <3>1, <3>2, <3>3
  <2>2. \A i \in 1 .. Len(eng.transfer_list) : eng.transfer_list[i][1] # r
    BY <2>1, QueueTyped DEF QueueInv, QueueMembers, Xfer
  <2>3. \A q \in Requests \ {r} : pc'[q] = pc[q]
    BY DEF TypeOK
  <2>4. \A i \in 1 .. Len(eng.transfer_list) : pc'[eng.transfer_list[i][1]] \notin Over
    BY <2>2, <2>3, QueueTyped DEF QueueInv, QueueMembers
  <2> QED
    BY <2>4, SameQueue
<1>4. MovedInv' /\ LayoutInv'
  BY SameTransfers
<1>5. CallInv'
  <2>1. \A q \in Requests : Built(q)' = Built(q)
    BY DEF Built, Current, Xfer
  <2>2. /\ tfer[r] # <<>> /\ r \notin AsyncReqs /\ Len(tfer[r]) \in Nat \ {0}
        /\ tfer[r][Len(tfer[r])] \in XferRecord
    BY DEF CallInv, CallOf, TypeOK
  <2>3. \A k \in 1 .. Len(tfer[r]) :
          k < Len(tfer[r]) => tfer[r][k].state = "COMPLETED"
    BY <2>2 DEF CallInv, CallOf
  <2>4. CASE WaitCompleted(r)
    <3>1. Built(r) = Size[r] <=> tfer[r][Len(tfer[r])].last_in_request
      BY <2>2 DEF LayoutInv, LayoutOf, Built, Current, Xfer
    <3>2. Built(r) \in Nat /\ Built(r) <= Size[r] /\ Size[r] \in Nat
      BY <2>2, EngineAssumption, SMTT(60) DEF LayoutInv, LayoutOf, Built, Current, Xfer, XferRecord
    <3> QED
      BY <2>1, <2>2, <2>3, <2>4, <3>1, <3>2 DEF CallInv, CallOf, TypeOK, Current, Xfer
  <2>5. CASE WaitFailed(r)
    BY <2>1, <2>5 DEF CallInv, CallOf, TypeOK, Current, Xfer
  <2> QED
    BY <2>4, <2>5
<1> QED
  BY <1>1, <1>2, <1>3, <1>4, <1>5

\* A change that leaves the extent of a transfer alone.
LEMMA SameLayout ==
  ASSUME CoreInv, NEW r \in Requests, NEW k \in 1 .. Len(tfer[r]), NEW x,
         Changes(r, k, x),
         x.sw_desc_idx = tfer[r][k].sw_desc_idx, x.desc_num = tfer[r][k].desc_num,
         x.last_in_request = tfer[r][k].last_in_request
  PROVE  /\ LayoutInv'
         /\ \A q \in Requests : Built(q)' = Built(q)
<1>1. \A q \in Requests :
        /\ Len(tfer[q]) \in Nat /\ Len(tfer'[q]) = Len(tfer[q])
        /\ \A j \in 1 .. Len(tfer[q]) :
             /\ tfer'[q][j].sw_desc_idx = tfer[q][j].sw_desc_idx
             /\ tfer'[q][j].desc_num = tfer[q][j].desc_num
             /\ tfer'[q][j].last_in_request = tfer[q][j].last_in_request
  BY DEF CoreInv, TypeOK, Changes
<1>2. \A q \in Requests : tfer'[q] = <<>> <=> tfer[q] = <<>>
  BY DEF CoreInv, TypeOK, Changes
<1>3. \A q \in Requests : Built(q)' = Built(q)
  BY <1>1, <1>2 DEF Built, Current, Xfer, CoreInv, TypeOK
<1>4. LayoutInv'
  <2> SUFFICES ASSUME NEW q \in Requests
               PROVE  (LayoutOf(q))'
    BY DEF LayoutInv
  <2>1. LayoutOf(q)
    BY DEF LayoutInv, CoreInv
  <2>2. Built(q)' = Built(q) /\ Len(tfer[q]) \in Nat /\ Len(tfer'[q]) = Len(tfer[q])
    BY <1>1, <1>3
  <2>3. \A j \in 1 .. Len(tfer[q]) :
             /\ tfer'[q][j].sw_desc_idx = tfer[q][j].sw_desc_idx
             /\ tfer'[q][j].desc_num = tfer[q][j].desc_num
             /\ tfer'[q][j].last_in_request = tfer[q][j].last_in_request
    BY <1>1
  <2>4. \A d \in 0 .. Built(q)' - 1 : \E j \in 1 .. Len(tfer'[q]) :
          d \in tfer'[q][j].sw_desc_idx ..
                 tfer'[q][j].sw_desc_idx + tfer'[q][j].desc_num - 1
    BY <2>1, <2>2, <2>3 DEF LayoutOf
  <2> QED
    BY <2>1, <2>2, <2>3, <2>4, SMTT(60) DEF LayoutOf
<1> QED
  BY <1>3, <1>4

\* The size of the next transfer of a request that is not yet built in full.
LEMMA DescCountFits ==
  ASSUME CoreInv, NEW r \in Requests, pc[r] = "build"
  PROVE  /\ Built(r) \in Nat /\ Size[r] \in Nat
         /\ DescCount(r) \in 1 .. DESC_MAX
         /\ Built(r) + DescCount(r) <= Size[r]
<1>1. Built(r) \in Nat
  <2>1. tfer[r] # <<>> => tfer[r][Len(tfer[r])] \in XferRecord
    BY DEF CoreInv, TypeOK
  <2> QED
    BY <2>1, EngineAssumption, SMTT(60) DEF Built, Current, Xfer, XferRecord
<1>2. Built(r) < Size[r] /\ Size[r] \in Nat /\ DESC_MAX \in Nat
  BY EngineAssumption DEF CoreInv, CallInv, CallOf
<1>3. eng.desc_idx \in 0 .. DESC_MAX - 1
  BY DEF CoreInv, TypeOK, EngineRecord
<1> QED
  BY <1>1, <1>2, <1>3 DEF DescCount

\* A transfer of r was built, nothing else changed.
Grows(r) ==
  /\ Len(tfer'[r]) = Len(tfer[r]) + 1 /\ tfer'[r][Len(tfer[r]) + 1].state = "INIT"
  /\ \A k \in 1 .. Len(tfer[r]) : tfer'[r][k] = tfer[r][k]
  /\ \A q \in Requests \ {r} : tfer'[q] = tfer[q]

LEMMA CoreTransferInit ==
  ASSUME CoreInv, NEW r \in Requests, TransferInit(r)
  PROVE  CoreInv' /\ Grows(r)
<1> DEFINE n == DescCount(r)
           x == [state |-> "INIT", sw_desc_idx |-> Built(r), desc_num |-> n,
                 desc_index |-> eng.desc_idx,
                 last_in_request |-> Built(r) + n = Size[r],
                 moved |-> 0, erred |-> FALSE]
           L == Len(tfer[r])
<1>1. /\ Built(r) \in Nat /\ Size[r] \in Nat /\ n \in 1 .. DESC_MAX
      /\ Built(r) + n <= Size[r]
  BY DescCountFits DEF TransferInit
<1>2. x \in XferRecord
  BY <1>1 DEF XferRecord, CoreInv, TypeOK, EngineRecord
<1>3. /\ tfer' = [tfer EXCEPT ![r] = Append(tfer[r], x)]
      /\ eng' = [eng EXCEPT !.desc_idx = (@ + n) % DESC_MAX]
      /\ pc[r] = "build" /\ pc' = [pc EXCEPT ![r] = "queue"]
      /\ UNCHANGED <<desc_lock, work, irq_on, hw, pollVars>>
  BY DEF TransferInit
<1> HIDE DEF n, x
<1>4. /\ tfer' \in [Requests -> Seq(XferRecord)] /\ L \in Nat
      /\ Len(tfer'[r]) = L + 1 /\ tfer'[r][L + 1] = x
      /\ \A j \in 1 .. L : tfer'[r][j] = tfer[r][j]
      /\ \A q \in Requests \ {r} : tfer'[q] = tfer[q]
  BY <1>2, <1>3 DEF CoreInv, TypeOK
<1>5. TypeOK'
  <2>1. (eng.desc_idx + n) % DESC_MAX \in 0 .. DESC_MAX - 1
    BY <1>1, EngineAssumption, SMTT(60) DEF CoreInv, TypeOK, EngineRecord
  <2>2. eng' \in EngineRecord
    BY <1>3, <2>1 DEF CoreInv, TypeOK, EngineRecord
  <2> QED
    BY <1>3, <1>4, <2>2 DEF CoreInv, TypeOK, Waiting, pollVars
<1>6. \A i \in 1 .. Len(eng.transfer_list) :
        LET t == eng.transfer_list[i]
        IN  /\ t[1] \in Requests /\ t[2] \in 1 .. Len(tfer[t[1]])
            /\ tfer'[t[1]][t[2]] = tfer[t[1]][t[2]]
            /\ Len(tfer[t[1]]) <= Len(tfer'[t[1]])
            /\ Len(tfer[t[1]]) \in Nat /\ Len(tfer'[t[1]]) \in Nat
  <2>1. ASSUME NEW q \in Requests
        PROVE  /\ Len(tfer[q]) \in Nat /\ Len(tfer'[q]) \in Nat
               /\ Len(tfer[q]) <= Len(tfer'[q])
               /\ \A k \in 1 .. Len(tfer[q]) : tfer'[q][k] = tfer[q][k]
    <3>1. Len(tfer[q]) \in Nat
      BY XferTyped DEF CoreInv
    <3>2. CASE q = r
      BY <1>4, <3>1, <3>2
    <3>3. CASE q # r
      BY <1>4, <3>1, <3>3
    <3> QED
      BY <3>2, <3>3
  <2>2. \A i \in 1 .. Len(eng.transfer_list) :
          LET t == eng.transfer_list[i]
          IN  t[1] \in Requests /\ t[2] \in 1 .. Len(tfer[t[1]])
    BY QueueTyped DEF CoreInv, QueueInv
  <2> QED
    BY <2>1, <2>2
<1>7. /\ eng'.transfer_list = eng.transfer_list /\ eng'.running = eng.running
      /\ eng'.desc_dequeued = eng.desc_dequeued
  BY <1>3 DEF CoreInv, TypeOK, EngineRecord
<1>8. Active => tfer'[hw.xfer[1]][hw.xfer[2]] = tfer[hw.xfer[1]][hw.xfer[2]]
  <2> SUFFICES ASSUME Active
               PROVE  tfer'[hw.xfer[1]][hw.xfer[2]] = tfer[hw.xfer[1]][hw.xfer[2]]
    OBVIOUS
  <2>1. hw.xfer = eng.transfer_list[1] /\ 1 \in 1 .. Len(eng.transfer_list)
    BY ActiveHead
  <2> QED
    BY <1>6, <2>1
<1>9. HeadInv'
  BY <1>3, <1>7, <1>8 DEF CoreInv, HeadInv, Active, Xfer
<1>10. QueueInv'
  <2>1. \A q \in Requests : pc'[q] \in Over => pc[q] \in Over
    BY <1>3 DEF CoreInv, TypeOK, Over
  <2>2. QueueMembers'
    <3> SUFFICES ASSUME NEW i \in 1 .. Len(eng.transfer_list),
                        NEW t, t = eng.transfer_list[i]
                 PROVE  /\ t[2] <= Len(tfer'[t[1]])
                        /\ tfer'[t[1]][t[2]].state = "SUBMITTED" /\ pc'[t[1]] \notin Over
      BY <1>7 DEF QueueMembers, Xfer
    <3>1. /\ t[2] <= Len(tfer[t[1]])
          /\ tfer[t[1]][t[2]].state = "SUBMITTED" /\ pc[t[1]] \notin Over
      BY DEF CoreInv, QueueInv, QueueMembers, Xfer
    <3> QED
      BY <1>6, <2>1, <3>1, SMTT(60)
  <2>3. QueueOrder'
    BY <1>7 DEF CoreInv, QueueInv, QueueOrder
  <2> QED
    BY <2>2, <2>3 DEF QueueInv
<1>11. MovedInv'
  <2> SUFFICES ASSUME NEW q \in Requests, NEW k \in 1 .. Len(tfer'[q]),
                      NEW y, y = tfer'[q][k]
               PROVE  /\ y.moved <= y.desc_num
                      /\ y.state = "COMPLETED" => y.moved = y.desc_num
                      /\ y.state \in {"INIT", "SUBMITTED"} =>
                           (Active' /\ hw'.xfer = <<q, k>>) \/ y.moved = 0
    BY DEF MovedInv
  <2>1. CASE k \in 1 .. Len(tfer[q]) /\ y = tfer[q][k]
    BY <1>3, <1>7, <2>1 DEF CoreInv, MovedInv, Active
  <2>2. CASE y = x
    BY <1>1, <2>2 DEF x
  <2> QED
    BY <1>4, <2>1, <2>2
<1>12. /\ Built(r)' = Built(r) + n
       /\ \A q \in Requests \ {r} : Built(q)' = Built(q)
  BY <1>4 DEF Built, Current, Xfer, x
<1>13. LayoutInv'
  <2>1. \A q \in Requests \ {r} : (LayoutOf(q))'
    BY <1>4, <1>12, SMTT(60) DEF CoreInv, LayoutInv, LayoutOf
  <2>2. (LayoutOf(r))'
    <3>1. LayoutOf(r)
      BY DEF CoreInv, LayoutInv
    <3>2. \A k \in 1 .. L : tfer[r][k].sw_desc_idx \in Nat /\ tfer[r][k].desc_num \in Nat
      BY XferTyped DEF CoreInv
    <3>3. /\ x.sw_desc_idx = Built(r) /\ x.desc_num = n
          /\ x.last_in_request <=> Built(r) + n = Size[r]
      BY DEF x
    <3>4. Built(r)' <= Size[r]
      BY <1>1, <1>12
    <3>5. ASSUME NEW k \in 1 .. Len(tfer'[r])
          PROVE  /\ tfer'[r][k].sw_desc_idx + tfer'[r][k].desc_num <= Built(r)'
                 /\ tfer'[r][k].last_in_request
                      <=> tfer'[r][k].sw_desc_idx + tfer'[r][k].desc_num = Size[r]
                 /\ \A j \in 1 .. k - 1 :
                      tfer'[r][j].sw_desc_idx + tfer'[r][j].desc_num
                        <= tfer'[r][k].sw_desc_idx
      <4>1. CASE k \in 1 .. L
        <5>1. /\ tfer'[r][k] = tfer[r][k]
              /\ \A j \in 1 .. k - 1 : tfer'[r][j] = tfer[r][j]
          BY <1>4, <4>1
        <5>2. tfer[r][k].sw_desc_idx + tfer[r][k].desc_num <= Built(r)
          BY <3>1, <4>1 DEF LayoutOf
        <5>3. tfer'[r][k].sw_desc_idx + tfer'[r][k].desc_num <= Built(r)'
          BY <1>1, <1>12, <3>2, <4>1, <5>1, <5>2, SMTT(60)
        <5> QED
          BY <3>1, <4>1, <5>1, <5>3 DEF LayoutOf
      <4>2. CASE k = L + 1
        <5>1. /\ tfer'[r][k] = x
              /\ \A j \in 1 .. k - 1 : j \in 1 .. L /\ tfer'[r][j] = tfer[r][j]
          BY <1>4, <4>2
        <5>2. \A j \in 1 .. L : tfer[r][j].sw_desc_idx + tfer[r][j].desc_num <= Built(r)
          BY <3>1 DEF LayoutOf
        <5> QED
          BY <1>1, <1>12, <3>3, <5>1, <5>2, SMTT(60)
      <4> QED
        BY <1>4, <4>1, <4>2
    <3>6. ASSUME NEW d \in 0 .. Built(r)' - 1
          PROVE  \E k \in 1 .. Len(tfer'[r]) :
                   d \in tfer'[r][k].sw_desc_idx ..
                           tfer'[r][k].sw_desc_idx + tfer'[r][k].desc_num - 1
      <4>1. CASE d < Built(r)
        <5>1. d \in 0 .. Built(r) - 1
          BY <1>1, <1>12, <4>1
        <5>2. PICK k \in 1 .. L : d \in tfer[r][k].sw_desc_idx ..
                                  tfer[r][k].sw_desc_idx + tfer[r][k].desc_num - 1
          BY <3>1, <5>1 DEF LayoutOf
        <5>3. k \in 1 .. Len(tfer'[r]) /\ tfer'[r][k] = tfer[r][k]
          BY <1>4
        <5> QED
          BY <5>2, <5>3
      <4>2. CASE d >= Built(r)
        BY <1>1, <1>4, <1>12, <3>3, <4>2, SMTT(60)
      <4> QED
        BY <1>1, <1>12, <4>1, <4>2, SMTT(60)
    <3> QED
      BY <3>4, <3>5, <3>6 DEF LayoutOf
  <2> QED
    BY <2>1, <2>2 DEF LayoutInv
<1>14. CallInv'
  <2>1. \A q \in Requests \ {r} : (CallOf(q))'
    BY <1>3, <1>4, <1>12 DEF CoreInv, TypeOK, CallInv, CallOf, Current, Xfer
  <2>2. (CallOf(r))'
    <3>1. pc'[r] = "queue" /\ tfer'[r] # <<>>
      BY <1>3, <1>4 DEF CoreInv, TypeOK
    <3>2. (Xfer(Current(r)))'.state = "INIT"
      BY <1>4 DEF Xfer, Current, x
    <3>3. r \notin AsyncReqs => \A k \in 1 .. L : tfer[r][k].state = "COMPLETED"
      BY <1>3 DEF CoreInv, CallInv, CallOf
    <3> QED
      BY <1>4, <3>1, <3>2, <3>3 DEF CallOf
  <2> QED
    BY <2>1, <2>2 DEF CallInv
<1>15. Grows(r)
  BY <1>4 DEF Grows, x
<1> QED
  BY <1>5, <1>9, <1>10, <1>11, <1>13, <1>14, <1>15 DEF CoreInv

LEMMA CoreTransferQueue ==
  ASSUME CoreInv, NEW r \in Requests, TransferQueue(r)
  PROVE  /\ CoreInv' /\ tfer[r][Len(tfer[r])].state = "INIT"
         /\ Len(tfer[r]) \in 1 .. Len(tfer[r])
         /\ Changes(r, Len(tfer[r]), [tfer[r][Len(tfer[r])] EXCEPT !.state = "SUBMITTED"])
<1> DEFINE list == eng.transfer_list
           L    == Len(tfer[r])
           x    == [tfer[r][L] EXCEPT !.state = "SUBMITTED"]
           list2 == Append(list, <<r, L>>)
<1>1. /\ pc[r] = "queue" /\ LockFree
      /\ tfer' = [tfer EXCEPT ![r][L].state = "SUBMITTED"]
      /\ \/ /\ eng.running /\ eng' = [eng EXCEPT !.transfer_list = list2] /\ UNCHANGED hw
         \/ /\ ~eng.running /\ eng' = StartedEngine(eng, hw, list2)
            /\ hw' = StartedHw(hw, list2)
      /\ UNCHANGED <<desc_lock, work, irq_on, poll_mode, wb>>
  BY DEF TransferQueue, Current
<1>2. /\ pc' = [pc EXCEPT ![r] = IF r \notin AsyncReqs THEN "wait"
                                 ELSE IF tfer[r][L].last_in_request
                                      THEN "queued" ELSE "build"]
      /\ \/ thread' = [thread EXCEPT !.wakers = @ \cup {r}]
         \/ thread' = [thread EXCEPT !.wakers = @]
  BY DEF TransferQueue, Current, Xfer
<1>3. /\ L \in Nat \ {0} /\ tfer[r][L] \in XferRecord /\ tfer[r][L].state = "INIT"
      /\ tfer[r][L].desc_num \in Nat \ {0} /\ tfer[r][L].sw_desc_idx \in Nat
  BY <1>1, XferTyped DEF CoreInv, CallInv, CallOf, Xfer, Current
<1>4. x \in XferRecord /\ x.state = "SUBMITTED"
      /\ x.sw_desc_idx = tfer[r][L].sw_desc_idx /\ x.desc_num = tfer[r][L].desc_num
      /\ x.last_in_request = tfer[r][L].last_in_request /\ x.moved = tfer[r][L].moved
  BY <1>3 DEF XferRecord
<1>5. Changes(r, L, x)
  <2>1. tfer' = [tfer EXCEPT ![r][L] = x]
    BY <1>1
  <2>2. L \in 1 .. Len(tfer[r]) /\ TypeOK
    BY <1>3 DEF CoreInv
  <2> HIDE DEF x, L
  <2> QED
    BY <1>4, <2>1, <2>2, OneChanged
<1> HIDE DEF x
<1>6. LayoutInv' /\ \A q \in Requests : Built(q)' = Built(q)
  BY <1>3, <1>4, <1>5, SameLayout
<1>7. /\ list \in Seq(Requests \X (Nat \ {0})) /\ Len(list) \in Nat
      /\ list2 \in Seq(Requests \X (Nat \ {0})) /\ Len(list2) = Len(list) + 1
      /\ list2[Len(list) + 1] = <<r, L>> /\ list2 # <<>>
      /\ \A i \in 1 .. Len(list) : list2[i] = list[i]
      /\ Head(list2) = list2[1] /\ Head(list2) \in Requests \X (Nat \ {0})
      /\ list # <<>> => Head(list2) = Head(list)
  <2>1. list \in Seq(Requests \X (Nat \ {0})) /\ <<r, L>> \in Requests \X (Nat \ {0})
    BY <1>3 DEF CoreInv, TypeOK, EngineRecord
  <2>2. list2 = Append(list, <<r, L>>)
    OBVIOUS
  <2> HIDE DEF list, list2, L
  <2> QED
    BY <2>1, <2>2, Appended
<1> HIDE DEF list2
<1>8. /\ eng'.transfer_list = list2 /\ eng'.running
      /\ eng.running => eng'.desc_dequeued = eng.desc_dequeued
      /\ ~eng.running => eng'.desc_dequeued = 0
  BY <1>1 DEF CoreInv, TypeOK, EngineRecord, StartedEngine
<1>9. \A i \in 1 .. Len(list) :
        LET t == list[i]
        IN  /\ t[1] \in Requests /\ t[2] \in 1 .. Len(tfer[t[1]])
            /\ tfer[t[1]][t[2]].state = "SUBMITTED"
            /\ ~(t[1] = r /\ t[2] = L) /\ tfer'[t[1]][t[2]] = tfer[t[1]][t[2]]
            /\ pc[t[1]] \notin Over
  <2> SUFFICES ASSUME NEW i \in 1 .. Len(list), NEW t, t = list[i]
               PROVE  /\ t[1] \in Requests /\ t[2] \in 1 .. Len(tfer[t[1]])
                      /\ tfer[t[1]][t[2]].state = "SUBMITTED"
                      /\ ~(t[1] = r /\ t[2] = L) /\ tfer'[t[1]][t[2]] = tfer[t[1]][t[2]]
                      /\ pc[t[1]] \notin Over
    OBVIOUS
  <2>1. t[1] \in Requests /\ t[2] \in 1 .. Len(tfer[t[1]])
    BY QueueTyped DEF CoreInv, QueueInv
  <2>2. tfer[t[1]][t[2]].state = "SUBMITTED" /\ pc[t[1]] \notin Over
    BY DEF CoreInv, QueueInv, QueueMembers, Xfer
  <2> QED
    BY <1>3, <1>5, <2>1, <2>2 DEF Changes
<1>10. TypeOK'
  <2>1. eng' \in EngineRecord
    <3>1. eng \in EngineRecord /\ hw.error \in BOOLEAN /\ 0 \in 0 .. DESC_MAX
      BY EngineAssumption DEF CoreInv, TypeOK, HwRecord
    <3>2. CASE eng' = [eng EXCEPT !.transfer_list = list2]
      BY <1>7, <3>1, <3>2 DEF EngineRecord
    <3>3. CASE eng' = StartedEngine(eng, hw, list2)
      BY <1>7, <3>1, <3>3 DEF EngineRecord, StartedEngine
    <3> QED
      BY <1>1, <3>2, <3>3
  <2>2. hw' \in HwRecord
    <3>1. hw \in HwRecord /\ 0 \in 0 .. DESC_MAX
      BY EngineAssumption DEF CoreInv, TypeOK
    <3>2. CASE hw' = StartedHw(hw, list2)
      BY <1>7, <3>1, <3>2 DEF HwRecord, StartedHw
    <3> QED
      BY <1>1, <3>1, <3>2
  <2>3. thread' \in ThreadRecord
    BY <1>2, ZenonT(60) DEF CoreInv, TypeOK, ThreadRecord
  <2>4. pc' \in [Requests -> Waiting \cup Over]
    BY <1>2 DEF CoreInv, TypeOK, Waiting
  <2> QED
    BY <1>1, <1>5, <2>1, <2>2, <2>3, <2>4 DEF CoreInv, TypeOK, Changes
<1>11. tfer[r][L].moved = 0 /\ (~Active => \A i \in 1 .. Len(list) :
                                              tfer[list[i][1]][list[i][2]].moved = 0)
  <2>1. Active => ~(hw.xfer = <<r, L>>)
    BY <1>3, ActiveHead
  <2> QED
    <3>1. tfer[r][L].moved = 0
      BY <1>3, <2>1 DEF CoreInv, MovedInv
    <3>2. ASSUME ~Active, NEW i \in 1 .. Len(list)
          PROVE  tfer[list[i][1]][list[i][2]].moved = 0
      BY <1>9, <3>2 DEF CoreInv, MovedInv
    <3> QED
      BY <3>1, <3>2
<1>12. HeadInv'
  <2>1. CASE eng.running
    <3>1. hw' = hw
      BY <1>1, <2>1
    <3>2. Active
      BY <2>1 DEF Active
    <3>3. hw.xfer = list[1] /\ 1 \in 1 .. Len(list) /\ list # <<>> /\ hw.xfer = Head(list)
      BY <3>2, ActiveHead DEF CoreInv, HeadInv
    <3>4. tfer'[hw.xfer[1]][hw.xfer[2]] = tfer[hw.xfer[1]][hw.xfer[2]]
      BY <1>9, <3>3
    <3> QED
      BY <1>1, <1>7, <1>8, <2>1, <3>1, <3>2, <3>3, <3>4, ZenonT(60)
         DEF CoreInv, HeadInv, Active, Xfer, LockFree
  <2>2. CASE ~eng.running
    <3>1. /\ hw'.busy /\ hw'.xfer = list2[1] /\ hw'.count = 0
      BY <1>1, <1>7, <2>2 DEF StartedHw, CoreInv, TypeOK, HwRecord
    <3>2. ~Active
      BY <1>1, <2>2 DEF Active, LockFree
    <3>3. /\ tfer'[list2[1][1]][list2[1][2]].moved = 0
          /\ tfer'[list2[1][1]][list2[1][2]].desc_num \in Nat \ {0}
      <4>1. CASE Len(list) = 0
        <5>1. list2[1] = <<r, L>>
          BY <1>7, <4>1
        <5>2. tfer'[r][L] = x
          BY <1>3, <1>5, SMTT(60) DEF Changes
        <5> QED
          BY <1>3, <1>4, <1>11, <5>1, <5>2
      <4>2. CASE 1 \in 1 .. Len(list)
        <5>1. /\ list2[1] = list[1] /\ tfer'[list[1][1]][list[1][2]] = tfer[list[1][1]][list[1][2]]
              /\ list[1][1] \in Requests /\ list[1][2] \in 1 .. Len(tfer[list[1][1]])
          BY <1>7, <1>9, <4>2
        <5>2. tfer[list[1][1]][list[1][2]].desc_num \in Nat \ {0}
          BY <5>1, XferTyped DEF CoreInv
        <5> QED
          BY <1>11, <3>2, <4>2, <5>1, <5>2
      <4> QED
        BY <1>7, <4>1, <4>2
    <3>4. /\ work' # "servicing" /\ (work' # "idle" => ~irq_on')
          /\ eng'.transfer_list # <<>> /\ hw'.xfer = Head(eng'.transfer_list)
          /\ eng'.desc_dequeued = 0 /\ eng'.running
      BY <1>1, <1>7, <1>8, <2>2, <3>1 DEF HeadInv, LockFree, CoreInv
    <3> QED
      BY <3>1, <3>3, <3>4 DEF HeadInv, Active, Xfer
  <2> QED
    BY <2>1, <2>2
<1>13. QueueInv'
  <2>1. \A q \in Requests : pc'[q] \in Over => pc[q] \in Over
    BY <1>2 DEF CoreInv, TypeOK, Over
  <2>2. QueueMembers'
    <3> SUFFICES ASSUME NEW i \in 1 .. Len(list2), NEW t, t = list2[i]
                 PROVE  /\ t[2] <= Len(tfer'[t[1]])
                        /\ tfer'[t[1]][t[2]].state = "SUBMITTED" /\ pc'[t[1]] \notin Over
      BY <1>8 DEF QueueMembers, Xfer
    <3>1. CASE i \in 1 .. Len(list)
      <4>1. t = list[i]
        BY <1>7, <3>1
      <4>2. /\ t[1] \in Requests /\ t[2] \in 1 .. Len(tfer[t[1]])
            /\ tfer'[t[1]][t[2]].state = "SUBMITTED" /\ pc[t[1]] \notin Over
        BY <1>9, <3>1, <4>1
      <4>3. Len(tfer'[t[1]]) = Len(tfer[t[1]]) /\ Len(tfer[t[1]]) \in Nat
        BY <1>5, <4>2, XferTyped DEF Changes, CoreInv
      <4> QED
        BY <2>1, <4>2, <4>3
    <3>2. CASE i = Len(list) + 1
      <4>1. t[1] = r /\ t[2] = L
        BY <1>7, <3>2
      <4>2. tfer'[r][L] = x /\ Len(tfer'[r]) = L
        BY <1>3, <1>5 DEF Changes
      <4>3. pc'[r] \notin Over
        BY <1>2 DEF CoreInv, TypeOK, Over
      <4> QED
        BY <1>3, <1>4, <4>1, <4>2, <4>3
    <3> QED
      BY <1>7, <3>1, <3>2
  <2>3. QueueOrder'
    <3> SUFFICES ASSUME NEW i \in 1 .. Len(list2), NEW j \in 1 .. Len(list2),
                        i < j, list2[i][1] = list2[j][1]
                 PROVE  list2[i][2] < list2[j][2]
      BY <1>8 DEF QueueOrder
    <3>1. CASE j \in 1 .. Len(list)
      <4>1. i \in 1 .. Len(list)
        BY <1>7, <3>1
      <4>2. list2[i] = list[i] /\ list2[j] = list[j]
        BY <1>7, <3>1, <4>1
      <4> QED
        BY <3>1, <4>1, <4>2 DEF CoreInv, QueueInv, QueueOrder
    <3>2. CASE j = Len(list) + 1
      <4>1. i \in 1 .. Len(list)
        BY <1>7, <3>2
      <4>2. list2[j][1] = r /\ list2[j][2] = L
        BY <1>7, <3>2, SMTT(60)
      <4>3. list2[i] = list[i]
        BY <1>7, <4>1
      <4>4. list[i][1] = r /\ list[i][2] \in 1 .. L /\ list[i][2] # L
        BY <1>9, <4>1, <4>2, <4>3
      <4> QED
        BY <1>3, <4>2, <4>3, <4>4
    <3> QED
      BY <1>7, <3>1, <3>2
  <2> QED
    BY <2>2, <2>3 DEF QueueInv
<1>14. MovedInv'
  <2> SUFFICES ASSUME NEW q \in Requests, NEW k \in 1 .. Len(tfer[q]),
                      NEW y, y = tfer'[q][k]
               PROVE  /\ y.moved <= y.desc_num
                      /\ y.state = "COMPLETED" => y.moved = y.desc_num
                      /\ y.state \in {"INIT", "SUBMITTED"} =>
                           (Active' /\ hw'.xfer = <<q, k>>) \/ y.moved = 0
    BY <1>5 DEF MovedInv, Changes
  <2>1. CASE q = r /\ k = L
    BY <1>3, <1>4, <1>5, <1>11, <2>1 DEF Changes
  <2>2. CASE ~(q = r /\ k = L)
    <3>1. y = tfer[q][k]
      BY <1>5, <2>2 DEF Changes
    <3>2. Active => eng.running /\ Active' /\ hw' = hw
      BY <1>1, <1>8 DEF Active, LockFree
    <3> QED
      BY <3>1, <3>2 DEF CoreInv, MovedInv
  <2> QED
    BY <2>1, <2>2
<1>15. CallInv'
  <2>1. ASSUME NEW q \in Requests, q # r PROVE (CallOf(q))'
    <3>1. pc'[q] = pc[q] /\ Built(q)' = Built(q)
      BY <1>2, <1>6, <2>1 DEF CoreInv, TypeOK
    <3>2. tfer'[q] = tfer[q]
      BY <1>1, <2>1 DEF CoreInv, TypeOK
    <3>3. CallOf(q)
      BY DEF CoreInv, CallInv
    <3> QED
      BY <3>1, <3>2, <3>3 DEF CallOf, Xfer, Current
  <2>2. (CallOf(r))'
    <3>1. CallOf(r) /\ LayoutOf(r)
      BY DEF CoreInv, CallInv, LayoutInv
    <3>2. Len(tfer'[r]) = L /\ \A k \in 1 .. L : k < L => tfer'[r][k] = tfer[r][k]
      BY <1>3, <1>5 DEF Changes
    <3>3. tfer'[r] # <<>>
      BY <1>3, <3>2
    <3>4. pc'[r] = IF r \notin AsyncReqs THEN "wait"
                   ELSE IF tfer[r][L].last_in_request THEN "queued" ELSE "build"
      BY <1>2 DEF CoreInv, TypeOK
    <3>5. Built(r) = tfer[r][L].sw_desc_idx + tfer[r][L].desc_num
      BY <1>3 DEF Built, Current, Xfer
    <3>6. ~tfer[r][L].last_in_request => Built(r)' < Size[r]
      <4>1. /\ tfer[r][L].last_in_request
                 <=> tfer[r][L].sw_desc_idx + tfer[r][L].desc_num = Size[r]
            /\ Built(r) <= Size[r]
        BY <1>3, <3>1 DEF LayoutOf
      <4>2. Size[r] \in Nat /\ Built(r) \in Nat /\ Built(r)' = Built(r)
        BY <1>3, <1>6, <3>5, EngineAssumption
      <4> QED
        BY <3>5, <4>1, <4>2
    <3>7. r \notin AsyncReqs => \A k \in 1 .. L : k < L => tfer[r][k].state = "COMPLETED"
      BY <1>1, <3>1 DEF CallOf
    <3> QED
      BY <3>2, <3>3, <3>4, <3>6, <3>7 DEF CallOf
  <2> QED
    BY <2>1, <2>2 DEF CallInv
<1> QED
  BY <1>3, <1>5, <1>6, <1>10, <1>12, <1>13, <1>14, <1>15 DEF CoreInv, x

-----------------------------------------------------------------------------
(***************************************************************************)
(* The interrupt, the completion thread and the device.                    *)
(***************************************************************************)

\* Steps that leave transfers, calls and the queue alone.
LEMMA CoreFrame ==
  ASSUME CoreInv, TypeOK', HeadInv', UNCHANGED <<tfer, pc>>,
         eng'.transfer_list = eng.transfer_list,
         Active => Active' \/ hw.count = 0, Active' => Active, hw'.xfer = hw.xfer
  PROVE  CoreInv'
<1>1. QueueInv'
  BY DEF CoreInv, QueueInv, QueueMembers, QueueOrder, Xfer
<1>2. \A r \in Requests : Built(r)' = Built(r)
  BY DEF Built, Current, Xfer
<1>3. LayoutInv' /\ CallInv'
  BY <1>2 DEF CoreInv, LayoutInv, LayoutOf, CallInv, CallOf, Current, Xfer
<1>4. MovedInv'
  <2>1. ASSUME NEW r \in Requests, NEW k \in 1 .. Len(tfer[r]), Active,
               hw.xfer = <<r, k>>, hw.count = 0
        PROVE  tfer[r][k].moved = 0
    BY <2>1, ActiveHead
  <2> QED
    BY <2>1 DEF CoreInv, MovedInv
<1> QED
  BY <1>1, <1>3, <1>4 DEF CoreInv

LEMMA CoreThread ==
  ASSUME CoreInv, UNCHANGED <<pc, tfer, desc_lock, eng, work, irq_on, hw, poll_mode>>,
         thread' \in ThreadRecord, wb' \in WbRecord
  PROVE  CoreInv'
<1>1. TypeOK'
  BY DEF CoreInv, TypeOK
<1>2. HeadInv' /\ (Active' <=> Active)
  BY DEF CoreInv, HeadInv, Active, Xfer
<1> QED
  BY <1>1, <1>2, CoreFrame

\* The steps of the completion thread up to its service of the engine.
LEMMA ThreadTyped ==
  ASSUME CoreInv,
         \/ \E r \in Requests : Wakeup(r)
         \/ ThreadCheck \/ ThreadWakes \/ ThreadProc \/ PollRead \/ PollGivesUp \/ PollClear
  PROVE  /\ UNCHANGED <<pc, tfer, desc_lock, eng, work, irq_on, hw, poll_mode>>
         /\ thread' \in ThreadRecord /\ wb' \in WbRecord
<1>1. thread \in ThreadRecord /\ wb \in WbRecord /\ NoWb \in WbRecord
  BY EngineAssumption DEF CoreInv, TypeOK, NoWb, WbRecord
<1> USE DEF EngineUntouched
<1>2. ASSUME NEW r \in Requests, Wakeup(r)
      PROVE  /\ UNCHANGED <<pc, tfer, desc_lock, eng, work, irq_on, hw, poll_mode>>
             /\ thread' \in ThreadRecord /\ wb' \in WbRecord
  BY <1>1, <1>2 DEF Wakeup, ThreadRecord
<1>3. CASE ThreadCheck \/ ThreadWakes
  BY <1>1, <1>3 DEF ThreadCheck, ThreadWakes, ThreadRecord
<1>4. CASE ThreadProc
  <2>1. Expected \subseteq Nat
    <3>1. CASE eng.transfer_list = <<>>
      BY <3>1, EngineAssumption DEF Expected
    <3>2. CASE eng.transfer_list # <<>>
      <4>1. eng.transfer_list \in Seq(Requests \X (Nat \ {0}))
        BY DEF CoreInv, TypeOK, EngineRecord
      <4>2. Head(eng.transfer_list) = eng.transfer_list[1] /\ 1 \in 1 .. Len(eng.transfer_list)
        BY <3>2, <4>1
      <4>3. Xfer(Head(eng.transfer_list)).desc_num \in Nat
        BY <4>2, QueueTyped, XferTyped DEF CoreInv, QueueInv, Xfer
      <4> QED
        BY <3>2, <4>3 DEF Expected
    <3> QED
      BY <3>1, <3>2
  <2> QED
    BY <1>1, <1>4, <2>1 DEF ThreadProc, ThreadRecord
<1>5. CASE PollRead \/ PollGivesUp
  <2>1. thread' \in ThreadRecord
    <3>1. CASE PollRead
      BY <1>1, <3>1 DEF PollRead, ThreadRecord
    <3>2. CASE PollGivesUp
      BY <1>1, <3>2 DEF PollGivesUp, ThreadMoves, ThreadRecord
    <3> QED
      BY <1>5, <3>1, <3>2
  <2> QED
    BY <1>1, <1>5, <2>1 DEF PollRead, PollGivesUp
<1>6. CASE PollClear
  <2>1. PICK to \in {"service", "poll"} : ThreadMoves(to)
    BY <1>6 DEF PollClear
  <2>2. thread' \in ThreadRecord
    BY <1>1, <2>1 DEF ThreadMoves, ThreadRecord
  <2> QED
    BY <1>1, <1>6, <2>2 DEF PollClear
<1> QED
  BY <1>2, <1>3, <1>4, <1>5, <1>6

LEMMA CoreIrq ==
  ASSUME CoreInv, Irq
  PROVE  CoreInv'
<1>1. TypeOK'
  BY DEF CoreInv, TypeOK, Irq, pollVars
<1>2. HeadInv' /\ (Active' <=> Active)
  BY DEF CoreInv, HeadInv, Active, Xfer, Irq, TypeOK
<1> QED
  BY <1>1, <1>2, CoreFrame DEF Irq

LEMMA CoreServiceIdle ==
  ASSUME CoreInv, ServiceIdle
  PROVE  CoreInv'
<1>1. TypeOK'
  BY DEF CoreInv, TypeOK, ServiceIdle, pollVars, HwRecord, EngineRecord
<1>2. /\ eng'.transfer_list = eng.transfer_list /\ eng'.running = eng.running
      /\ hw'.xfer = hw.xfer /\ hw'.busy = hw.busy
  BY DEF CoreInv, TypeOK, ServiceIdle, HwRecord, EngineRecord
<1>3. HeadInv' /\ ~Active' /\ ~Active
  BY <1>2 DEF CoreInv, HeadInv, Active, Xfer, ServiceIdle
<1> QED
  BY <1>1, <1>2, <1>3, CoreFrame DEF ServiceIdle

LEMMA CoreServiceStatus ==
  ASSUME CoreInv, ServiceStatus, hw.busy => Len(eng.transfer_list) = 1
  PROVE  CoreInv'
<1>1. TypeOK'
  BY DEF CoreInv, TypeOK, ServiceStatus, pollVars, HwRecord, EngineRecord
<1>2. /\ eng'.transfer_list = eng.transfer_list /\ eng'.running = hw.busy
      /\ eng'.desc_dequeued = eng.desc_dequeued
      /\ hw'.xfer = hw.xfer /\ hw'.busy = hw.busy /\ hw'.count = hw.count
  BY DEF CoreInv, TypeOK, ServiceStatus, HwRecord, EngineRecord
<1>3. HeadInv' /\ Active' /\ Active
  BY <1>2 DEF CoreInv, HeadInv, Active, Xfer, ServiceStatus
<1> QED
  BY <1>1, <1>2, <1>3, CoreFrame DEF ServiceStatus

LEMMA CoreServiceNothing ==
  ASSUME CoreInv, ServiceNothing
  PROVE  CoreInv'
<1>1. TypeOK'
  BY DEF CoreInv, TypeOK, ServiceNothing, pollVars
<1>2. HeadInv' /\ Active
  BY SMTT(60) DEF CoreInv, HeadInv, Active, Xfer, ServiceNothing
<1> QED
  BY <1>1, <1>2, CoreFrame DEF ServiceNothing

\* The device moves a descriptor of, or fails on, the head of the queue.
LEMMA CoreDevice ==
  ASSUME CoreInv, HwMove \/ HwError
  PROVE  /\ CoreInv'
         /\ Changes(hw.xfer[1], hw.xfer[2],
                    IF HwMove THEN [Xfer(hw.xfer) EXCEPT !.moved = @ + 1]
                              ELSE [Xfer(hw.xfer) EXCEPT !.erred = TRUE])
<1> DEFINE r == hw.xfer[1]
           k == hw.xfer[2]
           x == IF HwMove THEN [tfer[r][k] EXCEPT !.moved = @ + 1]
                          ELSE [tfer[r][k] EXCEPT !.erred = TRUE]
<1>1. hw.busy /\ eng.running /\ Active /\ hw.count < Xfer(hw.xfer).desc_num
  BY DEF CoreInv, HeadInv, Active, HwMove, HwError
<1>2. /\ r \in Requests /\ k \in 1 .. Len(tfer[r]) /\ hw.xfer = <<r, k>>
      /\ tfer[r][k] \in XferRecord /\ tfer[r][k].state = "SUBMITTED"
      /\ tfer[r][k].desc_num \in 1 .. DESC_MAX /\ tfer[r][k].moved = hw.count
      /\ hw.xfer = eng.transfer_list[1] /\ 1 \in 1 .. Len(eng.transfer_list)
      /\ Xfer(hw.xfer) = tfer[r][k]
  BY <1>1, ActiveHead
<1>3. hw.count \in Nat /\ hw.count + 1 \in 0 .. DESC_MAX /\ hw.count \in 0 .. DESC_MAX
  <2>1. hw.count \in 0 .. DESC_MAX /\ DESC_MAX \in Nat
    BY EngineAssumption DEF CoreInv, TypeOK, HwRecord
  <2> QED
    BY <1>1, <1>2, <2>1, SMTT(60)
<1>4. /\ x \in XferRecord /\ x.state = "SUBMITTED"
      /\ x.sw_desc_idx = tfer[r][k].sw_desc_idx /\ x.desc_num = tfer[r][k].desc_num
      /\ x.last_in_request = tfer[r][k].last_in_request
      /\ x.moved = (IF HwMove THEN hw.count + 1 ELSE hw.count) /\ x.moved <= x.desc_num
  <2>1. CASE HwMove
    <3>1. x = [tfer[r][k] EXCEPT !.moved = hw.count + 1] /\ hw.count + 1 \in Nat
      BY <1>2, <1>3, <2>1, SMTT(60)
    <3>2. x \in XferRecord
      BY <1>2, <3>1, XferWith, ZenonT(60)
    <3>3. /\ x.state = "SUBMITTED" /\ x.moved = hw.count + 1
          /\ x.sw_desc_idx = tfer[r][k].sw_desc_idx /\ x.desc_num = tfer[r][k].desc_num
          /\ x.last_in_request = tfer[r][k].last_in_request
      BY <1>2, <3>1, ZenonT(60) DEF XferRecord
    <3> HIDE DEF x
    <3>4. x.moved <= x.desc_num
      BY <1>1, <1>2, <1>3, <3>3, EngineAssumption, SMTT(60)
    <3> QED
      BY <2>1, <3>2, <3>3, <3>4
  <2>2. CASE ~HwMove
    <3>1. x = [tfer[r][k] EXCEPT !.erred = TRUE]
      BY <2>2
    <3>2. x \in XferRecord
      BY <1>2, <3>1, XferWith, ZenonT(60)
    <3>3. /\ x.state = "SUBMITTED" /\ x.moved = hw.count
          /\ x.sw_desc_idx = tfer[r][k].sw_desc_idx /\ x.desc_num = tfer[r][k].desc_num
          /\ x.last_in_request = tfer[r][k].last_in_request
      BY <1>2, <3>1, ZenonT(60) DEF XferRecord
    <3> HIDE DEF x
    <3>4. x.moved <= x.desc_num
      BY <1>1, <1>2, <1>3, <3>3, EngineAssumption, SMTT(60)
    <3> QED
      BY <2>2, <3>2, <3>3, <3>4
  <2> QED
    BY <2>1, <2>2
<1>5. tfer' = [tfer EXCEPT ![r][k] = x]
  BY DEF HwMove, HwError
<1> HIDE DEF x
<1>6. Changes(r, k, x)
  BY <1>2, <1>4, <1>5, OneChanged, ZenonT(60) DEF CoreInv
<1>7. LayoutInv' /\ \A q \in Requests : Built(q)' = Built(q)
  BY <1>2, <1>4, <1>6, SameLayout
<1>8. /\ hw' \in HwRecord /\ hw'.xfer = hw.xfer
      /\ hw'.count = (IF HwMove THEN hw.count + 1 ELSE hw.count)
      /\ hw'.busy => HwMove /\ hw.count + 1 # Xfer(hw.xfer).desc_num
      /\ wb' \in WbRecord
      /\ UNCHANGED <<pc, desc_lock, eng, work, irq_on, poll_mode, thread>>
  <2>1. CASE HwMove
    <3> DEFINE last == hw.count + 1 = Xfer(hw.xfer).desc_num
    <3>1. /\ hw' = [hw EXCEPT !.count = hw.count + 1, !.busy = ~last, !.event = @ \/ last]
          /\ wb' = [count |-> hw.count + 1, err |-> FALSE] \/ wb' = wb
          /\ UNCHANGED <<pc, desc_lock, eng, work, irq_on, poll_mode, thread>>
      BY <2>1 DEF HwMove
    <3>2. hw \in HwRecord /\ wb \in WbRecord
      BY DEF CoreInv, TypeOK
    <3>3. /\ hw' \in HwRecord /\ hw'.xfer = hw.xfer
          /\ hw'.count = hw.count + 1 /\ (hw'.busy => ~last)
      BY <1>3, <3>1, <3>2 DEF HwRecord
    <3>4. wb' \in WbRecord
      <4>1. [count |-> hw.count + 1, err |-> FALSE] \in WbRecord
        BY <1>3 DEF WbRecord
      <4> QED
        BY <3>1, <3>2, <4>1
    <3> QED
      BY <2>1, <3>1, <3>3, <3>4
  <2>2. CASE ~HwMove
    <3>1. /\ hw' = [hw EXCEPT !.busy = FALSE, !.event = TRUE, !.error = TRUE]
          /\ wb' = [count |-> hw.count, err |-> TRUE] \/ wb' = wb
          /\ UNCHANGED <<pc, desc_lock, eng, work, irq_on, poll_mode, thread>>
      BY <2>2 DEF HwError
    <3>2. hw \in HwRecord /\ wb \in WbRecord
      BY DEF CoreInv, TypeOK
    <3>3. /\ hw' \in HwRecord /\ hw'.xfer = hw.xfer
          /\ hw'.count = hw.count /\ ~hw'.busy
      BY <3>1, <3>2 DEF HwRecord
    <3>4. wb' \in WbRecord
      <4>1. [count |-> hw.count, err |-> TRUE] \in WbRecord
        BY <1>3 DEF WbRecord
      <4> QED
        BY <3>1, <3>2, <4>1
    <3> QED
      BY <2>2, <3>1, <3>3, <3>4
  <2> QED
    BY <2>1, <2>2
<1>9. TypeOK'
  BY <1>6, <1>8 DEF CoreInv, TypeOK, Changes
<1>10. tfer'[r][k] = x /\ Len(tfer'[r]) = Len(tfer[r])
  BY <1>2, <1>6 DEF Changes
<1>11. Xfer(hw.xfer)' = x
  BY <1>8, <1>10 DEF Xfer
<1>12. HeadInv'
  <2>1. hw'.busy => hw'.count < x.desc_num
    BY <1>1, <1>2, <1>3, <1>4, <1>8, EngineAssumption, SMTT(60)
  <2>2. x.moved = hw'.count
    BY <1>4, <1>8
  <2> QED
    BY <1>1, <1>8, <1>11, <2>1, <2>2, SMTT(60) DEF CoreInv, HeadInv, Active
<1>13. \A q \in Requests : \A j \in 1 .. Len(tfer[q]) :
         /\ Len(tfer'[q]) = Len(tfer[q]) /\ tfer'[q][j].state = tfer[q][j].state
         /\ (q = r /\ j = k) \/ tfer'[q][j] = tfer[q][j]
  BY <1>2, <1>4, <1>6 DEF Changes
<1>14. QueueInv'
  <2>1. QueueMembers'
    <3> SUFFICES ASSUME NEW i \in 1 .. Len(eng.transfer_list),
                        NEW t, t = eng.transfer_list[i]
                 PROVE  /\ t[2] <= Len(tfer'[t[1]])
                        /\ tfer'[t[1]][t[2]].state = "SUBMITTED" /\ pc[t[1]] \notin Over
      BY <1>8 DEF QueueMembers, Xfer
    <3>1. t[1] \in Requests /\ t[2] \in 1 .. Len(tfer[t[1]])
      BY QueueTyped DEF CoreInv, QueueInv
    <3>2. /\ t[2] <= Len(tfer[t[1]])
          /\ tfer[t[1]][t[2]].state = "SUBMITTED" /\ pc[t[1]] \notin Over
      BY DEF CoreInv, QueueInv, QueueMembers, Xfer
    <3> QED
      BY <1>13, <3>1, <3>2
  <2>2. QueueOrder'
    BY <1>8 DEF CoreInv, QueueInv, QueueOrder
  <2> QED
    BY <2>1, <2>2 DEF QueueInv
<1>15. MovedInv'
  <2> SUFFICES ASSUME NEW q \in Requests, NEW j \in 1 .. Len(tfer[q]),
                      NEW y, y = tfer'[q][j]
               PROVE  /\ y.moved <= y.desc_num
                      /\ y.state = "COMPLETED" => y.moved = y.desc_num
                      /\ y.state \in {"INIT", "SUBMITTED"} =>
                           (Active' /\ hw'.xfer = <<q, j>>) \/ y.moved = 0
    BY <1>6, SMTT(60) DEF MovedInv, Changes
  <2>1. CASE q = r /\ j = k
    BY <1>1, <1>2, <1>4, <1>8, <1>10, <2>1 DEF Active
  <2>2. CASE ~(q = r /\ j = k)
    <3>1. y = tfer[q][j]
      BY <1>13, <2>2
    <3> QED
      BY <1>1, <1>8, <3>1 DEF CoreInv, MovedInv, Active
  <2> QED
    BY <2>1, <2>2
<1>16. CallInv'
  <2> SUFFICES ASSUME NEW q \in Requests PROVE (CallOf(q))'
    BY DEF CallInv
  <2>1. CallOf(q) /\ Len(tfer[q]) \in Nat /\ tfer[q] \in Seq(XferRecord)
    BY XferTyped DEF CoreInv, CallInv
  <2>2. /\ pc' = pc /\ Built(q)' = Built(q)
        /\ Len(tfer'[q]) = Len(tfer[q]) /\ tfer'[q] \in Seq(XferRecord)
    BY <1>6, <1>7, <1>8 DEF Changes
  <2>3. tfer'[q] = <<>> <=> tfer[q] = <<>>
    BY <2>1, <2>2
  <2>4. \A j \in 1 .. Len(tfer[q]) : tfer'[q][j].state = tfer[q][j].state
    BY <1>13
  <2>5. tfer[q] # <<>> => Xfer(Current(q))'.state = Xfer(Current(q)).state
    BY <2>1, <2>2, <2>4 DEF Xfer, Current
  <2> QED
    BY <2>1, <2>2, <2>3, <2>4, <2>5 DEF CallOf
<1> QED
  BY <1>2, <1>6, <1>7, <1>9, <1>12, <1>14, <1>15, <1>16, ZenonT(60) DEF CoreInv, x

-----------------------------------------------------------------------------
(***************************************************************************)
(* The service of the queue. It leaves the engine running on what is next  *)
(* in the queue, or stopped when the queue is empty.                       *)
(***************************************************************************)
Restarted(e, h) ==
  /\ eng' \in EngineRecord /\ hw' \in HwRecord
  /\ eng'.transfer_list = Tail(eng.transfer_list)
  /\ eng'.running <=> Tail(eng.transfer_list) # <<>>
  /\ hw'.busy <=> eng'.running
  /\ eng'.running => /\ hw'.xfer = Head(Tail(eng.transfer_list)) /\ hw'.count = 0
                     /\ eng'.desc_dequeued = 0 /\ eng'.error = h.error
  /\ hw'.error = h.error /\ hw'.event = h.event

LEMMA TakeRestarts ==
  ASSUME CoreInv, Active, NEW e \in EngineRecord, NEW h \in HwRecord, NEW count,
         e.transfer_list = eng.transfer_list, TakesHead(e, h, count),
         e.running => Len(eng.transfer_list) = 1, h.busy => e.running
  PROVE  Restarted(e, h)
<1> DEFINE list == eng.transfer_list
           n  == Xfer(Head(list)).desc_num
           e1 == [e EXCEPT !.transfer_list = Tail(list), !.running = @ /\ ~e.error,
                           !.desc_dequeued = IF e.error THEN 0 ELSE n]
           h1 == IF e.error THEN StoppedHw(h) ELSE h
<1>1. /\ list \in Seq(Requests \X (Nat \ {0})) /\ list # <<>>
      /\ n \in 1 .. DESC_MAX /\ 0 \in 0 .. DESC_MAX
  BY ActiveHead, EngineAssumption DEF CoreInv, TypeOK, EngineRecord, HeadInv
<1>2. /\ Tail(list) \in Seq(Requests \X (Nat \ {0})) /\ Len(Tail(list)) = Len(list) - 1
      /\ Tail(list) # <<>> => Head(Tail(list)) \in Requests \X (Nat \ {0})
      /\ Len(list) = 1 => Tail(list) = <<>>
  <2> HIDE DEF list
  <2> QED
    BY <1>1, TailOf
<1>3. Resume(e1, h1)
  BY DEF TakesHead
<1> HIDE DEF list, n
<1>4. /\ e1 \in EngineRecord /\ e1.transfer_list = Tail(list)
      /\ e1.running = (e.running /\ ~e.error)
  <2>1. (IF e.error THEN 0 ELSE n) \in 0 .. DESC_MAX
    BY <1>1
  <2> QED
    BY <1>2, <2>1 DEF EngineRecord
<1>5. /\ h1 \in HwRecord /\ h1.error = h.error /\ h1.event = h.event
      /\ h1.busy => h.busy /\ ~e.error
  BY DEF HwRecord, StoppedHw
<1>6. e1.running => Tail(list) = <<>>
  BY <1>2, <1>4 DEF list
<1>7. h1.busy => e1.running
  BY <1>4, <1>5
<1> HIDE DEF e1, h1
<1>8. CASE /\ ~e1.running /\ e1.transfer_list # <<>>
           /\ eng' = StartedEngine(e1, h1, e1.transfer_list)
           /\ hw' = StartedHw(h1, e1.transfer_list)
  <2>1. /\ eng' \in EngineRecord /\ eng'.transfer_list = Tail(list) /\ eng'.running
        /\ eng'.desc_dequeued = 0 /\ eng'.error = h.error
    BY <1>1, <1>2, <1>4, <1>5, <1>8 DEF StartedEngine, EngineRecord, HwRecord
  <2>2. /\ hw' \in HwRecord /\ hw'.busy /\ hw'.xfer = Head(Tail(list)) /\ hw'.count = 0
        /\ hw'.error = h.error /\ hw'.event = h.event
    BY <1>1, <1>2, <1>4, <1>5, <1>8 DEF StartedHw, HwRecord
  <2> QED
    BY <1>4, <1>8, <2>1, <2>2 DEF Restarted, list
<1>9. CASE /\ e1.running /\ e1.transfer_list = <<>>
           /\ eng' = StoppedEngine(e1) /\ hw' = StoppedHw(h1)
  <2>1. eng' \in EngineRecord /\ eng'.transfer_list = Tail(list) /\ ~eng'.running
    BY <1>4, <1>9 DEF StoppedEngine, EngineRecord
  <2>2. /\ hw' \in HwRecord /\ ~hw'.busy /\ hw'.error = h.error /\ hw'.event = h.event
    BY <1>5, <1>9 DEF StoppedHw, HwRecord
  <2> QED
    BY <1>4, <1>9, <2>1, <2>2 DEF Restarted, list
<1>10. CASE (e1.running <=> e1.transfer_list # <<>>) /\ eng' = e1 /\ hw' = h1
  <2>1. ~e1.running /\ ~h1.busy
    BY <1>4, <1>6, <1>7, <1>10
  <2> QED
    BY <1>4, <1>5, <1>10, <2>1 DEF Restarted, list
<1> QED
  BY <1>3, <1>8, <1>9, <1>10 DEF Resume

\* No transfer of a request follows its last one in the queue.
LEMMA LastIsAlone ==
  ASSUME CoreInv, NEW i \in 2 .. Len(eng.transfer_list),
         eng.transfer_list[i][1] = eng.transfer_list[1][1]
  PROVE  ~Xfer(eng.transfer_list[1]).last_in_request
<1> DEFINE r == eng.transfer_list[1][1]
           j == eng.transfer_list[1][2]
           k == eng.transfer_list[i][2]
<1>1. Len(eng.transfer_list) \in Nat /\ 1 \in 1 .. Len(eng.transfer_list)
      /\ i \in 1 .. Len(eng.transfer_list) /\ 1 < i
  BY QueueTyped DEF CoreInv, QueueInv
<1>2. r \in Requests /\ j \in 1 .. Len(tfer[r]) /\ k \in 1 .. Len(tfer[r])
  BY <1>1, QueueTyped DEF CoreInv, QueueInv
<1>3. j < k
  BY <1>1 DEF CoreInv, QueueInv, QueueOrder
<1> HIDE DEF r, j, k
<1>4. LayoutOf(r) /\ Size[r] \in Nat /\ Len(tfer[r]) \in Nat
  BY <1>2, XferTyped, EngineAssumption DEF CoreInv, LayoutInv
<1>5. /\ tfer[r][j].sw_desc_idx \in Nat /\ tfer[r][j].desc_num \in Nat \ {0}
      /\ tfer[r][k].sw_desc_idx \in Nat /\ tfer[r][k].desc_num \in Nat \ {0}
  BY <1>2, XferTyped DEF CoreInv
<1>6. Built(r) \in Int /\ Built(r) <= Size[r]
  <2>1. Built(r) = tfer[r][Len(tfer[r])].sw_desc_idx + tfer[r][Len(tfer[r])].desc_num
    BY <1>2, <1>4 DEF Built, Current, Xfer
  <2>2. Len(tfer[r]) \in 1 .. Len(tfer[r])
    BY <1>2, <1>4
  <2> QED
    BY <1>2, <1>4, <2>1, <2>2, XferTyped, SMTT(60) DEF LayoutOf, CoreInv
<1>7. /\ tfer[r][j].sw_desc_idx + tfer[r][j].desc_num <= tfer[r][k].sw_desc_idx
      /\ tfer[r][k].sw_desc_idx + tfer[r][k].desc_num <= Built(r)
  <2>1. j \in 1 .. k - 1
    BY <1>2, <1>3, <1>4
  <2> QED
    BY <1>2, <1>4, <2>1 DEF LayoutOf
<1>8. tfer[r][j].sw_desc_idx + tfer[r][j].desc_num # Size[r]
  BY <1>4, <1>5, <1>6, <1>7, SMTT(60)
<1>9. ~tfer[r][j].last_in_request
  BY <1>2, <1>4, <1>8 DEF LayoutOf
<1> QED
  BY <1>9 DEF Xfer, r, j

LEMMA CoreTake ==
  ASSUME CoreInv, Active, NEW e \in EngineRecord, NEW h \in HwRecord,
         e.transfer_list = eng.transfer_list, TakesHead(e, h, hw.count),
         e.running => Len(eng.transfer_list) = 1, h.busy => e.running,
         UNCHANGED <<desc_lock, poll_mode, wb>>,
         work' = "idle", irq_on' \in BOOLEAN, thread' \in ThreadRecord
  PROVE  CoreInv'
<1> DEFINE list == eng.transfer_list
           r == hw.xfer[1]
           k == hw.xfer[2]
           v == HeadVerdict(e, hw.count)
           x == [tfer[r][k] EXCEPT !.state = v]
<1>1. /\ list \in Seq(Requests \X (Nat \ {0})) /\ list # <<>>
      /\ hw.xfer = Head(list) /\ hw.xfer = list[1] /\ 1 \in 1 .. Len(list)
      /\ r \in Requests /\ k \in 1 .. Len(tfer[r]) /\ hw.xfer = <<r, k>>
      /\ Xfer(hw.xfer) = tfer[r][k] /\ tfer[r][k] \in XferRecord
      /\ tfer[r][k].state = "SUBMITTED" /\ pc[r] \notin Over
      /\ tfer[r][k].moved = hw.count /\ hw.count <= tfer[r][k].desc_num
      /\ hw.count \in Nat /\ tfer[r][k].desc_num \in Nat
  <2>1. /\ list \in Seq(Requests \X (Nat \ {0})) /\ list # <<>> /\ hw.xfer = Head(list)
        /\ hw.count \in Nat
    BY EngineAssumption DEF CoreInv, TypeOK, EngineRecord, HwRecord, HeadInv
  <2>2. Xfer(hw.xfer).desc_num \in Nat
    BY ActiveHead, EngineAssumption
  <2> HIDE DEF list
  <2> QED
    BY <2>1, <2>2, ActiveHead, SMTT(60) DEF list
<1>2. Restarted(e, h)
  BY TakeRestarts
<1>3. /\ Changes(r, k, x)
      /\ pc' = [q \in Requests |->
                  IF q \in AsyncReqs /\ q = r /\ tfer[r][k].last_in_request
                  THEN Completed(q, tfer') ELSE pc[q]]
  BY <1>1, ZenonT(60) DEF TakesHead
<1>4. /\ v \in {"FAILED", "COMPLETED"}
      /\ v = "COMPLETED" => hw.count = tfer[r][k].desc_num
  BY <1>1, SMTT(60) DEF HeadVerdict
<1>5. /\ x.state = v /\ x.moved = hw.count /\ x.desc_num = tfer[r][k].desc_num
      /\ x.sw_desc_idx = tfer[r][k].sw_desc_idx
      /\ x.last_in_request = tfer[r][k].last_in_request
  BY <1>1, SMTT(60) DEF XferRecord
<1> HIDE DEF v, x
<1>6. LayoutInv' /\ \A q \in Requests : Built(q)' = Built(q)
  BY <1>1, <1>3, <1>5, SameLayout, ZenonT(60)
<1>7. \A q \in Requests : pc'[q] = pc[q]
        \/ (q = r /\ q \in AsyncReqs /\ tfer[r][k].last_in_request
              /\ pc'[q] = Completed(q, tfer') /\ pc'[q] \in {"done", "failed"})
  BY <1>3 DEF Completed
<1>8. TypeOK'
  <2>1. pc' \in [Requests -> Waiting \cup Over]
    BY <1>3, <1>7, SMTT(60) DEF CoreInv, TypeOK, Over
  <2> QED
    BY <1>2, <1>3, <2>1 DEF CoreInv, TypeOK, Changes, Restarted
<1>9. ASSUME NEW i \in 1 .. Len(Tail(list)), NEW t, t = Tail(list)[i]
      PROVE  /\ i + 1 \in 2 .. Len(list) /\ t = list[i + 1]
             /\ t[1] \in Requests /\ t[2] \in 1 .. Len(tfer[t[1]])
             /\ ~(t[1] = r /\ t[2] = k)
             /\ tfer'[t[1]][t[2]] = tfer[t[1]][t[2]]
             /\ Len(tfer'[t[1]]) = Len(tfer[t[1]])
             /\ tfer[t[1]][t[2]].state = "SUBMITTED" /\ pc'[t[1]] \notin Over
             /\ tfer[t[1]][t[2]].moved = 0
             /\ tfer[t[1]][t[2]].desc_num \in Nat \ {0}
  <2>1. i + 1 \in 2 .. Len(list) /\ t = list[i + 1] /\ Len(list) \in Nat
    <3> HIDE DEF list
    <3> QED
      BY <1>1, <1>9, TailOf
  <2>2. i + 1 \in 1 .. Len(list) /\ 1 < i + 1
    BY <2>1
  <2>3. t[1] \in Requests /\ t[2] \in 1 .. Len(tfer[t[1]])
    BY <2>1, <2>2, QueueTyped, SMTT(60) DEF CoreInv, QueueInv
  <2>4. t[1] = r => k < t[2]
    BY <1>1, <2>1, <2>2, SMTT(60) DEF CoreInv, QueueInv, QueueOrder
  <2>5. ~(t[1] = r /\ t[2] = k)
    BY <1>1, <2>3, <2>4, XferTyped DEF CoreInv
  <2>6. tfer'[t[1]][t[2]] = tfer[t[1]][t[2]] /\ Len(tfer'[t[1]]) = Len(tfer[t[1]])
    BY <1>3, <2>3, <2>5 DEF Changes
  <2>7. tfer[t[1]][t[2]].state = "SUBMITTED" /\ pc[t[1]] \notin Over
    BY <2>1, <2>2, SMTT(60) DEF CoreInv, QueueInv, QueueMembers, Xfer
  <2>8. t[1] = r => ~tfer[r][k].last_in_request
    BY <1>1, <2>1, LastIsAlone, ZenonT(60) DEF Xfer
  <2>9. pc'[t[1]] \notin Over
    BY <1>7, <2>3, <2>7, <2>8
  <2>10. hw.xfer # <<t[1], t[2]>>
    BY <1>1, <2>5
  <2>11. tfer[t[1]][t[2]].moved = 0
    BY <2>3, <2>7, <2>10 DEF CoreInv, MovedInv
  <2>12. tfer[t[1]][t[2]].desc_num \in Nat \ {0}
    BY <2>3, XferTyped DEF CoreInv
  <2> QED
    BY <2>1, <2>3, <2>5, <2>6, <2>7, <2>9, <2>11, <2>12
<1>10. HeadInv'
  <2>1. CASE ~eng'.running
    BY <1>2, <2>1 DEF HeadInv, Active, Restarted
  <2>2. CASE eng'.running
    <3>1. /\ Tail(list) # <<>> /\ hw'.xfer = Head(Tail(list)) /\ hw'.count = 0
          /\ eng'.transfer_list = Tail(list) /\ eng'.desc_dequeued = 0
      BY <1>2, <2>2 DEF Restarted
    <3>2. Head(Tail(list)) = Tail(list)[1] /\ 1 \in 1 .. Len(Tail(list))
      <4> HIDE DEF list
      <4> QED
        BY <1>1, <3>1, TailOf
    <3> DEFINE t == Tail(list)[1]
    <3>3. /\ tfer'[t[1]][t[2]].moved = 0 /\ tfer'[t[1]][t[2]].desc_num \in Nat \ {0}
      <4>1. PICK i \in 1 .. Len(Tail(list)) : i = 1
        BY <3>2
      <4>2. PICK u : u = Tail(list)[i]
        OBVIOUS
      <4>3. tfer'[u[1]][u[2]] = tfer[u[1]][u[2]]
        BY <1>9, <4>2
      <4>4. tfer[u[1]][u[2]].moved = 0
        BY <1>9, <4>2
      <4>5. tfer[u[1]][u[2]].desc_num \in Nat \ {0}
        BY <1>9, <4>2
      <4> QED
        BY <4>1, <4>2, <4>3, <4>4, <4>5
    <3>4. Xfer(hw.xfer)' = tfer'[t[1]][t[2]]
      BY <3>1, <3>2 DEF Xfer
    <3> QED
      BY <2>2, <3>1, <3>3, <3>4, SMTT(60) DEF HeadInv, Active
  <2> QED
    BY <2>1, <2>2
<1>11. QueueInv'
  <2>1. QueueMembers'
    <3> SUFFICES ASSUME NEW i \in 1 .. Len(Tail(list)), NEW t, t = Tail(list)[i]
                 PROVE  /\ t[2] <= Len(tfer'[t[1]])
                        /\ tfer'[t[1]][t[2]].state = "SUBMITTED" /\ pc'[t[1]] \notin Over
      BY <1>2 DEF QueueMembers, Xfer, Restarted
    <3>1. t[1] \in Requests /\ t[2] \in 1 .. Len(tfer[t[1]])
      BY <1>9
    <3>2. t[2] <= Len(tfer[t[1]])
      BY <3>1, XferTyped DEF CoreInv
    <3>3. /\ tfer'[t[1]][t[2]].state = "SUBMITTED" /\ pc'[t[1]] \notin Over
          /\ Len(tfer'[t[1]]) = Len(tfer[t[1]])
      BY <1>9, SMTT(60)
    <3> QED
      BY <3>2, <3>3
  <2>2. QueueOrder'
    <3> SUFFICES ASSUME NEW i \in 1 .. Len(Tail(list)), NEW j \in 1 .. Len(Tail(list)),
                        i < j, Tail(list)[i][1] = Tail(list)[j][1]
                 PROVE  Tail(list)[i][2] < Tail(list)[j][2]
      BY <1>2 DEF QueueOrder, Restarted
    <3>1. /\ i + 1 \in 2 .. Len(list) /\ j + 1 \in 2 .. Len(list)
          /\ Tail(list)[i] = list[i + 1] /\ Tail(list)[j] = list[j + 1]
      BY <1>9
    <3>2. /\ i + 1 \in 1 .. Len(list) /\ j + 1 \in 1 .. Len(list) /\ i + 1 < j + 1
      BY <3>1, QueueTyped DEF CoreInv, QueueInv
    <3> QED
      BY <3>1, <3>2 DEF CoreInv, QueueInv, QueueOrder
  <2> QED
    BY <2>1, <2>2 DEF QueueInv
<1>12. MovedInv'
  <2> SUFFICES ASSUME NEW q \in Requests, NEW j \in 1 .. Len(tfer[q]),
                      NEW y, y = tfer'[q][j]
               PROVE  /\ y.moved <= y.desc_num
                      /\ y.state = "COMPLETED" => y.moved = y.desc_num
                      /\ y.state \in {"INIT", "SUBMITTED"} => y.moved = 0
    BY <1>3 DEF MovedInv, Changes
  <2>1. CASE q = r /\ j = k
    <3>1. y = x
      BY <1>3, <2>1 DEF Changes
    <3> QED
      BY <1>1, <1>4, <1>5, <3>1
  <2>2. CASE ~(q = r /\ j = k)
    <3>1. y = tfer[q][j]
      BY <1>3, <2>2 DEF Changes
    <3>2. hw.xfer # <<q, j>>
      BY <1>1, <2>2
    <3> QED
      BY <3>1, <3>2 DEF CoreInv, MovedInv
  <2> QED
    BY <2>1, <2>2
<1>13. CallInv'
  <2> SUFFICES ASSUME NEW q \in Requests PROVE (CallOf(q))'
    BY DEF CallInv
  <2>1. /\ CallOf(q) /\ LayoutOf(q) /\ Len(tfer[q]) \in Nat /\ tfer[q] \in Seq(XferRecord)
        /\ Size[q] \in Nat
    BY XferTyped, EngineAssumption DEF CoreInv, CallInv, LayoutInv
  <2>2. /\ Built(q)' = Built(q)
        /\ Len(tfer'[q]) = Len(tfer[q]) /\ tfer'[q] \in Seq(XferRecord)
    BY <1>3, <1>6 DEF Changes
  <2>3. tfer'[q] = <<>> <=> tfer[q] = <<>>
    BY <2>1, <2>2, SMTT(60)
  <2>4. \A j \in 1 .. Len(tfer[q]) :
          tfer[q][j].state # "SUBMITTED" => tfer'[q][j] = tfer[q][j]
    BY <1>1, <1>3, ZenonT(60) DEF Changes
  <2>5. CASE pc'[q] = pc[q]
    <3>1. pc[q] = "queue" => /\ tfer[q] # <<>>
                             /\ Xfer(Current(q)).state = "INIT"
      BY <2>1 DEF CallOf
    <3>2. pc[q] = "queue" => Xfer(Current(q))'.state = "INIT"
      BY <2>1, <2>2, <2>4, <3>1 DEF Xfer, Current
    <3> QED
      BY <2>1, <2>2, <2>3, <2>4, <2>5, <3>2 DEF CallOf
  <2>6. CASE /\ q = r /\ tfer[r][k].last_in_request
             /\ pc'[q] = Completed(q, tfer') /\ pc'[q] \in {"done", "failed"}
    <3>1. pc'[q] = "done" =>
            \A j \in 1 .. Len(tfer'[q]) : tfer'[q][j].state = "COMPLETED"
      BY <2>6 DEF Completed
    <3>2. Built(q) = Size[q]
      <4>1. /\ tfer[q][k].sw_desc_idx + tfer[q][k].desc_num = Size[q]
            /\ tfer[q][k].sw_desc_idx + tfer[q][k].desc_num <= Built(q)
            /\ Built(q) <= Size[q]
        BY <1>1, <2>1, <2>6, ZenonT(60) DEF LayoutOf
      <4>2. Built(q) = tfer[q][Len(tfer[q])].sw_desc_idx + tfer[q][Len(tfer[q])].desc_num
        BY <1>1, <2>1, <2>6, SMTT(60) DEF Built, Current, Xfer
      <4>3. Len(tfer[q]) \in 1 .. Len(tfer[q])
        BY <1>1, <2>1, <2>6
      <4>4. Built(q) \in Nat
        BY <4>2, <4>3, XferTyped DEF CoreInv
      <4> QED
        BY <2>1, <4>1, <4>4
    <3> QED
      BY <2>2, <2>6, <3>1, <3>2 DEF CallOf
  <2> QED
    BY <1>7, <2>5, <2>6
<1> QED
  BY <1>6, <1>8, <1>10, <1>11, <1>12, <1>13 DEF CoreInv

\* The two services take exactly the head of the queue.
LEMMA ServiceTakes ==
  ASSUME CoreInv, ServiceTransfers
  PROVE  CoreInv' /\ Active /\ TakesHead(eng, hw, hw.count) /\ Restarted(eng, hw)
<1>1. /\ Active /\ eng.transfer_list # <<>> /\ hw.xfer = Head(eng.transfer_list)
      /\ eng.desc_dequeued = 0 /\ eng \in EngineRecord /\ hw \in HwRecord
      /\ hw.count \in 1 .. DESC_MAX
      /\ eng.running => Len(eng.transfer_list) = 1
      /\ hw.busy => eng.running
  BY EngineAssumption DEF ServiceTransfers, Active, CoreInv, HeadInv, TypeOK, HwRecord
<1>2. hw.count <= Xfer(Head(eng.transfer_list)).desc_num
  BY <1>1, ActiveHead
<1>3. TakesHead(eng, hw, hw.count)
  BY <1>1, <1>2, TakeHead DEF ServiceTransfers, CoreInv
<1>4. Restarted(eng, hw)
  BY <1>1, <1>3, TakeRestarts
<1>5. CoreInv'
  BY <1>1, <1>3, CoreTake DEF ServiceTransfers, pollVars, CoreInv, TypeOK
<1> QED
  BY <1>1, <1>3, <1>4, <1>5

\* The completion thread's service, when it finds the count of the head.
LEMMA PollServiceTakes ==
  ASSUME CoreInv, PollInv, StatusInv, PollService
  PROVE  /\ CoreInv' /\ Active
         /\ \/ /\ UNCHANGED <<tfer, pc>> /\ hw.count = 0 /\ hw.error
               /\ ~eng'.running /\ ~hw'.busy /\ ~hw'.error
               /\ eng'.transfer_list = eng.transfer_list
            \/ \E e \in EngineRecord, h \in HwRecord :
                 /\ e.error = hw.error /\ ~h.error
                 /\ TakesHead(e, h, hw.count) /\ Restarted(e, h)
<1> DEFINE err == thread.desc_wb.err
           h == IF err \/ ~eng.running
                THEN [hw EXCEPT !.event = FALSE, !.error = FALSE] ELSE hw
           e == IF err \/ ~eng.running THEN [eng EXCEPT !.error = hw.error] ELSE eng
           count == IF thread.desc_wb.count = 0 THEN hw.count ELSE thread.desc_wb.count
<1>1. /\ eng.running /\ ~hw.busy /\ count = hw.count /\ err = hw.error
      /\ wb = NoWb /\ work = "idle" /\ ~eng.error
  BY DEF PollService, PollInv, StatusInv
<1>2. Active
  BY <1>1 DEF Active
<1>3. /\ eng.transfer_list # <<>> /\ hw.xfer = Head(eng.transfer_list)
      /\ eng.desc_dequeued = 0 /\ eng \in EngineRecord /\ hw \in HwRecord
      /\ hw.count \in 0 .. DESC_MAX /\ DESC_MAX \in Nat
      /\ hw.error \in BOOLEAN
  BY <1>2, EngineAssumption DEF CoreInv, HeadInv, TypeOK, HwRecord
<1>4. /\ StoppedEngine(e) \in EngineRecord /\ StoppedEngine(e).error = hw.error
      /\ StoppedEngine(e).transfer_list = eng.transfer_list
      /\ StoppedEngine(e).desc_dequeued = 0 /\ ~StoppedEngine(e).running
  BY <1>1, <1>3 DEF StoppedEngine, EngineRecord
<1>5. /\ StoppedHw(h) \in HwRecord /\ ~StoppedHw(h).error /\ ~StoppedHw(h).busy
      /\ StoppedHw(h).xfer = hw.xfer
  BY <1>1, <1>3 DEF StoppedHw, HwRecord
<1>6. thread' \in ThreadRecord /\ UNCHANGED <<desc_lock, work, irq_on, poll_mode, wb>>
  <2>1. thread \in ThreadRecord /\ NoWb \in WbRecord /\ ThreadMoves("check")
    BY EngineAssumption DEF CoreInv, TypeOK, NoWb, WbRecord, PollService
  <2>2. thread' \in ThreadRecord
    BY <2>1 DEF ThreadMoves, ThreadRecord
  <2>3. UNCHANGED <<desc_lock, work, irq_on, poll_mode, wb>>
    BY DEF PollService
  <2> QED
    BY <2>2, <2>3
<1>7. \/ /\ count = 0 /\ eng' = StoppedEngine(e) /\ hw' = StoppedHw(h)
         /\ UNCHANGED <<tfer, pc>>
      \/ count # 0 /\ TakeCompleted(StoppedEngine(e), StoppedHw(h), count)
  BY <1>1 DEF PollService
<1> HIDE DEF e, h, count, err
<1>8. CASE count = 0 /\ eng' = StoppedEngine(e) /\ hw' = StoppedHw(h) /\ UNCHANGED <<tfer, pc>>
  <2>1. TypeOK'
    BY <1>4, <1>5, <1>6, <1>8 DEF CoreInv, TypeOK
  <2>2. HeadInv' /\ ~Active'
    BY <1>1, <1>4, <1>5, <1>6, <1>8 DEF HeadInv, Active, CoreInv
  <2>3. CoreInv'
    BY <1>1, <1>4, <1>5, <1>8, <2>1, <2>2, CoreFrame
  <2>4. hw.error
    <3>1. Xfer(hw.xfer).desc_num \in 1 .. DESC_MAX
      BY <1>2, ActiveHead
    <3> QED
      BY <1>1, <1>8, <3>1 DEF StatusInv
  <2> QED
    BY <1>1, <1>2, <1>4, <1>5, <1>8, <2>3, <2>4
<1>9. CASE count # 0 /\ TakeCompleted(StoppedEngine(e), StoppedHw(h), count)
  <2>1. hw.count \in 1 .. DESC_MAX /\ hw.count <= Xfer(Head(eng.transfer_list)).desc_num
    BY <1>1, <1>2, <1>3, <1>9, ActiveHead
  <2>2. TakesHead(StoppedEngine(e), StoppedHw(h), hw.count)
    BY <1>1, <1>3, <1>4, <1>5, <1>9, <2>1, TakeHead DEF CoreInv
  <2>3. Restarted(StoppedEngine(e), StoppedHw(h))
    BY <1>2, <1>4, <1>5, <2>2, TakeRestarts
  <2>4. CoreInv'
    BY <1>1, <1>2, <1>4, <1>5, <1>6, <2>2, CoreTake DEF CoreInv, TypeOK
  <2> QED
    BY <1>2, <1>4, <1>5, <2>2, <2>3, <2>4
<1> QED
  BY <1>7, <1>8, <1>9
-----------------------------------------------------------------------------
(***************************************************************************)
(* A wait that is given up, with synchronous requests only.                *)
(***************************************************************************)

\* The queue holds at most the transfer the holder of desc_lock waits for.
LEMMA LockQueue ==
  ASSUME CoreInv, LockInv
  PROVE  /\ Len(eng.transfer_list) \in {0, 1}
         /\ \A i \in 1 .. Len(eng.transfer_list) :
              /\ eng.transfer_list[i][1] = desc_lock
              /\ eng.transfer_list[i] = <<desc_lock, Len(tfer[desc_lock])>>
<1>1. ASSUME NEW i \in 1 .. Len(eng.transfer_list), NEW t, t = eng.transfer_list[i]
      PROVE  t[1] = desc_lock /\ t = <<desc_lock, Len(tfer[desc_lock])>>
  <2>1. /\ t[1] \in Requests /\ t[2] \in 1 .. Len(tfer[t[1]]) /\ t = <<t[1], t[2]>>
    BY <1>1, QueueTyped DEF CoreInv, QueueInv
  <2>2. Unfinished(t[1], t[2])
    BY <1>1 DEF CoreInv, QueueInv, QueueMembers, Xfer, Unfinished
  <2>3. desc_lock = t[1] /\ t[2] = Len(tfer[t[1]])
    BY <2>1, <2>2 DEF LockInv
  <2> QED
    BY <2>1, <2>3
<1>2. Len(eng.transfer_list) \in Nat
  BY QueueTyped DEF CoreInv, QueueInv
<1>3. \A i, j \in 1 .. Len(eng.transfer_list) : ~(i < j)
  <2> SUFFICES ASSUME NEW i \in 1 .. Len(eng.transfer_list),
                      NEW j \in 1 .. Len(eng.transfer_list), i < j
               PROVE  FALSE
    OBVIOUS
  <2>1. /\ eng.transfer_list[i][1] = desc_lock /\ eng.transfer_list[j][1] = desc_lock
        /\ eng.transfer_list[i][2] = Len(tfer[desc_lock])
        /\ eng.transfer_list[j][2] = Len(tfer[desc_lock])
    BY <1>1
  <2>2. eng.transfer_list[i][2] < eng.transfer_list[j][2]
    BY <2>1 DEF CoreInv, QueueInv, QueueOrder
  <2>3. desc_lock \in Requests /\ Len(tfer[desc_lock]) \in Nat
    BY <2>1, QueueTyped, XferTyped DEF CoreInv, QueueInv
  <2> QED
    BY <2>1, <2>2, <2>3
<1>4. Len(eng.transfer_list) \in {0, 1}
  <2>1. ASSUME Len(eng.transfer_list) > 1
        PROVE  FALSE
    <3>1. 1 \in 1 .. Len(eng.transfer_list) /\ 2 \in 1 .. Len(eng.transfer_list)
      BY <1>2, <2>1
    <3> QED
      BY <1>3, <3>1
  <2> QED
    BY <1>2, <2>1, SMTT(60)
<1>5. \A i \in 1 .. Len(eng.transfer_list) : eng.transfer_list[i][1] = desc_lock
  BY <1>1
<1>6. \A i \in 1 .. Len(eng.transfer_list) :
        eng.transfer_list[i] = <<desc_lock, Len(tfer[desc_lock])>>
  BY <1>1
<1> QED
  BY <1>4, <1>5, <1>6

LEMMA CoreWaitTimedOut ==
  ASSUME CoreInv, LockInv, AsyncReqs = {}, NEW r \in Requests, WaitTimedOut(r)
  PROVE  /\ CoreInv' /\ Len(tfer[r]) \in 1 .. Len(tfer[r])
         /\ desc_lock = r /\ desc_lock' = None
         /\ eng'.transfer_list = <<>>
         /\ Changes(r, Len(tfer[r]), [tfer[r][Len(tfer[r])] EXCEPT !.state = "ABORTED"])
<1> DEFINE list == eng.transfer_list
           L == Len(tfer[r])
           x == [tfer[r][L] EXCEPT !.state = "ABORTED"]
           newList == IF list # <<>> /\ Head(list) = <<r, L>> THEN Tail(list) ELSE list
<1>1. /\ pc[r] = "wait" /\ LockFree /\ Xfer(Current(r)).state = "SUBMITTED"
      /\ tfer' = [tfer EXCEPT ![r][L].state = "ABORTED"]
      /\ eng' = StoppedEngine([eng EXCEPT !.error = hw.error, !.transfer_list = newList])
      /\ hw' = StoppedHw(hw) /\ pc' = [pc EXCEPT ![r] = "timedout"]
      /\ desc_lock' = None
      /\ UNCHANGED <<work, irq_on, poll_mode, wb, thread>>
  BY DEF WaitTimedOut, Current, Proceed, Over, pollVars
<1>2. /\ L \in Nat \ {0} /\ L \in 1 .. Len(tfer[r]) /\ tfer[r][L] \in XferRecord
      /\ tfer[r][L].state = "SUBMITTED"
  BY <1>1, XferTyped DEF CoreInv, CallInv, CallOf, Xfer, Current
<1>3. desc_lock = r
  BY <1>1 DEF LockInv
<1>4. newList = <<>>
  <2>1. list \in Seq(Requests \X (Nat \ {0}))
    BY DEF CoreInv, TypeOK, EngineRecord
  <2>2. CASE list = <<>>
    BY <2>2
  <2>3. CASE list # <<>>
    <3>1. Head(list) = list[1] /\ 1 \in 1 .. Len(list) /\ Len(list) # 0
      BY <2>1, <2>3
    <3>2. Head(list) = <<r, L>> /\ Len(list) = 1
      BY <1>3, <3>1, LockQueue
    <3>3. Tail(list) = <<>>
      <4> HIDE DEF list
      <4> QED
        BY <2>1, <2>3, <3>2, TailOf
    <3> QED
      BY <2>3, <3>2, <3>3
  <2> QED
    BY <2>2, <2>3
<1>5. x \in XferRecord /\ x.state = "ABORTED"
      /\ x.sw_desc_idx = tfer[r][L].sw_desc_idx /\ x.desc_num = tfer[r][L].desc_num
      /\ x.last_in_request = tfer[r][L].last_in_request /\ x.moved = tfer[r][L].moved
  BY <1>2, XferWith, SMTT(60) DEF XferRecord
<1>6. tfer' = [tfer EXCEPT ![r][L] = x]
  BY <1>1, <1>2 DEF CoreInv, TypeOK
<1>7. Changes(r, L, x)
  <2> HIDE DEF x, L
  <2> QED
    BY <1>2, <1>5, <1>6, OneChanged DEF CoreInv, L
<1> HIDE DEF x, newList
<1>8. LayoutInv' /\ \A q \in Requests : Built(q)' = Built(q)
  <2> HIDE DEF L
  <2> QED
    BY <1>2, <1>5, <1>7, SameLayout DEF L
<1>9. /\ eng' \in EngineRecord /\ eng'.transfer_list = <<>> /\ ~eng'.running
      /\ hw' \in HwRecord /\ ~hw'.busy
  <2>1. eng \in EngineRecord /\ hw \in HwRecord /\ hw.error \in BOOLEAN
    BY DEF CoreInv, TypeOK, HwRecord
  <2>2. <<>> \in Seq(Requests \X (Nat \ {0}))
    OBVIOUS
  <2>3. eng' \in EngineRecord /\ eng'.transfer_list = <<>> /\ ~eng'.running
    BY <1>1, <1>4, <2>1, <2>2 DEF EngineRecord, StoppedEngine
  <2>4. hw' \in HwRecord /\ ~hw'.busy
    BY <1>1, <2>1 DEF HwRecord, StoppedHw
  <2> QED
    BY <2>3, <2>4
<1>10. TypeOK'
  BY <1>1, <1>7, <1>9 DEF CoreInv, TypeOK, Over, Changes
<1>11. HeadInv' /\ ~Active'
  BY <1>1, <1>9 DEF CoreInv, HeadInv, Active, LockFree
<1>12. QueueInv'
  BY <1>9 DEF QueueInv, QueueMembers, QueueOrder
<1>13. MovedInv'
  <2> SUFFICES ASSUME NEW q \in Requests, NEW j \in 1 .. Len(tfer[q]),
                      NEW y, y = tfer'[q][j]
               PROVE  /\ y.moved <= y.desc_num
                      /\ y.state = "COMPLETED" => y.moved = y.desc_num
                      /\ y.state \notin {"INIT", "SUBMITTED"}
    BY <1>7 DEF MovedInv, Changes
  <2>1. CASE q = r /\ j = L
    <3>1. y = x /\ tfer[r][L].moved <= tfer[r][L].desc_num
      BY <1>2, <1>7, <2>1 DEF Changes, CoreInv, MovedInv
    <3> QED
      BY <1>5, <3>1
  <2>2. CASE ~(q = r /\ j = L)
    <3>1. y = tfer[q][j]
      BY <1>7, <2>2 DEF Changes
    <3>2. ~Unfinished(q, j)
      BY <1>3, <2>2 DEF LockInv
    <3> QED
      BY <3>1, <3>2 DEF CoreInv, MovedInv, Unfinished
  <2> QED
    BY <2>1, <2>2
<1>14. CallInv'
  <2> SUFFICES ASSUME NEW q \in Requests PROVE (CallOf(q))'
    BY DEF CallInv
  <2>1. CASE q = r
    BY <1>1, <2>1 DEF CallOf, CoreInv, TypeOK
  <2>2. CASE q # r
    <3>1. /\ CallOf(q) /\ tfer[q] \in Seq(XferRecord) /\ tfer'[q] \in Seq(XferRecord)
          /\ pc'[q] = pc[q] /\ Built(q)' = Built(q) /\ Len(tfer'[q]) = Len(tfer[q])
          /\ \A j \in 1 .. Len(tfer[q]) : tfer'[q][j] = tfer[q][j]
      BY <1>1, <1>7, <1>8, <2>2, XferTyped DEF CoreInv, CallInv, Changes, TypeOK
    <3>2. tfer'[q] = tfer[q]
      BY <3>1
    <3> QED
      BY <3>1, <3>2 DEF CallOf, Current, Xfer
  <2> QED
    BY <2>1, <2>2
<1> QED
  BY <1>1, <1>2, <1>3, <1>7, <1>8, <1>9, <1>10, <1>11, <1>12, <1>13, <1>14 DEF CoreInv, x

(***************************************************************************)
(* A transfer of a synchronous request that is not accepted: none of the   *)
(* request is in the queue.                                                *)
(***************************************************************************)
LEMMA CoreTransferRefused ==
  ASSUME CoreInv, NEW r \in Requests, r \notin AsyncReqs, TransferRefused(r)
  PROVE  /\ CoreInv' /\ Len(tfer[r]) \in 1 .. Len(tfer[r])
         /\ Changes(r, Len(tfer[r]), [tfer[r][Len(tfer[r])] EXCEPT !.state = "ABORTED"])
         /\ UNCHANGED <<eng, work, irq_on, hw, poll_mode, wb, thread>>
         /\ Active => Xfer(hw.xfer)' = Xfer(hw.xfer)
<1> DEFINE L == Len(tfer[r])
           x == [tfer[r][L] EXCEPT !.state = "ABORTED"]
<1>1. /\ pc[r] = "queue" /\ tfer' = [tfer EXCEPT ![r][L].state = "ABORTED"]
      /\ pc' = [pc EXCEPT ![r] = "failed"] /\ desc_lock' = None
      /\ UNCHANGED <<eng, work, irq_on, hw, poll_mode, wb, thread>>
  BY DEF TransferRefused, pollVars
<1>2. /\ L \in Nat \ {0} /\ L \in 1 .. Len(tfer[r]) /\ tfer[r][L] \in XferRecord
      /\ tfer[r][L].state = "INIT"
  BY <1>1, XferTyped DEF CoreInv, CallInv, CallOf, Xfer, Current
<1>3. \A k \in 1 .. L : tfer[r][k].state # "SUBMITTED"
  <2>1. \A k \in 1 .. L : k < L => tfer[r][k].state = "COMPLETED"
    BY <1>1, <1>2 DEF CoreInv, CallInv, CallOf
  <2> QED
    BY <1>2, <2>1
<1>4. \A i \in 1 .. Len(eng.transfer_list) : eng.transfer_list[i][1] # r
  BY <1>3, QueueTyped DEF CoreInv, QueueInv, QueueMembers, Xfer
<1>5. /\ x \in XferRecord /\ x.state = "ABORTED"
      /\ x.sw_desc_idx = tfer[r][L].sw_desc_idx /\ x.desc_num = tfer[r][L].desc_num
      /\ x.last_in_request = tfer[r][L].last_in_request /\ x.moved = tfer[r][L].moved
  BY <1>2, XferWith, SMTT(60) DEF XferRecord
<1>6. tfer' = [tfer EXCEPT ![r][L] = x]
  BY <1>1, <1>2 DEF CoreInv, TypeOK
<1>7. Changes(r, L, x)
  <2> HIDE DEF x, L
  <2> QED
    BY <1>2, <1>5, <1>6, OneChanged DEF CoreInv, L
<1> HIDE DEF x
<1>8. LayoutInv' /\ \A q \in Requests : Built(q)' = Built(q)
  <2> HIDE DEF L
  <2> QED
    BY <1>2, <1>5, <1>7, SameLayout DEF L
<1>9. TypeOK'
  BY <1>1, <1>7 DEF CoreInv, TypeOK, Over, Changes
<1>10. Active => Xfer(hw.xfer)' = Xfer(hw.xfer)
  <2> SUFFICES ASSUME Active PROVE Xfer(hw.xfer)' = Xfer(hw.xfer)
    OBVIOUS
  <2>1. /\ hw.xfer[1] \in Requests /\ hw.xfer[2] \in 1 .. Len(tfer[hw.xfer[1]])
        /\ Xfer(hw.xfer).state = "SUBMITTED"
    BY ActiveHead
  <2>2. hw.xfer[1] # r
    BY <1>3, <2>1 DEF Xfer
  <2> QED
    BY <1>1, <1>7, <2>1, <2>2 DEF Xfer, Changes
<1>11. HeadInv' /\ (Active' <=> Active)
  BY <1>1, <1>10 DEF CoreInv, HeadInv, Active
<1>12. QueueInv'
  <2>1. ASSUME NEW i \in 1 .. Len(eng.transfer_list), NEW t, t = eng.transfer_list[i]
        PROVE  /\ t[2] <= Len(tfer'[t[1]]) /\ Xfer(t)'.state = "SUBMITTED"
               /\ pc'[t[1]] \notin Over
    <3>1. /\ t[1] \in Requests /\ t[1] # r /\ t[2] \in 1 .. Len(tfer[t[1]])
          /\ Xfer(t).state = "SUBMITTED" /\ pc[t[1]] \notin Over
      BY <1>4, <2>1, QueueTyped DEF CoreInv, QueueInv, QueueMembers
    <3>2. tfer'[t[1]][t[2]] = tfer[t[1]][t[2]] /\ Len(tfer'[t[1]]) = Len(tfer[t[1]])
      BY <1>7, <3>1 DEF Changes
    <3>3. pc'[t[1]] = pc[t[1]]
      BY <1>1, <3>1 DEF CoreInv, TypeOK
    <3> QED
      BY <3>1, <3>2, <3>3 DEF Xfer
  <2>2. QueueMembers'
    BY <1>1, <2>1 DEF QueueMembers, Xfer
  <2>3. QueueOrder'
    BY <1>1 DEF CoreInv, QueueInv, QueueOrder
  <2> QED
    BY <2>2, <2>3 DEF QueueInv
<1>13. MovedInv'
  <2>1. ASSUME NEW q \in Requests, NEW j \in 1 .. Len(tfer[q])
        PROVE  /\ tfer'[q][j].moved <= tfer'[q][j].desc_num
               /\ tfer'[q][j].state = "COMPLETED" => tfer'[q][j].moved = tfer'[q][j].desc_num
               /\ tfer'[q][j].state \in {"INIT", "SUBMITTED"} =>
                    (Active /\ hw.xfer = <<q, j>>) \/ tfer'[q][j].moved = 0
    <3>1. CASE q = r /\ j = L
      <4>1. tfer'[q][j] = x /\ tfer[r][L].moved <= tfer[r][L].desc_num
        BY <1>2, <1>7, <3>1 DEF Changes, CoreInv, MovedInv
      <4> QED
        BY <1>5, <4>1
    <3>2. CASE ~(q = r /\ j = L)
      <4>1. tfer'[q][j] = tfer[q][j]
        BY <1>7, <3>2 DEF Changes
      <4> QED
        BY <4>1 DEF CoreInv, MovedInv
    <3> QED
      BY <3>1, <3>2
  <2>2. \A q \in Requests : Len(tfer'[q]) = Len(tfer[q])
    BY <1>7 DEF Changes
  <2>3. hw' = hw /\ (Active' <=> Active)
    BY <1>1, <1>11
  <2> HIDE DEF L
  <2> QED
    BY <2>1, <2>2, <2>3 DEF MovedInv
<1>14. CallInv'
  <2> SUFFICES ASSUME NEW q \in Requests PROVE (CallOf(q))'
    BY DEF CallInv
  <2>1. CASE q = r
    BY <1>1, <2>1 DEF CallOf, CoreInv, TypeOK
  <2>2. CASE q # r
    <3>1. /\ CallOf(q) /\ tfer[q] \in Seq(XferRecord) /\ tfer'[q] \in Seq(XferRecord)
          /\ pc'[q] = pc[q] /\ Built(q)' = Built(q) /\ Len(tfer'[q]) = Len(tfer[q])
          /\ \A j \in 1 .. Len(tfer[q]) : tfer'[q][j] = tfer[q][j]
      BY <1>1, <1>7, <1>8, <2>2, XferTyped DEF CoreInv, CallInv, Changes, TypeOK
    <3>2. tfer'[q] = tfer[q]
      BY <3>1
    <3> QED
      BY <3>1, <3>2 DEF CallOf, Current, Xfer
  <2> QED
    BY <2>1, <2>2
<1> QED
  BY <1>1, <1>2, <1>7, <1>8, <1>9, <1>10, <1>11, <1>12, <1>13, <1>14 DEF CoreInv, x

\* Every step of an orderly run keeps the core of the invariant.
LEMMA CoreStep ==
  ASSUME EngineInv, Orderly, [Next]_engineVars
  PROVE  CoreInv'
<1>1. CoreInv /\ ThreadInv /\ (~Timeouts => ExactInv) /\ (AsyncReqs = {} => LockInv)
  BY DEF EngineInv
<1>2. poll_mode => ~Timeouts
  BY <1>1 DEF Orderly, CoreInv, TypeOK
<1>3. ASSUME NEW r \in Requests, Submitter(r) \/ WaitTimedOut(r) \/ TransferRefused(r)
      PROVE  CoreInv'
  <2>1. CASE SubmitSync(r) \/ SubmitNowait(r)
    BY <1>1, <2>1, CoreSubmit
  <2>2. CASE TransferInit(r)
    BY <1>1, <2>2, CoreTransferInit
  <2>3. CASE TransferQueue(r)
    BY <1>1, <2>3, CoreTransferQueue
  <2>4. CASE Wakeup(r)
    BY <1>1, <2>4, ThreadTyped, CoreThread
  <2>5. CASE WaitCompleted(r) \/ WaitFailed(r)
    BY <1>1, <2>5, CoreWaitOver
  <2>6. CASE WaitTimedOut(r)
    <3>1. AsyncReqs = {}
      BY <2>6 DEF WaitTimedOut, Orderly
    <3> QED
      BY <1>1, <2>6, <3>1, CoreWaitTimedOut
  <2>7. CASE TransferRefused(r)
    <3>1. r \notin AsyncReqs
      BY <2>7 DEF TransferRefused, Orderly
    <3> QED
      BY <1>1, <2>7, <3>1, CoreTransferRefused
  <2> QED
    BY <1>3, <2>1, <2>2, <2>3, <2>4, <2>5, <2>6, <2>7 DEF Submitter
<1>4. CASE Irq \/ BottomHalf
  <2>1. CASE Irq
    BY <1>1, <2>1, CoreIrq
  <2>2. CASE ServiceIdle
    BY <1>1, <2>2, CoreServiceIdle
  <2>3. CASE ServiceStatus
    <3>1. CASE ~Timeouts
      <4>1. ~hw.busy
        BY <1>1, <2>3, <3>1 DEF ExactInv, PollInv, IrqInv, ServiceStatus
      <4> QED
        BY <1>1, <2>3, <4>1, CoreServiceStatus
    <3>2. CASE AsyncReqs = {}
      <4>1. Len(eng.transfer_list) \in {0, 1}
        BY <1>1, <3>2, LockQueue
      <4>2. Active
        BY <2>3 DEF ServiceStatus, Active
      <4>3. Len(eng.transfer_list) = 1
        BY <1>1, <4>1, <4>2, ActiveHead
      <4> QED
        BY <1>1, <2>3, <4>3, CoreServiceStatus
    <3> QED
      BY <3>1, <3>2 DEF Orderly
  <2>4. CASE ServiceNothing
    BY <1>1, <2>4, CoreServiceNothing
  <2>5. CASE ServiceTransfers
    BY <1>1, <2>5, ServiceTakes
  <2> QED
    BY <1>4, <2>1, <2>2, <2>3, <2>4, <2>5 DEF BottomHalf
<1>5. CASE CompletionThread \/ PollGivesUp
  <2>1. CASE PollService
    <3>1. poll_mode
      BY <1>1, <2>1 DEF ThreadInv, PollService
    <3>2. PollInv /\ StatusInv
      BY <1>1, <1>2, <3>1 DEF ExactInv
    <3> QED
      BY <1>1, <2>1, <3>2, PollServiceTakes
  <2>2. CASE ~PollService
    BY <1>1, <1>5, <2>2, ThreadTyped, CoreThread DEF CompletionThread
  <2> QED
    BY <2>1, <2>2
<1>6. CASE HwMove \/ HwError
  BY <1>1, <1>6, CoreDevice
<1>7. CASE AllOver \/ UNCHANGED engineVars
  <2>1. /\ UNCHANGED <<pc, tfer, desc_lock, eng, work, irq_on, hw, poll_mode, wb, thread>>
    BY <1>7 DEF AllOver, engineVars, pollVars
  <2> QED
    BY <1>1, <2>1, CoreThread DEF CoreInv, TypeOK
<1> QED
  BY <1>3, <1>4, <1>5, <1>6, <1>7 DEF Next
-----------------------------------------------------------------------------
(***************************************************************************)
(* Without timeouts: the status bits and the word in memory are exact.     *)
(***************************************************************************)
LEMMA FailedKept ==
  ASSUME FailedInv, NEW r, NEW k, NEW x, Changes(r, k, x), x.state = "FAILED" => x.erred
  PROVE  FailedInv'
BY DEF FailedInv, Changes

\* Steps that leave the device, the bottom half and the thread's place alone.
LEMMA ExactFrame ==
  ASSUME CoreInv, ExactInv, FailedInv', UNCHANGED <<work, hw, poll_mode, wb>>,
         eng'.running = eng.running, eng'.error = eng.error,
         thread'.pc = thread.pc, thread'.desc_wb = thread.desc_wb,
         Active => /\ Xfer(hw.xfer)'.erred = Xfer(hw.xfer).erred
                   /\ Xfer(hw.xfer)'.desc_num = Xfer(hw.xfer).desc_num
  PROVE  ExactInv'
<1>1. StatusInv'
  BY DEF ExactInv, StatusInv, Active
<1>2. poll_mode => PollInv'
  BY DEF ExactInv, PollInv
<1>3. ~poll_mode => IrqInv'
  BY DEF ExactInv, IrqInv, Active
<1> QED
  BY <1>1, <1>2, <1>3 DEF ExactInv

LEMMA ExactSubmitter ==
  ASSUME CoreInv, ExactInv, NEW r \in Requests, Submitter(r)
  PROVE  ExactInv'
<1>1. CASE \/ SubmitSync(r) \/ SubmitNowait(r) \/ WaitCompleted(r) \/ WaitFailed(r)
  <2>1. UNCHANGED <<tfer, eng, work, irq_on, hw, poll_mode, wb, thread>>
    BY <1>1 DEF SubmitSync, SubmitNowait, WaitCompleted, WaitFailed, pollVars
  <2>2. FailedInv' /\ Xfer(hw.xfer)' = Xfer(hw.xfer)
    BY <2>1 DEF ExactInv, FailedInv, Xfer
  <2> QED
    BY <2>1, <2>2, ExactFrame
<1>2. CASE Wakeup(r)
  <2>1. /\ UNCHANGED <<tfer, eng, work, irq_on, hw, poll_mode, wb>>
        /\ thread'.pc = thread.pc /\ thread'.desc_wb = thread.desc_wb
    BY <1>2 DEF Wakeup, CoreInv, TypeOK, ThreadRecord
  <2>2. FailedInv' /\ Xfer(hw.xfer)' = Xfer(hw.xfer)
    BY <2>1 DEF ExactInv, FailedInv, Xfer
  <2> QED
    BY <2>1, <2>2, ExactFrame
<1>3. CASE TransferInit(r)
  <2>1. Grows(r)
    BY <1>3, CoreTransferInit
  <2>2. /\ UNCHANGED <<work, hw, poll_mode, wb, thread>>
        /\ eng'.running = eng.running /\ eng'.error = eng.error
    BY <1>3 DEF TransferInit, pollVars, CoreInv, TypeOK, EngineRecord
  <2>3. \A q \in Requests : \A k \in 1 .. Len(tfer[q]) : tfer'[q][k] = tfer[q][k]
    BY <2>1 DEF Grows
  <2>4. FailedInv'
    <3> SUFFICES ASSUME NEW q \in Requests, NEW k \in 1 .. Len(tfer'[q]),
                        tfer'[q][k].state = "FAILED"
                 PROVE  tfer'[q][k].erred
      BY DEF FailedInv
    <3>1. Len(tfer[q]) \in Nat /\ Len(tfer[r]) \in Nat
      BY XferTyped DEF CoreInv
    <3>2. k \in 1 .. Len(tfer[q])
      BY <2>1, <3>1 DEF Grows
    <3> QED
      BY <2>3, <3>2 DEF ExactInv, FailedInv
  <2>5. Active => Xfer(hw.xfer)' = Xfer(hw.xfer)
    BY <2>2, <2>3, ActiveHead DEF Xfer
  <2> QED
    BY <2>2, <2>4, <2>5, ExactFrame
<1>4. CASE TransferQueue(r)
  <2> DEFINE L == Len(tfer[r])
             x == [tfer[r][L] EXCEPT !.state = "SUBMITTED"]
  <2>1. /\ CoreInv' /\ L \in 1 .. Len(tfer[r]) /\ tfer[r][L].state = "INIT"
        /\ Changes(r, L, x)
    BY <1>4, CoreTransferQueue
  <2>2. x.state = "SUBMITTED"
    BY <2>1, XferTyped DEF CoreInv, XferRecord
  <2>3. FailedInv'
    <3> HIDE DEF x, L
    <3> QED
      BY <2>1, <2>2, FailedKept DEF ExactInv
  <2>4. thread'.pc = thread.pc /\ thread'.desc_wb = thread.desc_wb
    BY <1>4 DEF TransferQueue, CoreInv, TypeOK, ThreadRecord
  <2>5. UNCHANGED <<work, poll_mode, wb>> /\ LockFree
    BY <1>4 DEF TransferQueue
  <2>6. CASE eng.running
    <3>1. /\ UNCHANGED hw /\ eng'.running = eng.running /\ eng'.error = eng.error
      BY <1>4, <2>6 DEF TransferQueue, CoreInv, TypeOK, EngineRecord
    <3>2. /\ hw.xfer[1] \in Requests /\ hw.xfer[2] \in 1 .. Len(tfer[hw.xfer[1]])
          /\ Xfer(hw.xfer) = tfer[hw.xfer[1]][hw.xfer[2]]
          /\ Xfer(hw.xfer).state = "SUBMITTED"
      BY <2>6, ActiveHead DEF Active
    <3>3. ~(hw.xfer[1] = r /\ hw.xfer[2] = L)
      BY <2>1, <3>2
    <3>4. Xfer(hw.xfer)' = Xfer(hw.xfer)
      BY <2>1, <3>1, <3>2, <3>3 DEF Changes, Xfer
    <3> QED
      BY <2>3, <2>4, <2>5, <3>1, <3>4, ExactFrame
  <2>7. CASE ~eng.running
    <3>1. ~hw.error /\ wb = wb'
      BY <2>5, <2>7 DEF ExactInv, StatusInv
    <3>2. /\ eng'.running /\ eng'.error = hw.error /\ hw'.busy
          /\ hw'.error = hw.error /\ hw'.event = hw.event
      BY <1>4, <2>7
         DEF TransferQueue, StartedEngine, StartedHw, CoreInv, TypeOK, EngineRecord, HwRecord
    <3>3. StatusInv'
      BY <3>1, <3>2 DEF StatusInv
    <3>4. poll_mode => PollInv'
      BY <2>4, <2>5, <2>7 DEF ExactInv, PollInv
    <3>5. ~poll_mode => IrqInv'
      BY <2>4, <2>5, <2>7, <3>2 DEF ExactInv, IrqInv, LockFree
    <3> QED
      BY <2>3, <2>5, <3>3, <3>4, <3>5 DEF ExactInv
  <2> QED
    BY <2>6, <2>7
<1> QED
  BY <1>1, <1>2, <1>3, <1>4 DEF Submitter

LEMMA ExactBottomHalf ==
  ASSUME CoreInv, ExactInv, Irq \/ BottomHalf
  PROVE  ExactInv'
<1>1. StatusInv /\ FailedInv /\ (poll_mode => work = "idle") /\ UNCHANGED pollVars
  BY DEF ExactInv, PollInv, Irq, BottomHalf, ServiceIdle, ServiceStatus, ServiceNothing,
         ServiceTransfers, TakeCompleted
<1>2. ~poll_mode /\ IrqInv /\ UNCHANGED <<poll_mode, wb, thread>>
  BY <1>1 DEF ExactInv, Irq, BottomHalf, ServiceIdle, ServiceStatus, ServiceNothing,
              ServiceTransfers, pollVars
<1>3. CASE Irq
  <2>1. work = "idle" /\ hw.event /\ work' = "pending" /\ UNCHANGED <<tfer, eng, hw>>
    BY <1>3 DEF Irq, CoreInv, HeadInv
  <2>2. FailedInv' /\ StatusInv'
    BY <1>1, <2>1 DEF FailedInv, StatusInv, Xfer
  <2>3. IrqInv'
    BY <1>2, <2>1 DEF IrqInv
  <2> QED
    BY <1>2, <2>2, <2>3 DEF ExactInv
<1>4. CASE ServiceIdle
  BY <1>2, <1>4 DEF ServiceIdle, IrqInv
<1>5. CASE ServiceStatus
  <2>1. eng.running /\ ~hw.busy /\ work' = "servicing" /\ UNCHANGED tfer
    BY <1>2, <1>5 DEF ServiceStatus, IrqInv
  <2>2. /\ ~eng'.running /\ eng'.error = hw.error /\ ~hw'.busy /\ ~hw'.event /\ ~hw'.error
        /\ hw'.xfer = hw.xfer /\ hw'.count = hw.count
    BY <1>5, <2>1 DEF ServiceStatus, CoreInv, TypeOK, EngineRecord, HwRecord
  <2>3. FailedInv' /\ StatusInv'
    BY <1>1, <2>1, <2>2 DEF FailedInv, StatusInv
  <2>4. Xfer(hw.xfer)' = Xfer(hw.xfer)
    BY <2>1, <2>2 DEF Xfer
  <2>5. IF eng'.error THEN Xfer(hw.xfer)'.erred
                      ELSE hw'.count = Xfer(hw.xfer)'.desc_num
    BY <1>1, <2>1, <2>2, <2>4 DEF StatusInv
  <2>6. IrqInv'
    BY <1>2, <2>1, <2>2, <2>5 DEF IrqInv
  <2> QED
    BY <1>2, <2>3, <2>6 DEF ExactInv
<1>6. CASE ServiceNothing
  <2>1. work' = "idle" /\ UNCHANGED <<tfer, eng, hw>>
    BY <1>6 DEF ServiceNothing
  <2>2. FailedInv' /\ StatusInv'
    BY <1>1, <2>1 DEF FailedInv, StatusInv, Xfer
  <2>3. IrqInv'
    BY <1>2, <2>1 DEF IrqInv
  <2> QED
    BY <1>2, <2>2, <2>3 DEF ExactInv
<1>7. CASE ServiceTransfers
  <2>1. /\ Active /\ TakesHead(eng, hw, hw.count) /\ Restarted(eng, hw)
    BY <1>7, ServiceTakes
  <2>2. /\ ~eng.running /\ ~hw.error /\ ~hw.event /\ hw.xfer = Head(eng.transfer_list)
        /\ IF eng.error THEN Xfer(hw.xfer).erred ELSE hw.count = Xfer(hw.xfer).desc_num
    BY <1>1, <1>2, <1>7, <2>1 DEF ServiceTransfers, StatusInv, IrqInv, CoreInv, HeadInv
  <2>3. FailedInv'
    <3> DEFINE x == [Xfer(hw.xfer) EXCEPT !.state = HeadVerdict(eng, hw.count)]
    <3>1. Changes(hw.xfer[1], hw.xfer[2], x)
      BY <2>1, <2>2 DEF TakesHead
    <3>2. /\ Xfer(hw.xfer) \in XferRecord /\ Xfer(hw.xfer).desc_num \in Nat
          /\ hw.count \in Nat
      BY <2>1, ActiveHead, EngineAssumption DEF CoreInv, TypeOK, HwRecord
    <3>3. x.state = HeadVerdict(eng, hw.count) /\ x.erred = Xfer(hw.xfer).erred
      BY <3>2 DEF XferRecord
    <3>4. HeadVerdict(eng, hw.count) = "FAILED" => Xfer(hw.xfer).erred
      BY <2>2, <3>2 DEF HeadVerdict
    <3> HIDE DEF x
    <3> QED
      BY <1>1, <3>1, <3>3, <3>4, FailedKept
  <2>4. StatusInv'
    BY <2>1, <2>2 DEF StatusInv, Restarted
  <2>5. IrqInv'
    BY <1>2, <1>7, <2>1, <2>2 DEF IrqInv, Restarted, ServiceTransfers
  <2> QED
    BY <1>2, <2>3, <2>4, <2>5 DEF ExactInv
<1> QED
  BY <1>3, <1>4, <1>5, <1>6, <1>7 DEF BottomHalf

LEMMA ExactThread ==
  ASSUME CoreInv, ExactInv, ThreadInv, CompletionThread \/ PollGivesUp
  PROVE  ExactInv'
<1>1. poll_mode /\ PollInv /\ StatusInv /\ FailedInv
  BY DEF ExactInv, ThreadInv, CompletionThread, PollGivesUp, ThreadCheck, ThreadWakes,
         ThreadProc, PollRead, PollClear, PollService
<1>2. CASE ~PollService
  <2>1. UNCHANGED <<pc, tfer, desc_lock, eng, work, irq_on, hw, poll_mode>>
    BY <1>2, ThreadTyped DEF CompletionThread
  <2>2. FailedInv' /\ StatusInv'
    BY <1>1, <2>1 DEF FailedInv, StatusInv, Xfer
  <2>3. PollInv'
    <3> USE DEF CoreInv, TypeOK, ThreadRecord
    <3>1. CASE ThreadCheck \/ ThreadWakes
      <4>1. thread'.pc \in {"proc", "sleep"} /\ wb' = wb
        BY <3>1 DEF ThreadCheck, ThreadWakes
      <4> QED
        BY <1>1, <2>1, <4>1 DEF PollInv
    <3>2. CASE ThreadProc
      <4>1. thread'.pc \in {"check", "poll"} /\ wb' = wb
        BY <3>2 DEF ThreadProc
      <4> QED
        BY <1>1, <2>1, <4>1 DEF PollInv
    <3>3. CASE PollGivesUp
      <4>1. thread'.pc = "check" /\ wb' = wb
        BY <3>3 DEF PollGivesUp, ThreadMoves
      <4> QED
        BY <1>1, <2>1, <4>1 DEF PollInv
    <3>4. CASE PollRead
      <4>1. thread'.pc = "clear" /\ thread'.desc_wb = wb /\ wb # NoWb /\ wb' = wb
        BY <3>4 DEF PollRead
      <4> QED
        BY <1>1, <2>1, <4>1 DEF PollInv
    <3>5. CASE PollClear
      <4>1. thread.pc = "clear" /\ wb' = NoWb
        BY <3>5 DEF PollClear
      <4>2. thread'.pc \in {"service", "poll"} /\ thread'.desc_wb = thread.desc_wb
        BY <3>5 DEF PollClear, ThreadMoves
      <4> QED
        BY <1>1, <2>1, <4>1, <4>2 DEF PollInv
    <3> QED
      BY <1>2, <3>1, <3>2, <3>3, <3>4, <3>5 DEF CompletionThread
  <2> QED
    BY <1>1, <2>1, <2>2, <2>3 DEF ExactInv
<1>3. CASE PollService
  <2>1. /\ eng.running /\ ~hw.busy /\ wb = NoWb /\ work = "idle" /\ Active
    BY <1>1, <1>3 DEF PollService, PollInv, Active
  <2>2. /\ UNCHANGED <<work, poll_mode, wb>> /\ thread'.pc = "check"
    BY <1>3 DEF PollService, ThreadMoves, CoreInv, TypeOK, ThreadRecord
  <2>3. CASE /\ UNCHANGED <<tfer, pc>> /\ hw.count = 0 /\ hw.error
             /\ ~eng'.running /\ ~hw'.busy /\ ~hw'.error
             /\ eng'.transfer_list = eng.transfer_list
    <3>1. FailedInv' /\ StatusInv' /\ PollInv'
      BY <1>1, <2>1, <2>2, <2>3 DEF FailedInv, StatusInv, PollInv
    <3> QED
      BY <1>1, <2>2, <3>1 DEF ExactInv
  <2>4. ASSUME NEW e \in EngineRecord, NEW h \in HwRecord, e.error = hw.error, ~h.error,
               TakesHead(e, h, hw.count), Restarted(e, h)
        PROVE  ExactInv'
    <3> DEFINE x == [Xfer(hw.xfer) EXCEPT !.state = HeadVerdict(e, hw.count)]
    <3>1. Changes(hw.xfer[1], hw.xfer[2], x) /\ hw.xfer = Head(eng.transfer_list)
      BY <2>1, <2>4 DEF TakesHead, CoreInv, HeadInv
    <3>2. /\ Xfer(hw.xfer) \in XferRecord /\ Xfer(hw.xfer).desc_num \in Nat
          /\ hw.count \in Nat
      BY <2>1, ActiveHead, EngineAssumption DEF CoreInv, TypeOK, HwRecord
    <3>3. x.state = HeadVerdict(e, hw.count) /\ x.erred = Xfer(hw.xfer).erred
      BY <3>2 DEF XferRecord
    <3>4. HeadVerdict(e, hw.count) = "FAILED" => Xfer(hw.xfer).erred
      BY <1>1, <2>1, <2>4, <3>1, <3>2 DEF HeadVerdict, StatusInv
    <3> HIDE DEF x
    <3>5. FailedInv'
      BY <1>1, <3>1, <3>3, <3>4, FailedKept
    <3>6. StatusInv' /\ PollInv'
      BY <2>1, <2>2, <2>4 DEF StatusInv, PollInv, Restarted
    <3> QED
      BY <1>1, <2>2, <3>5, <3>6 DEF ExactInv
  <2> QED
    BY <1>1, <1>3, <2>3, <2>4, PollServiceTakes
<1> QED
  BY <1>2, <1>3

LEMMA ExactDevice ==
  ASSUME CoreInv, ExactInv, HwMove \/ HwError
  PROVE  ExactInv'
<1> DEFINE x == IF HwMove THEN [Xfer(hw.xfer) EXCEPT !.moved = @ + 1]
                          ELSE [Xfer(hw.xfer) EXCEPT !.erred = TRUE]
<1>1. CoreInv' /\ Changes(hw.xfer[1], hw.xfer[2], x)
  BY CoreDevice
<1>2. hw.busy /\ eng.running /\ Active /\ StatusInv /\ FailedInv /\ ~hw.error /\ ~eng.error
  BY DEF HwMove, HwError, CoreInv, HeadInv, Active, ExactInv, StatusInv
<1>3. /\ hw.xfer[1] \in Requests /\ hw.xfer[2] \in 1 .. Len(tfer[hw.xfer[1]])
      /\ Xfer(hw.xfer) \in XferRecord /\ Xfer(hw.xfer).state = "SUBMITTED"
  BY <1>2, ActiveHead
<1>4. /\ x.state = "SUBMITTED" /\ x.desc_num = Xfer(hw.xfer).desc_num
      /\ ~HwMove => x.erred
  <2>1. CASE HwMove
    BY <1>3, <2>1 DEF XferRecord
  <2>2. CASE ~HwMove
    BY <1>3, <2>2 DEF XferRecord
  <2> QED
    BY <2>1, <2>2
<1> HIDE DEF x
<1>5. FailedInv'
  BY <1>1, <1>2, <1>4, FailedKept
<1>6. UNCHANGED <<eng, work, poll_mode, thread>> /\ hw'.xfer = hw.xfer
  BY DEF HwMove, HwError, CoreInv, TypeOK, HwRecord
<1>7. Xfer(hw.xfer)' = x
  BY <1>1, <1>3, <1>6 DEF Changes, Xfer
<1>8. CASE HwMove
  <2>1. /\ hw'.count = hw.count + 1 /\ hw'.error = hw.error
        /\ hw'.busy = (hw'.count # Xfer(hw.xfer).desc_num)
        /\ hw'.event = (hw.event \/ ~hw'.busy)
        /\ wb' = IF poll_mode /\ ~hw'.busy THEN [count |-> hw'.count, err |-> FALSE] ELSE wb
    BY <1>8 DEF HwMove, CoreInv, TypeOK, HwRecord
  <2>2. StatusInv'
    BY <1>2, <1>4, <1>6, <1>7, <2>1 DEF StatusInv
  <2>3. poll_mode => PollInv'
    <3>1. hw.error = FALSE
      BY <1>2 DEF CoreInv, TypeOK, HwRecord
    <3> QED
      BY <1>2, <1>6, <2>1, <3>1 DEF PollInv, ExactInv
  <2>4. ~poll_mode => IrqInv'
    BY <1>2, <1>6, <2>1 DEF IrqInv, ExactInv
  <2> QED
    BY <1>5, <1>6, <2>2, <2>3, <2>4 DEF ExactInv
<1>9. CASE ~HwMove
  <2>1. /\ hw'.count = hw.count /\ hw'.error /\ ~hw'.busy /\ hw'.event
        /\ wb' = IF poll_mode THEN [count |-> hw'.count, err |-> TRUE] ELSE wb
    BY <1>9 DEF HwError, CoreInv, TypeOK, HwRecord
  <2>2. StatusInv'
    BY <1>2, <1>4, <1>6, <1>7, <1>9, <2>1 DEF StatusInv
  <2>3. poll_mode => PollInv'
    BY <1>2, <1>6, <2>1 DEF PollInv, ExactInv
  <2>4. ~poll_mode => IrqInv'
    BY <1>2, <1>6, <2>1 DEF IrqInv, ExactInv
  <2> QED
    BY <1>5, <1>6, <2>2, <2>3, <2>4 DEF ExactInv
<1> QED
  BY <1>8, <1>9

LEMMA ExactStep ==
  ASSUME EngineInv, Orderly, ~Timeouts, [Next]_engineVars
  PROVE  ExactInv'
<1>1. CoreInv /\ ThreadInv /\ ExactInv
  BY DEF EngineInv
<1>2. ASSUME NEW r \in Requests, Submitter(r) \/ WaitTimedOut(r) \/ TransferRefused(r)
      PROVE  ExactInv'
  <2>1. CASE TransferRefused(r)
    <3>1. r \notin AsyncReqs
      BY <2>1 DEF TransferRefused, Orderly
    <3> DEFINE x == [tfer[r][Len(tfer[r])] EXCEPT !.state = "ABORTED"]
    <3>2. /\ Len(tfer[r]) \in 1 .. Len(tfer[r]) /\ Changes(r, Len(tfer[r]), x)
          /\ UNCHANGED <<eng, work, irq_on, hw, poll_mode, wb, thread>>
          /\ Active => Xfer(hw.xfer)' = Xfer(hw.xfer)
      BY <1>1, <2>1, <3>1, CoreTransferRefused
    <3>3. x.state = "ABORTED"
      BY <1>1, <3>2, XferTyped DEF CoreInv, XferRecord
    <3> HIDE DEF x
    <3>4. FailedInv'
      BY <1>1, <3>2, <3>3, FailedKept DEF ExactInv
    <3> QED
      BY <1>1, <3>2, <3>4, ExactFrame
  <2>2. CASE ~TransferRefused(r)
    BY <1>1, <1>2, <2>2, ExactSubmitter DEF WaitTimedOut
  <2> QED
    BY <2>1, <2>2
<1>3. CASE Irq \/ BottomHalf
  BY <1>1, <1>3, ExactBottomHalf
<1>4. CASE CompletionThread \/ PollGivesUp
  BY <1>1, <1>4, ExactThread
<1>5. CASE HwMove \/ HwError
  BY <1>1, <1>5, ExactDevice
<1>6. CASE AllOver \/ UNCHANGED engineVars
  <2>1. /\ UNCHANGED <<pc, tfer, desc_lock, eng, work, irq_on, hw, poll_mode, wb, thread>>
    BY <1>6 DEF AllOver, engineVars, pollVars
  <2>2. FailedInv' /\ Xfer(hw.xfer)' = Xfer(hw.xfer)
    BY <1>1, <2>1 DEF ExactInv, FailedInv, Xfer
  <2> QED
    BY <1>1, <2>1, <2>2, ExactFrame
<1> QED
  BY <1>2, <1>3, <1>4, <1>5, <1>6 DEF Next
-----------------------------------------------------------------------------
(***************************************************************************)
(* Synchronous requests only: one unfinished transfer at a time.           *)
(***************************************************************************)
LEMMA LockKept ==
  ASSUME LockInv, UNCHANGED <<pc, desc_lock>>, NEW r \in Requests,
         NEW k \in 1 .. Len(tfer[r]), NEW x, Changes(r, k, x),
         x.state \in {"INIT", "SUBMITTED"} => Unfinished(r, k)
  PROVE  LockInv'
<1> SUFFICES ASSUME NEW q \in Requests
             PROVE  /\ pc'[q] \in {"build", "queue", "wait"} <=> desc_lock' = q
                    /\ \A j \in 1 .. Len(tfer'[q]) : (Unfinished(q, j))' =>
                         desc_lock' = q /\ pc'[q] # "build" /\ j = Len(tfer'[q])
  BY DEF LockInv
<1>1. pc'[q] \in {"build", "queue", "wait"} <=> desc_lock' = q
  BY DEF LockInv
<1>2. ASSUME NEW j \in 1 .. Len(tfer'[q]), (Unfinished(q, j))'
      PROVE  desc_lock' = q /\ pc'[q] # "build" /\ j = Len(tfer'[q])
  <2>1. j \in 1 .. Len(tfer[q]) /\ Len(tfer'[q]) = Len(tfer[q])
    BY DEF Changes
  <2>2. Unfinished(q, j)
    <3>1. CASE q = r /\ j = k
      BY <1>2, <2>1, <3>1 DEF Changes, Unfinished
    <3>2. CASE ~(q = r /\ j = k)
      BY <1>2, <2>1, <3>2 DEF Changes, Unfinished
    <3> QED
      BY <3>1, <3>2
  <2> QED
    BY <2>1, <2>2 DEF LockInv
<1> QED
  BY <1>1, <1>2

LEMMA LockTakes ==
  ASSUME CoreInv, LockInv, AsyncReqs = {}, Active, UNCHANGED desc_lock,
         NEW e, NEW h, NEW count, TakesHead(e, h, count)
  PROVE  LockInv'
<1> DEFINE x == [Xfer(hw.xfer) EXCEPT !.state = HeadVerdict(e, count)]
<1>1. /\ hw.xfer[1] \in Requests /\ hw.xfer[2] \in 1 .. Len(tfer[hw.xfer[1]])
      /\ Xfer(hw.xfer) \in XferRecord /\ hw.xfer = Head(eng.transfer_list)
  BY ActiveHead DEF CoreInv, HeadInv
<1>2. Changes(hw.xfer[1], hw.xfer[2], x) /\ UNCHANGED pc
  BY <1>1 DEF TakesHead, CoreInv, TypeOK
<1>3. x.state \in {"FAILED", "COMPLETED"}
  BY <1>1 DEF XferRecord, HeadVerdict
<1> HIDE DEF x
<1> QED
  BY <1>1, <1>2, <1>3, LockKept

LEMMA LockSubmitter ==
  ASSUME CoreInv, LockInv, AsyncReqs = {}, NEW r \in Requests,
         Submitter(r) \/ WaitTimedOut(r) \/ TransferRefused(r)
  PROVE  LockInv'
<1>1. None \notin Requests /\ pc \in [Requests -> Waiting \cup Over] /\ Len(tfer[r]) \in Nat
  BY EngineAssumption, XferTyped DEF CoreInv, TypeOK
<1>2. CASE SubmitSync(r)
  <2>1. desc_lock = None /\ desc_lock' = r /\ pc' = [pc EXCEPT ![r] = "build"] /\ UNCHANGED tfer
    BY <1>2 DEF SubmitSync
  <2>2. \A q \in Requests : \A k \in 1 .. Len(tfer[q]) : ~Unfinished(q, k)
    BY <1>1, <2>1 DEF LockInv
  <2>3. \A q \in Requests : pc'[q] \in {"build", "queue", "wait"} <=> desc_lock' = q
    BY <1>1, <2>1 DEF LockInv
  <2> QED
    BY <2>1, <2>2, <2>3 DEF LockInv, Unfinished
<1>3. CASE SubmitNowait(r)
  BY <1>3 DEF SubmitNowait
<1>4. CASE TransferInit(r)
  <2>1. Grows(r) /\ CoreInv'
    BY <1>4, CoreTransferInit
  <2>2. pc[r] = "build" /\ pc' = [pc EXCEPT ![r] = "queue"] /\ desc_lock' = desc_lock
    BY <1>4 DEF TransferInit
  <2>3. desc_lock = r
    BY <2>2 DEF LockInv
  <2>4. \A q \in Requests : pc'[q] \in {"build", "queue", "wait"} <=> desc_lock' = q
    BY <1>1, <2>2, <2>3 DEF LockInv
  <2>5. \A q \in Requests : \A k \in 1 .. Len(tfer[q]) : ~Unfinished(q, k)
    BY <2>2, <2>3 DEF LockInv
  <2>6. ASSUME NEW q \in Requests, NEW k \in 1 .. Len(tfer'[q]), (Unfinished(q, k))'
        PROVE  desc_lock' = q /\ pc'[q] # "build" /\ k = Len(tfer'[q])
    <3>1. q = r
      BY <2>1, <2>5, <2>6 DEF Grows, Unfinished
    <3>2. ~(k \in 1 .. Len(tfer[r]))
      BY <2>1, <2>5, <2>6, <3>1 DEF Grows, Unfinished
    <3>3. k = Len(tfer[r]) + 1 /\ Len(tfer'[r]) = Len(tfer[r]) + 1
      BY <1>1, <2>1, <3>1, <3>2 DEF Grows
    <3> QED
      BY <1>1, <2>2, <2>3, <3>1, <3>3
  <2> QED
    BY <2>4, <2>6 DEF LockInv
<1>5. CASE TransferQueue(r)
  <2> DEFINE L == Len(tfer[r])
             x == [tfer[r][L] EXCEPT !.state = "SUBMITTED"]
  <2>1. L \in 1 .. Len(tfer[r]) /\ tfer[r][L].state = "INIT" /\ Changes(r, L, x)
    BY <1>5, CoreTransferQueue
  <2>2. /\ pc[r] = "queue" /\ pc' = [pc EXCEPT ![r] = "wait"] /\ desc_lock' = desc_lock
    BY <1>5 DEF TransferQueue
  <2>3. desc_lock = r
    BY <2>2 DEF LockInv
  <2>4. \A q \in Requests : pc'[q] \in {"build", "queue", "wait"} <=> desc_lock' = q
    BY <1>1, <2>2, <2>3 DEF LockInv
  <2>5. ASSUME NEW q \in Requests, NEW k \in 1 .. Len(tfer'[q]), (Unfinished(q, k))'
        PROVE  desc_lock' = q /\ pc'[q] # "build" /\ k = Len(tfer'[q])
    <3>1. k \in 1 .. Len(tfer[q]) /\ Len(tfer'[q]) = Len(tfer[q])
      BY <2>1 DEF Changes
    <3>2. Unfinished(q, k)
      <4>1. CASE q = r /\ k = L
        BY <2>1, <4>1 DEF Unfinished
      <4>2. CASE ~(q = r /\ k = L)
        BY <2>1, <2>5, <3>1, <4>2 DEF Changes, Unfinished
      <4> QED
        BY <4>1, <4>2
    <3> QED
      BY <1>1, <2>2, <2>3, <3>1, <3>2 DEF LockInv
  <2> QED
    BY <2>4, <2>5 DEF LockInv
<1>6. CASE Wakeup(r)
  BY <1>6 DEF Wakeup, LockInv, Unfinished
<1>7. CASE WaitCompleted(r) \/ WaitFailed(r)
  <2>1. PICK to \in {"done", "failed", "build"} : pc' = [pc EXCEPT ![r] = to]
          /\ desc_lock' = IF to \in Over THEN None ELSE desc_lock
    BY <1>7 DEF WaitCompleted, WaitFailed, Proceed
  <2>2. UNCHANGED tfer /\ pc[r] = "wait" /\ tfer[r][Len(tfer[r])].state \in {"COMPLETED", "FAILED"}
    BY <1>7 DEF WaitCompleted, WaitFailed, Xfer, Current
  <2>3. desc_lock = r
    BY <2>2 DEF LockInv
  <2>4. \A q \in Requests : pc'[q] \in {"build", "queue", "wait"} <=> desc_lock' = q
    BY <1>1, <2>1, <2>2, <2>3 DEF LockInv, Over
  <2>5. \A q \in Requests : \A k \in 1 .. Len(tfer[q]) : ~Unfinished(q, k)
    BY <2>2, <2>3 DEF LockInv, Unfinished
  <2> QED
    BY <2>2, <2>4, <2>5 DEF LockInv, Unfinished
<1>8. CASE WaitTimedOut(r) \/ TransferRefused(r)
  <2> DEFINE L == Len(tfer[r])
             x == [tfer[r][L] EXCEPT !.state = "ABORTED"]
  <2>1. /\ L \in 1 .. Len(tfer[r]) /\ desc_lock = r /\ desc_lock' = None /\ Changes(r, L, x)
    <3>1. CASE WaitTimedOut(r)
      BY <3>1, CoreWaitTimedOut
    <3>2. CASE TransferRefused(r)
      <4>1. desc_lock = r /\ desc_lock' = None
        BY <3>2 DEF TransferRefused, LockInv
      <4> QED
        BY <3>2, <4>1, CoreTransferRefused
    <3> QED
      BY <1>8, <3>1, <3>2
  <2>2. \E to \in {"timedout", "failed"} : pc' = [pc EXCEPT ![r] = to]
    BY <1>8 DEF WaitTimedOut, TransferRefused, Proceed
  <2>3. \A q \in Requests : pc'[q] \in {"build", "queue", "wait"} <=> desc_lock' = q
    BY <1>1, <2>1, <2>2 DEF LockInv
  <2>4. ASSUME NEW q \in Requests, NEW k \in 1 .. Len(tfer'[q])
        PROVE  ~(Unfinished(q, k))'
    <3>1. k \in 1 .. Len(tfer[q])
      BY <2>1 DEF Changes
    <3>2. CASE q = r /\ k = L
      <4>1. x.state = "ABORTED"
        BY <2>1, XferTyped DEF CoreInv, XferRecord
      <4> HIDE DEF x
      <4> QED
        BY <2>1, <3>1, <3>2, <4>1 DEF Changes, Unfinished
    <3>3. CASE ~(q = r /\ k = L)
      <4>1. ~Unfinished(q, k)
        BY <2>1, <3>1, <3>3 DEF LockInv
      <4> QED
        BY <2>1, <3>1, <3>3, <4>1 DEF Changes, Unfinished
    <3> QED
      BY <3>2, <3>3
  <2> QED
    BY <2>3, <2>4 DEF LockInv
<1> QED
  BY <1>2, <1>3, <1>4, <1>5, <1>6, <1>7, <1>8 DEF Submitter

LEMMA LockStep ==
  ASSUME EngineInv, Orderly, AsyncReqs = {}, [Next]_engineVars
  PROVE  LockInv'
<1>1. CoreInv /\ ThreadInv /\ (~Timeouts => ExactInv) /\ LockInv
  BY DEF EngineInv
<1>2. ASSUME NEW r \in Requests, Submitter(r) \/ WaitTimedOut(r) \/ TransferRefused(r)
      PROVE  LockInv'
  BY <1>1, <1>2, LockSubmitter
<1>3. CASE UNCHANGED <<pc, tfer, desc_lock>>
  BY <1>1, <1>3 DEF LockInv, Unfinished
<1>4. CASE Irq \/ BottomHalf
  <2>1. CASE ServiceTransfers
    BY <1>1, <2>1, ServiceTakes, LockTakes DEF ServiceTransfers
  <2>2. CASE ~ServiceTransfers
    BY <1>3, <1>4, <2>2 DEF Irq, BottomHalf, ServiceIdle, ServiceStatus, ServiceNothing
  <2> QED
    BY <2>1, <2>2
<1>5. CASE CompletionThread \/ PollGivesUp
  <2>1. CASE PollService
    <3>1. poll_mode
      BY <1>1, <2>1 DEF ThreadInv, PollService
    <3>2. PollInv /\ StatusInv
      BY <1>1, <3>1 DEF ExactInv, Orderly, CoreInv, TypeOK
    <3>3. UNCHANGED desc_lock
      BY <2>1 DEF PollService
    <3>4. CASE UNCHANGED <<tfer, pc>>
      BY <1>3, <3>3, <3>4
    <3>5. CASE Active /\ \E e \in EngineRecord, h \in HwRecord : TakesHead(e, h, hw.count)
      BY <1>1, <3>3, <3>5, LockTakes
    <3> QED
      BY <1>1, <2>1, <3>2, <3>4, <3>5, PollServiceTakes
  <2>2. CASE ~PollService
    BY <1>1, <1>3, <1>5, <2>2, ThreadTyped DEF CompletionThread
  <2> QED
    BY <2>1, <2>2
<1>6. CASE HwMove \/ HwError
  <2> DEFINE x == IF HwMove THEN [Xfer(hw.xfer) EXCEPT !.moved = @ + 1]
                            ELSE [Xfer(hw.xfer) EXCEPT !.erred = TRUE]
  <2>1. Changes(hw.xfer[1], hw.xfer[2], x)
    BY <1>1, <1>6, CoreDevice
  <2>2. Active /\ UNCHANGED <<pc, desc_lock>>
    BY <1>1, <1>6 DEF HwMove, HwError, CoreInv, HeadInv, Active
  <2>3. /\ hw.xfer[1] \in Requests /\ hw.xfer[2] \in 1 .. Len(tfer[hw.xfer[1]])
        /\ Unfinished(hw.xfer[1], hw.xfer[2])
    BY <1>1, <2>2, ActiveHead DEF Unfinished
  <2> HIDE DEF x
  <2> QED
    BY <1>1, <2>1, <2>2, <2>3, LockKept
<1>7. CASE AllOver \/ UNCHANGED engineVars
  BY <1>3, <1>7 DEF AllOver, engineVars
<1> QED
  BY <1>2, <1>4, <1>5, <1>6, <1>7 DEF Next
-----------------------------------------------------------------------------
(***************************************************************************)
(* The invariant of orderly runs.                                          *)
(***************************************************************************)
LEMMA EngineInit == Init => EngineInv
<1> SUFFICES ASSUME Init PROVE EngineInv
  OBVIOUS
<1>1. CoreInv
  BY CoreInit
<1>2. ThreadInv
  BY DEF Init, ThreadInv
<1>3. ExactInv
  BY DEF Init, ExactInv, FailedInv, StatusInv, PollInv, IrqInv
<1>4. LockInv
  BY EngineAssumption DEF Init, LockInv
<1> QED
  BY <1>1, <1>2, <1>3, <1>4 DEF EngineInv

LEMMA ThreadStep ==
  ASSUME CoreInv, ThreadInv, [Next]_engineVars
  PROVE  ThreadInv'
<1>1. poll_mode' = poll_mode
  <2>1. ASSUME NEW r \in Requests, Submitter(r) \/ WaitTimedOut(r) \/ TransferRefused(r)
        PROVE  poll_mode' = poll_mode
    BY <2>1 DEF Submitter, SubmitSync, SubmitNowait, TransferInit, TransferQueue, Wakeup,
                WaitCompleted, WaitFailed, WaitTimedOut, TransferRefused, pollVars
  <2>2. CASE Irq \/ BottomHalf
    BY <2>2 DEF Irq, BottomHalf, ServiceIdle, ServiceStatus, ServiceNothing,
                ServiceTransfers, pollVars
  <2>3. CASE CompletionThread \/ PollGivesUp
    BY <2>3 DEF CompletionThread, PollGivesUp, ThreadCheck, ThreadWakes, ThreadProc,
                PollRead, PollClear, PollService, EngineUntouched
  <2>4. CASE HwMove \/ HwError \/ AllOver \/ UNCHANGED engineVars
    BY <2>4 DEF HwMove, HwError, AllOver, engineVars, pollVars
  <2> QED
    BY <2>1, <2>2, <2>3, <2>4 DEF Next
<1> SUFFICES ASSUME ~poll_mode, thread.pc = "check"
             PROVE  thread'.pc = "check"
  BY <1>1 DEF ThreadInv
<1>2. ASSUME NEW r \in Requests, Submitter(r) \/ WaitTimedOut(r) \/ TransferRefused(r)
      PROVE  thread'.pc = "check"
  BY <1>2 DEF Submitter, SubmitSync, SubmitNowait, TransferInit, TransferQueue, Wakeup,
              WaitCompleted, WaitFailed, WaitTimedOut, TransferRefused, pollVars, CoreInv, TypeOK, ThreadRecord
<1>3. CASE Irq \/ BottomHalf
  BY <1>3 DEF Irq, BottomHalf, ServiceIdle, ServiceStatus, ServiceNothing,
              ServiceTransfers, pollVars
<1>4. CASE CompletionThread \/ PollGivesUp
  BY <1>4 DEF CompletionThread, PollGivesUp, ThreadCheck, ThreadWakes, ThreadProc,
              PollRead, PollClear, PollService
<1>5. CASE HwMove \/ HwError \/ AllOver \/ UNCHANGED engineVars
  BY <1>5 DEF HwMove, HwError, AllOver, engineVars, pollVars
<1> QED
  BY <1>2, <1>3, <1>4, <1>5 DEF Next

LEMMA EngineStep ==
  ASSUME EngineInv, Orderly, [Next]_engineVars
  PROVE  EngineInv'
<1>1. CoreInv'
  BY CoreStep
<1>2. ThreadInv'
  BY ThreadStep DEF EngineInv
<1>3. ~Timeouts => ExactInv'
  BY ExactStep
<1>4. AsyncReqs = {} => LockInv'
  BY LockStep
<1> QED
  BY <1>1, <1>2, <1>3, <1>4 DEF EngineInv

LEMMA EngineInvariant == ASSUME Orderly PROVE Spec => []EngineInv
<1>1. Init => EngineInv
  BY EngineInit
<1>2. EngineInv /\ [Next]_engineVars => EngineInv'
  BY EngineStep
<1> QED
  BY <1>1, <1>2, PTL DEF Spec
-----------------------------------------------------------------------------
(***************************************************************************)
(* What the invariant says of the runs.                                    *)
(***************************************************************************)

\* A request that is done: its transfers, all of them moved in full, lie side
\* by side from its first descriptor to its last.
LEMMA DoneMoved ==
  ASSUME CoreInv
  PROVE  DoneMeansMoved
<1>1. ASSUME NEW t \in Transfers, Xfer(t).state = "COMPLETED"
      PROVE  Xfer(t).moved = Xfer(t).desc_num
  <2>0. PICK r \in Requests : t \in {<<r, k>> : k \in 1 .. Len(tfer[r])}
    BY DEF Transfers
  <2>1. PICK k \in 1 .. Len(tfer[r]) : t = <<r, k>>
    BY <2>0
  <2> QED
    BY <1>1, <2>1 DEF CoreInv, MovedInv, Xfer
<1>2. ASSUME NEW r \in Requests, pc[r] = "done"
      PROVE  /\ \A d \in 0 .. Size[r] - 1 : \E k \in 1 .. Len(tfer[r]) :
                  \A j \in 1 .. Len(tfer[r]) : d \in MovedDescs(<<r, j>>) <=> j = k
             /\ \A k \in 1 .. Len(tfer[r]) : MovedDescs(<<r, k>>) \subseteq 0 .. Size[r] - 1
  <2>1. /\ Built(r) = Size[r] /\ LayoutOf(r) /\ Size[r] \in Nat /\ Len(tfer[r]) \in Nat
        /\ \A k \in 1 .. Len(tfer[r]) : tfer[r][k].moved = tfer[r][k].desc_num
    BY <1>2, EngineAssumption, XferTyped
       DEF CoreInv, CallInv, CallOf, LayoutInv, MovedInv
  <2> DEFINE lo(k) == tfer[r][k].sw_desc_idx
             hi(k) == tfer[r][k].sw_desc_idx + tfer[r][k].desc_num
  <2>2. \A k \in 1 .. Len(tfer[r]) : MovedDescs(<<r, k>>) = lo(k) .. hi(k) - 1
    <3> SUFFICES ASSUME NEW k \in 1 .. Len(tfer[r])
                 PROVE  MovedDescs(<<r, k>>) = lo(k) .. hi(k) - 1
      OBVIOUS
    <3>1. Xfer(<<r, k>>) = tfer[r][k]
      BY DEF Xfer
    <3>2. Xfer(<<r, k>>).moved = tfer[r][k].desc_num
      BY <2>1, <3>1
    <3>3. hi(k) - 1 = tfer[r][k].sw_desc_idx + (tfer[r][k].desc_num - 1)
      BY XferTyped DEF CoreInv
    <3> QED
      BY <3>1, <3>2, <3>3, Zenon DEF MovedDescs
  <2>3. \A k \in 1 .. Len(tfer[r]) : lo(k) \in Nat /\ hi(k) \in Nat /\ hi(k) <= Size[r]
    <3>1. \A k \in 1 .. Len(tfer[r]) : lo(k) \in Nat /\ hi(k) \in Nat
      BY XferTyped DEF CoreInv
    <3> QED
      BY <2>1, <3>1 DEF LayoutOf
  <2>4. \A j, k \in 1 .. Len(tfer[r]) : j < k => hi(j) <= lo(k)
    <3> SUFFICES ASSUME NEW j \in 1 .. Len(tfer[r]), NEW k \in 1 .. Len(tfer[r]), j < k
                 PROVE  hi(j) <= lo(k)
      OBVIOUS
    <3>1. j \in 1 .. k - 1
      OBVIOUS
    <3> QED
      BY <2>1, <3>1 DEF LayoutOf
  <2>5. \A d \in 0 .. Size[r] - 1 : \E k \in 1 .. Len(tfer[r]) : d \in lo(k) .. hi(k) - 1
    <3>1. \A d \in 0 .. Built(r) - 1 : \E k \in 1 .. Len(tfer[r]) :
            d \in tfer[r][k].sw_desc_idx ..
                    tfer[r][k].sw_desc_idx + tfer[r][k].desc_num - 1
      BY <2>1, Zenon DEF LayoutOf
    <3>2. \A k \in 1 .. Len(tfer[r]) :
            hi(k) - 1 = tfer[r][k].sw_desc_idx + (tfer[r][k].desc_num - 1)
      BY XferTyped DEF CoreInv
    <3> QED
      BY <2>1, <3>1, <3>2, Zenon
  <2> HIDE DEF lo, hi
  <2>6. ASSUME NEW d \in 0 .. Size[r] - 1
        PROVE  \E k \in 1 .. Len(tfer[r]) :
                 \A j \in 1 .. Len(tfer[r]) : d \in MovedDescs(<<r, j>>) <=> j = k
    <3>1. PICK k \in 1 .. Len(tfer[r]) : d \in lo(k) .. hi(k) - 1
      BY <2>5
    <3>2. ASSUME NEW j \in 1 .. Len(tfer[r])
          PROVE  d \in lo(j) .. hi(j) - 1 <=> j = k
      <4>1. CASE j = k
        BY <3>1, <4>1
      <4>2. CASE j < k
        <5>1. hi(j) <= lo(k) /\ lo(k) \in Nat /\ hi(j) \in Nat /\ lo(j) \in Nat /\ hi(k) \in Nat
          BY <2>3, <2>4, <4>2
        <5> QED
          BY <3>1, <4>2, <5>1
      <4>3. CASE k < j
        <5>1. hi(k) <= lo(j) /\ lo(k) \in Nat /\ hi(j) \in Nat /\ lo(j) \in Nat /\ hi(k) \in Nat
          BY <2>3, <2>4, <4>3
        <5> QED
          BY <3>1, <4>3, <5>1
      <4>4. j < k \/ j = k \/ k < j
        BY <2>1
      <4> QED
        BY <4>1, <4>2, <4>3, <4>4
    <3>3. \A j \in 1 .. Len(tfer[r]) : d \in MovedDescs(<<r, j>>) <=> j = k
      BY <2>2, <3>2
    <3> QED
      BY <3>3
  <2>7. ASSUME NEW k \in 1 .. Len(tfer[r])
        PROVE  MovedDescs(<<r, k>>) \subseteq 0 .. Size[r] - 1
    BY <2>1, <2>2, <2>3
  <2> QED
    BY <2>6, <2>7
<1> QED
  BY <1>1, <1>2 DEF DoneMeansMoved

LEMMA NothingDangles ==
  ASSUME CoreInv
  PROVE  NoDanglingTransfer
<1>1. hw.busy => pc[hw.xfer[1]] \notin Over
  BY ActiveHead DEF CoreInv, HeadInv, Active
<1>2. \A i \in 1 .. Len(eng.transfer_list) : pc[eng.transfer_list[i][1]] \notin Over
  BY DEF CoreInv, QueueInv, QueueMembers
<1> QED
  BY <1>1, <1>2 DEF NoDanglingTransfer

LEMMA RingOwned ==
  ASSUME CoreInv, LockInv
  PROVE  RingExclusive
<1>1. ASSUME NEW t \in Transfers, Occupied(t) # {}
      PROVE  t = <<desc_lock, Len(tfer[desc_lock])>>
  <2>0. PICK r \in Requests : t \in {<<r, k>> : k \in 1 .. Len(tfer[r])}
    BY DEF Transfers
  <2>1. PICK k \in 1 .. Len(tfer[r]) : t = <<r, k>>
    BY <2>0
  <2>2. Unfinished(r, k)
    BY <1>1, <2>1 DEF Occupied, Unfinished, Xfer
  <2> QED
    BY <2>1, <2>2 DEF LockInv
<1> SUFFICES ASSUME NEW t \in Transfers, NEW u \in Transfers, t # u
             PROVE  Occupied(t) \cap Occupied(u) = {}
  BY DEF RingExclusive
<1>2. Occupied(t) = {} \/ Occupied(u) = {}
  BY <1>1
<1> QED
  BY <1>2

(***************************************************************************)
(* Without timeouts and without errors of the device nothing keeps the     *)
(* engine from being restarted.                                            *)
(***************************************************************************)
QuietInv == ~hw.error /\ ~eng.error /\ QueueServed

LEMMA QuietStep ==
  ASSUME EngineInv, QuietInv, ~Timeouts, ~HwErrors, [Next]_engineVars
  PROVE  QuietInv'
<1>1. CoreInv /\ ThreadInv /\ ExactInv
  BY DEF EngineInv
<1>2. ASSUME UNCHANGED <<work, hw>>, eng'.error = eng.error,
             eng'.running = eng.running, eng'.transfer_list = eng.transfer_list
      PROVE  QuietInv'
  BY <1>2 DEF QuietInv, QueueServed, LockFree
<1>3. ASSUME NEW r \in Requests, Submitter(r) \/ WaitTimedOut(r) \/ TransferRefused(r)
      PROVE  QuietInv'
  <2>1. CASE \/ SubmitSync(r) \/ SubmitNowait(r) \/ WaitCompleted(r) \/ WaitFailed(r)
             \/ Wakeup(r) \/ TransferRefused(r)
    BY <1>2, <2>1 DEF SubmitSync, SubmitNowait, WaitCompleted, WaitFailed, Wakeup, TransferRefused
  <2>2. CASE TransferInit(r)
    BY <1>1, <1>2, <2>2 DEF TransferInit, CoreInv, TypeOK, EngineRecord
  <2>3. CASE TransferQueue(r)
    <3>1. CASE eng.running
      BY <1>1, <2>3, <3>1
         DEF TransferQueue, QuietInv, QueueServed, CoreInv, TypeOK, EngineRecord
    <3>2. CASE ~eng.running
      BY <1>1, <2>3, <3>2 DEF TransferQueue, QuietInv, QueueServed, StartedEngine, StartedHw,
                              CoreInv, TypeOK, EngineRecord, HwRecord
    <3> QED
      BY <3>1, <3>2
  <2> QED
    BY <1>3, <2>1, <2>2, <2>3 DEF Submitter, WaitTimedOut
<1>4. ASSUME NEW e, NEW h, Restarted(e, h), ~h.error, ~e.error,
             Resume([e EXCEPT !.transfer_list = Tail(eng.transfer_list),
                              !.running = @ /\ ~e.error,
                              !.desc_dequeued = IF e.error THEN 0
                                ELSE Xfer(Head(eng.transfer_list)).desc_num],
                    IF e.error THEN StoppedHw(h) ELSE h),
             e \in EngineRecord, h \in HwRecord
      PROVE  QuietInv'
  <2>1. ~eng'.error
    BY <1>4 DEF Resume, StartedEngine, StoppedEngine, EngineRecord, HwRecord, StoppedHw
  <2>2. ~hw'.error
    BY <1>4, Zenon DEF Restarted
  <2>3. eng'.transfer_list # <<>> => eng'.running
    BY <1>4, Zenon DEF Restarted
  <2> QED
    BY <2>1, <2>2, <2>3 DEF QuietInv, QueueServed
<1>5. CASE Irq \/ BottomHalf
  <2>1. CASE Irq
    BY <1>1, <2>1 DEF Irq, QuietInv, QueueServed, LockFree, CoreInv, HeadInv
  <2>2. CASE ServiceIdle
    BY <1>1, <2>2 DEF ServiceIdle, ExactInv, IrqInv, PollInv
  <2>3. CASE ServiceStatus
    BY <1>1, <2>3 DEF ServiceStatus, QuietInv, QueueServed, LockFree,
                      CoreInv, TypeOK, EngineRecord, HwRecord
  <2>4. CASE ServiceNothing
    <3>1. Active /\ hw.count = 0
      BY <2>4 DEF ServiceNothing, Active
    <3>2. Xfer(hw.xfer).desc_num \in 1 .. DESC_MAX
      BY <1>1, <3>1, ActiveHead
    <3>3. hw.count = Xfer(hw.xfer).desc_num
      BY <1>1, <2>4 DEF ServiceNothing, ExactInv, IrqInv, PollInv, QuietInv
    <3> QED
      BY <3>1, <3>2, <3>3
  <2>5. CASE ServiceTransfers
    <3>1. TakesHead(eng, hw, hw.count) /\ Restarted(eng, hw)
      BY <1>1, <2>5, ServiceTakes
    <3> QED
      BY <1>1, <1>4, <3>1 DEF TakesHead, QuietInv, CoreInv, TypeOK
  <2> QED
    BY <1>5, <2>1, <2>2, <2>3, <2>4, <2>5 DEF BottomHalf
<1>6. CASE CompletionThread \/ PollGivesUp
  <2>1. CASE PollService
    <3>1. PollInv /\ StatusInv
      BY <1>1, <2>1 DEF ThreadInv, PollService, ExactInv
    <3>2. PICK e \in EngineRecord, h \in HwRecord :
            /\ e.error = hw.error /\ ~h.error
            /\ TakesHead(e, h, hw.count) /\ Restarted(e, h)
      BY <1>1, <2>1, <3>1, PollServiceTakes DEF QuietInv
    <3> QED
      BY <1>4, <3>2 DEF TakesHead, QuietInv
  <2>2. CASE ~PollService
    BY <1>1, <1>2, <1>6, <2>2, ThreadTyped DEF CompletionThread
  <2> QED
    BY <2>1, <2>2
<1>7. CASE HwMove \/ HwError
  BY <1>1, <1>7 DEF HwMove, HwError, QuietInv, QueueServed, LockFree,
                    CoreInv, TypeOK, HwRecord
<1>8. CASE AllOver \/ UNCHANGED engineVars
  BY <1>2, <1>8 DEF AllOver, engineVars
<1> QED
  BY <1>3, <1>5, <1>6, <1>7, <1>8 DEF Next
-----------------------------------------------------------------------------
(***************************************************************************)
(* The theorems, for every set of requests, sizes and ring.                *)
(***************************************************************************)

\* Every variable keeps its type: no step of a request, of the bottom half or
\* of the completion thread leaves the ring or its counters.
THEOREM TypeCorrect == ASSUME Orderly PROVE Spec => []TypeOK
<1>1. EngineInv => TypeOK
  BY DEF EngineInv, CoreInv
<1> QED
  BY <1>1, EngineInvariant, PTL

\* A transfer reported complete, by the bottom half or by the thread, was
\* moved in full by the device, and of a request reported done each
\* descriptor was moved exactly once.
THEOREM DoneIsMoved == ASSUME Orderly PROVE Spec => []DoneMeansMoved
<1>1. EngineInv => DoneMeansMoved
  BY DoneMoved DEF EngineInv
<1> QED
  BY <1>1, EngineInvariant, PTL

\* Neither the queue nor the device has a transfer of a request that is over
\* and whose memory was unmapped and freed.
THEOREM NoneDangling == ASSUME Orderly PROVE Spec => []NoDanglingTransfer
<1>1. EngineInv => NoDanglingTransfer
  BY NothingDangles DEF EngineInv
<1> QED
  BY <1>1, EngineInvariant, PTL

\* A transfer is reported failed only when the device failed on it: the count
\* the service finds is never short of it for another reason.
THEOREM FailedIsError == ASSUME Orderly, ~Timeouts PROVE Spec => []FailedMeansError
<1>1. EngineInv => FailedMeansError
  <2> SUFFICES ASSUME FailedInv, NEW t \in Transfers, Xfer(t).state = "FAILED"
               PROVE  Xfer(t).erred
    BY DEF EngineInv, ExactInv, FailedMeansError
  <2>0. PICK r \in Requests : t \in {<<r, k>> : k \in 1 .. Len(tfer[r])}
    BY DEF Transfers
  <2>1. PICK k \in 1 .. Len(tfer[r]) : t = <<r, k>>
    BY <2>0
  <2> QED
    BY <2>1 DEF FailedInv, Xfer
<1> QED
  BY <1>1, EngineInvariant, PTL

\* Every service restarts the engine on what is left in the queue, and a
\* transfer queued to a stopped engine starts it.
THEOREM QueueIsServed ==
  ASSUME Orderly, ~Timeouts, ~HwErrors PROVE Spec => []QueueServed
<1>1. Init => QuietInv
  BY DEF Init, QuietInv, QueueServed
<1>2. EngineInv /\ QuietInv /\ [Next]_engineVars => QuietInv'
  BY QuietStep
<1>3. QuietInv => QueueServed
  BY DEF QuietInv
<1> QED
  BY <1>1, <1>2, <1>3, EngineInvariant, PTL DEF Spec

\* Synchronous requests, whatever their size, share no descriptor of the
\* ring: desc_lock leaves one transfer unfinished at a time.
THEOREM RingIsExclusive ==
  ASSUME Orderly, AsyncReqs = {} PROVE Spec => []RingExclusive
<1>1. EngineInv => RingExclusive
  BY RingOwned DEF EngineInv
<1> QED
  BY <1>1, EngineInvariant, PTL
-----------------------------------------------------------------------------
(***************************************************************************)
(* The descriptor ring. A transfer is cut at the end of the ring and the   *)
(* next one begins behind it, so the transfers built take the slots of the *)
(* ring in order, and none is taken twice before DESC_MAX are.             *)
(***************************************************************************)

\* The transfers of a request follow one another, and all but the last were
\* cut at the end of the ring.
ShapeOf(r) ==
  \A k \in 1 .. Len(tfer[r]) :
    LET x == tfer[r][k]
    IN  /\ k = 1 => x.sw_desc_idx = 0
        /\ k > 1 => x.sw_desc_idx = tfer[r][k - 1].sw_desc_idx + tfer[r][k - 1].desc_num
        /\ x.desc_index + x.desc_num <= DESC_MAX
        /\ x.last_in_request \/ x.desc_index + x.desc_num = DESC_MAX

ShapeInv == \A r \in Requests : ShapeOf(r)

\* A step that builds no transfer.
SameShape ==
  /\ eng'.desc_idx = eng.desc_idx
  /\ \A q \in Requests :
       /\ Len(tfer'[q]) = Len(tfer[q])
       /\ \A k \in 1 .. Len(tfer[q]) :
            /\ tfer'[q][k].sw_desc_idx = tfer[q][k].sw_desc_idx
            /\ tfer'[q][k].desc_num = tfer[q][k].desc_num
            /\ tfer'[q][k].desc_index = tfer[q][k].desc_index
            /\ tfer'[q][k].last_in_request = tfer[q][k].last_in_request

LEMMA ChangesState ==
  ASSUME NEW r \in Requests, NEW k \in 1 .. Len(tfer[r]), NEW x, Changes(r, k, x),
         eng'.desc_idx = eng.desc_idx,
         x.sw_desc_idx = tfer[r][k].sw_desc_idx, x.desc_num = tfer[r][k].desc_num,
         x.desc_index = tfer[r][k].desc_index,
         x.last_in_request = tfer[r][k].last_in_request
  PROVE  SameShape
BY DEF Changes, SameShape

\* A service leaves desc_idx alone.
LEMMA TakeKeepsIdx ==
  ASSUME NEW e \in EngineRecord, NEW h, NEW count, TakeCompleted(e, h, count)
  PROVE  eng'.desc_idx = e.desc_idx
<1>1. PICK f, g, b, d, l : /\ f = [e EXCEPT !.transfer_list = l, !.running = b, !.desc_dequeued = d]
                           /\ Resume(f, g)
  BY DEF TakeCompleted, TakeTransfers
<1>2. f.desc_idx = e.desc_idx
  BY <1>1 DEF EngineRecord
<1>3. eng'.desc_idx = f.desc_idx
  <2>1. /\ [f EXCEPT !.transfer_list = f.transfer_list, !.running = TRUE, !.desc_dequeued = 0,
                     !.error = g.error].desc_idx = f.desc_idx
        /\ [f EXCEPT !.running = FALSE].desc_idx = f.desc_idx
    BY <1>1 DEF EngineRecord
  <2> QED
    BY <1>1, <2>1 DEF Resume, StartedEngine, StoppedEngine
<1> QED
  BY <1>2, <1>3

LEMMA StepShape ==
  ASSUME EngineInv, Orderly, [Next]_engineVars, ~\E r \in Requests : TransferInit(r)
  PROVE  SameShape
<1>1. CoreInv /\ ThreadInv /\ (~Timeouts => ExactInv) /\ (AsyncReqs = {} => LockInv)
  BY DEF EngineInv
<1>2. eng \in EngineRecord /\ hw \in HwRecord
  BY <1>1 DEF CoreInv, TypeOK
<1>3. CASE UNCHANGED tfer /\ eng'.desc_idx = eng.desc_idx
  BY <1>3 DEF SameShape
<1>4. ASSUME NEW r \in Requests, Submitter(r) \/ WaitTimedOut(r) \/ TransferRefused(r)
      PROVE  SameShape
  <2>1. CASE TransferQueue(r)
    <3>1. /\ Len(tfer[r]) \in 1 .. Len(tfer[r])
          /\ Changes(r, Len(tfer[r]), [tfer[r][Len(tfer[r])] EXCEPT !.state = "SUBMITTED"])
      BY <1>1, <2>1, CoreTransferQueue
    <3>2. tfer[r][Len(tfer[r])] \in XferRecord
      BY <1>1, <3>1, XferTyped DEF CoreInv
    <3>3. eng'.desc_idx = eng.desc_idx
      BY <1>2, <2>1 DEF TransferQueue, StartedEngine, EngineRecord
    <3> QED
      BY <3>1, <3>2, <3>3, ChangesState DEF XferRecord
  <2>2. CASE WaitTimedOut(r)
    <3>0. AsyncReqs = {}
      BY <2>2 DEF WaitTimedOut, Orderly
    <3>1. /\ Len(tfer[r]) \in 1 .. Len(tfer[r])
          /\ Changes(r, Len(tfer[r]), [tfer[r][Len(tfer[r])] EXCEPT !.state = "ABORTED"])
      BY <1>1, <2>2, <3>0, CoreWaitTimedOut
    <3>2. tfer[r][Len(tfer[r])] \in XferRecord
      BY <1>1, <3>1, XferTyped DEF CoreInv
    <3>3. eng'.desc_idx = eng.desc_idx
      BY <1>2, <2>2 DEF WaitTimedOut, StoppedEngine, EngineRecord
    <3> QED
      BY <3>1, <3>2, <3>3, ChangesState DEF XferRecord
  <2>3. CASE SubmitSync(r) \/ SubmitNowait(r) \/ Wakeup(r) \/ WaitCompleted(r) \/ WaitFailed(r)
    BY <1>3, <2>3 DEF SubmitSync, SubmitNowait, Wakeup, WaitCompleted, WaitFailed
  <2>4. CASE TransferRefused(r)
    <3>1. r \notin AsyncReqs
      BY <2>4 DEF TransferRefused, Orderly
    <3>2. /\ Len(tfer[r]) \in 1 .. Len(tfer[r]) /\ eng' = eng
          /\ Changes(r, Len(tfer[r]), [tfer[r][Len(tfer[r])] EXCEPT !.state = "ABORTED"])
      BY <1>1, <2>4, <3>1, CoreTransferRefused
    <3>3. tfer[r][Len(tfer[r])] \in XferRecord
      BY <1>1, <3>2, XferTyped DEF CoreInv
    <3> QED
      BY <3>2, <3>3, ChangesState DEF XferRecord
  <2> QED
    BY <1>4, <2>1, <2>2, <2>3, <2>4 DEF Submitter
<1>5. ASSUME Active, NEW e, NEW count, NEW h, TakesHead(e, h, count), eng'.desc_idx = eng.desc_idx
      PROVE  SameShape
  <2>1. /\ hw.xfer = Head(eng.transfer_list)
        /\ hw.xfer[1] \in Requests /\ hw.xfer[2] \in 1 .. Len(tfer[hw.xfer[1]])
        /\ Xfer(hw.xfer) = tfer[hw.xfer[1]][hw.xfer[2]] /\ Xfer(hw.xfer) \in XferRecord
    BY <1>1, <1>5, ActiveHead DEF CoreInv, HeadInv
  <2>2. \E v : Changes(hw.xfer[1], hw.xfer[2], [Xfer(hw.xfer) EXCEPT !.state = v])
    BY <1>5, <2>1 DEF TakesHead
  <2> QED
    BY <1>5, <2>1, <2>2, ChangesState DEF XferRecord
<1>6. CASE Irq \/ BottomHalf
  <2>1. CASE Irq \/ ServiceIdle \/ ServiceStatus \/ ServiceNothing
    BY <1>2, <1>3, <2>1 DEF Irq, ServiceIdle, ServiceStatus, ServiceNothing, EngineRecord
  <2>2. CASE ServiceTransfers
    <3>1. Active /\ TakesHead(eng, hw, hw.count)
      BY <1>1, <2>2, ServiceTakes
    <3>2. eng'.desc_idx = eng.desc_idx
      BY <1>2, <2>2, TakeKeepsIdx DEF ServiceTransfers
    <3> QED
      BY <1>5, <3>1, <3>2
  <2> QED
    BY <1>6, <2>1, <2>2 DEF BottomHalf
<1>7. CASE CompletionThread \/ PollGivesUp
  <2>1. CASE PollService
    <3>1. poll_mode
      BY <1>1, <2>1 DEF ThreadInv, PollService
    <3>2. PollInv /\ StatusInv
      BY <1>1, <3>1 DEF ExactInv, Orderly, CoreInv, TypeOK
    <3>3. eng'.desc_idx = eng.desc_idx
      <4> DEFINE e == IF thread.desc_wb.err \/ ~eng.running
                      THEN [eng EXCEPT !.error = hw.error] ELSE eng
      <4>1. e \in EngineRecord /\ StoppedEngine(e) \in EngineRecord
            /\ e.desc_idx = eng.desc_idx /\ StoppedEngine(e).desc_idx = eng.desc_idx
        BY <1>2 DEF EngineRecord, HwRecord, StoppedEngine
      <4>2. \/ eng' = e \/ eng' = StoppedEngine(e)
            \/ \E h, count : TakeCompleted(StoppedEngine(e), h, count)
        BY <2>1 DEF PollService
      <4> HIDE DEF e
      <4> QED
        BY <4>1, <4>2, TakeKeepsIdx
    <3>4. /\ Active
          /\ UNCHANGED tfer \/ \E e \in EngineRecord, h \in HwRecord : TakesHead(e, h, hw.count)
      BY <1>1, <2>1, <3>2, PollServiceTakes
    <3> QED
      BY <1>3, <1>5, <3>3, <3>4
  <2>2. CASE ~PollService
    BY <1>1, <1>3, <1>7, <2>2, ThreadTyped DEF CompletionThread
  <2> QED
    BY <2>1, <2>2
<1>8. CASE HwMove \/ HwError
  <2>1. Active /\ eng'.desc_idx = eng.desc_idx
    BY <1>1, <1>8 DEF HwMove, HwError, CoreInv, HeadInv, Active
  <2>2. /\ hw.xfer[1] \in Requests /\ hw.xfer[2] \in 1 .. Len(tfer[hw.xfer[1]])
        /\ Xfer(hw.xfer) = tfer[hw.xfer[1]][hw.xfer[2]] /\ Xfer(hw.xfer) \in XferRecord
    BY <1>1, <2>1, ActiveHead
  <2>3. Changes(hw.xfer[1], hw.xfer[2],
                IF HwMove THEN [Xfer(hw.xfer) EXCEPT !.moved = @ + 1]
                          ELSE [Xfer(hw.xfer) EXCEPT !.erred = TRUE])
    BY <1>1, <1>8, CoreDevice
  <2>4. CASE HwMove
    BY <2>1, <2>2, <2>3, <2>4, ChangesState DEF XferRecord
  <2>5. CASE ~HwMove
    BY <2>1, <2>2, <2>3, <2>5, ChangesState DEF XferRecord
  <2> QED
    BY <2>4, <2>5
<1>9. CASE AllOver \/ UNCHANGED engineVars
  BY <1>3, <1>9 DEF AllOver, engineVars
<1> QED
  BY <1>4, <1>6, <1>7, <1>8, <1>9 DEF Next

\* What a step that builds a transfer adds to a request.
LEMMA InitAdds ==
  ASSUME CoreInv, NEW r \in Requests, TransferInit(r)
  PROVE  LET n == DescCount(r)
             m == Len(tfer[r]) + 1
         IN  /\ Grows(r) /\ Len(tfer[r]) \in Nat
             /\ n \in 1 .. DESC_MAX /\ DESC_MAX \in Nat /\ Built(r) \in Nat /\ Size[r] \in Nat
             /\ Built(r) + n <= Size[r]
             /\ eng.desc_idx \in 0 .. DESC_MAX - 1 /\ eng.desc_idx + n <= DESC_MAX
             /\ eng.desc_idx + n = DESC_MAX \/ Built(r) + n = Size[r]
             /\ tfer'[r][m].sw_desc_idx = Built(r) /\ tfer'[r][m].desc_num = n
             /\ tfer'[r][m].desc_index = eng.desc_idx
             /\ tfer'[r][m].last_in_request <=> Built(r) + n = Size[r]
             /\ eng'.desc_idx = IF eng.desc_idx + n = DESC_MAX THEN 0 ELSE eng.desc_idx + n
             /\ Built(r)' = Built(r) + n
             /\ \A q \in Requests \ {r} : Built(q)' = Built(q)
<1> DEFINE n == DescCount(r)
           m == Len(tfer[r]) + 1
           x == [state |-> "INIT", sw_desc_idx |-> Built(r), desc_num |-> n,
                 desc_index |-> eng.desc_idx,
                 last_in_request |-> Built(r) + n = Size[r],
                 moved |-> 0, erred |-> FALSE]
<1>1. /\ Built(r) \in Nat /\ Size[r] \in Nat /\ n \in 1 .. DESC_MAX /\ Built(r) + n <= Size[r]
  BY DescCountFits DEF TransferInit
<1>2. /\ tfer \in [Requests -> Seq(XferRecord)] /\ Len(tfer[r]) \in Nat
      /\ eng \in EngineRecord /\ eng.desc_idx \in 0 .. DESC_MAX - 1 /\ DESC_MAX \in Nat
  BY EngineAssumption, XferTyped DEF CoreInv, TypeOK, EngineRecord
<1>3. /\ eng.desc_idx + n <= DESC_MAX
      /\ eng.desc_idx + n = DESC_MAX \/ Built(r) + n = Size[r]
  <2> DEFINE left == Size[r] - Built(r)
             d == IF left < DESC_MAX THEN left ELSE DESC_MAX
  <2>1. n = IF eng.desc_idx + d >= DESC_MAX THEN DESC_MAX - eng.desc_idx ELSE d
    BY DEF DescCount
  <2>2. left \in Int
    BY <1>1
  <2> HIDE DEF n, left
  <2>3. eng.desc_idx + d < DESC_MAX => d = left
    BY <1>2, <2>2
  <2>4. d \in Int
    BY <1>2, <2>2
  <2> HIDE DEF d
  <2>5. /\ eng.desc_idx + n <= DESC_MAX
        /\ eng.desc_idx + n = DESC_MAX \/ n = left
    BY <1>2, <2>1, <2>3, <2>4
  <2> QED
    BY <1>1, <2>5 DEF left
<1>4. /\ tfer' = [tfer EXCEPT ![r] = Append(tfer[r], x)]
      /\ eng' = [eng EXCEPT !.desc_idx = (@ + n) % DESC_MAX]
  BY DEF TransferInit
<1> HIDE DEF n
<1>5. /\ Len(tfer'[r]) = m /\ tfer'[r] # <<>> /\ tfer'[r][m] = x
      /\ \A q \in Requests \ {r} : tfer'[q] = tfer[q]
  <2>1. x \in XferRecord
    BY <1>1, <1>2 DEF XferRecord
  <2> HIDE DEF x
  <2>2. tfer'[r] = Append(tfer[r], x) /\ tfer[r] \in Seq(XferRecord)
    BY <1>2, <1>4
  <2>3. \A s \in Seq(XferRecord) : \A e \in XferRecord :
          /\ Len(Append(s, e)) = Len(s) + 1 /\ Append(s, e) # <<>>
          /\ Append(s, e)[Len(s) + 1] = e
    OBVIOUS
  <2>4. Len(tfer'[r]) = m /\ tfer'[r] # <<>> /\ tfer'[r][m] = x
    BY <2>1, <2>2, <2>3
  <2> QED
    BY <1>2, <1>4, <2>4
<1>6. /\ tfer'[r][m].sw_desc_idx = Built(r) /\ tfer'[r][m].desc_num = n
      /\ tfer'[r][m].desc_index = eng.desc_idx
      /\ tfer'[r][m].last_in_request = (Built(r) + n = Size[r])
  <2>1. /\ x.sw_desc_idx = Built(r) /\ x.desc_num = n /\ x.desc_index = eng.desc_idx
        /\ x.last_in_request = (Built(r) + n = Size[r])
    OBVIOUS
  <2> HIDE DEF x
  <2> QED
    BY <1>5, <2>1
<1>7. eng'.desc_idx = IF eng.desc_idx + n = DESC_MAX THEN 0 ELSE eng.desc_idx + n
  <2>1. eng'.desc_idx = (eng.desc_idx + n) % DESC_MAX
    BY <1>2, <1>4 DEF EngineRecord
  <2>2. \A a \in Nat : (a < DESC_MAX => a % DESC_MAX = a) /\ DESC_MAX % DESC_MAX = 0
    BY EngineAssumption
  <2>3. eng.desc_idx + n \in Nat /\ (eng.desc_idx + n # DESC_MAX => eng.desc_idx + n < DESC_MAX)
    BY <1>1, <1>2, <1>3
  <2> QED
    BY <2>1, <2>2, <2>3
<1>8. Built(r)' = Built(r) + n
  <2>1. Built(r)' = tfer'[r][m].sw_desc_idx + tfer'[r][m].desc_num
    BY <1>5 DEF Built, Current, Xfer
  <2> QED
    BY <1>6, <2>1
<1>9. \A q \in Requests \ {r} : Built(q)' = Built(q)
  BY <1>5 DEF Built, Current, Xfer
<1>10. Grows(r)
  BY CoreTransferInit
<1> QED
  BY <1>1, <1>2, <1>3, <1>6, <1>7, <1>8, <1>9, <1>10 DEF n

LEMMA ShapeStep ==
  ASSUME EngineInv, Orderly, ShapeInv, [Next]_engineVars
  PROVE  ShapeInv'
<1>1. CoreInv
  BY DEF EngineInv
<1>2. CASE ~\E r \in Requests : TransferInit(r)
  <2>1. SameShape
    BY <1>2, StepShape
  <2>2. ASSUME NEW q \in Requests
        PROVE  ShapeOf(q)'
    <3>1. Len(tfer[q]) \in Nat /\ Len(tfer'[q]) = Len(tfer[q])
      BY <1>1, <2>1, XferTyped DEF CoreInv, SameShape
    <3> SUFFICES ASSUME NEW k \in 1 .. Len(tfer[q])
                 PROVE  LET x == tfer'[q][k]
                        IN  /\ k = 1 => x.sw_desc_idx = 0
                            /\ k > 1 => x.sw_desc_idx = tfer'[q][k - 1].sw_desc_idx
                                                          + tfer'[q][k - 1].desc_num
                            /\ x.desc_index + x.desc_num <= DESC_MAX
                            /\ x.last_in_request \/ x.desc_index + x.desc_num = DESC_MAX
      BY <3>1 DEF ShapeOf
    <3>2. k > 1 => k - 1 \in 1 .. Len(tfer[q])
      BY <3>1
    <3> QED
      BY <2>1, <3>1, <3>2 DEF SameShape, ShapeInv, ShapeOf
  <2> QED
    BY <2>2 DEF ShapeInv
<1>3. ASSUME NEW r \in Requests, TransferInit(r)
      PROVE  ShapeInv'
  <2> DEFINE L == Len(tfer[r])
             n == DescCount(r)
  <2>1. /\ Grows(r) /\ L \in Nat /\ Built(r) \in Nat
        /\ eng.desc_idx + n <= DESC_MAX
        /\ eng.desc_idx + n = DESC_MAX \/ Built(r) + n = Size[r]
        /\ tfer'[r][L + 1].sw_desc_idx = Built(r) /\ tfer'[r][L + 1].desc_num = n
        /\ tfer'[r][L + 1].desc_index = eng.desc_idx
        /\ tfer'[r][L + 1].last_in_request <=> Built(r) + n = Size[r]
    BY <1>1, <1>3, InitAdds
  <2> HIDE DEF n
  <2>2. ASSUME NEW q \in Requests \ {r}
        PROVE  ShapeOf(q)'
    <3>1. tfer'[q] = tfer[q] /\ ShapeOf(q)
      BY <2>1 DEF Grows, ShapeInv
    <3> QED
      BY <3>1 DEF ShapeOf
  <2>3. ShapeOf(r)'
    <3>1. Len(tfer'[r]) = L + 1 /\ \A k \in 1 .. L : tfer'[r][k] = tfer[r][k]
      BY <2>1 DEF Grows
    <3> SUFFICES ASSUME NEW k \in 1 .. L + 1
                 PROVE  LET x == tfer'[r][k]
                        IN  /\ k = 1 => x.sw_desc_idx = 0
                            /\ k > 1 => x.sw_desc_idx = tfer'[r][k - 1].sw_desc_idx
                                                          + tfer'[r][k - 1].desc_num
                            /\ x.desc_index + x.desc_num <= DESC_MAX
                            /\ x.last_in_request \/ x.desc_index + x.desc_num = DESC_MAX
      BY <3>1 DEF ShapeOf
    <3>2. CASE k \in 1 .. L
      <4>1. tfer'[r][k] = tfer[r][k] /\ (k > 1 => tfer'[r][k - 1] = tfer[r][k - 1])
        BY <2>1, <3>1, <3>2
      <4> QED
        BY <3>2, <4>1 DEF ShapeInv, ShapeOf
    <3>3. CASE k = L + 1
      <4>1. k = 1 => Built(r) = 0
        <5>1. tfer[r] \in Seq(XferRecord)
          BY <1>1, XferTyped DEF CoreInv
        <5>2. L = 0 => tfer[r] = <<>>
          BY <5>1
        <5> QED
          BY <2>1, <3>3, <5>2 DEF Built
      <4>2. k > 1 => /\ tfer'[r][k - 1] = tfer[r][L]
                     /\ Built(r) = tfer[r][L].sw_desc_idx + tfer[r][L].desc_num
        <5>1. k > 1 => k - 1 = L /\ L \in 1 .. L /\ tfer[r] # <<>>
          BY <2>1, <3>3
        <5>2. k > 1 => Built(r) = tfer[r][L].sw_desc_idx + tfer[r][L].desc_num
          BY <5>1 DEF Built, Current, Xfer
        <5> QED
          BY <3>1, <5>1, <5>2
      <4> QED
        BY <2>1, <3>3, <4>1, <4>2
    <3> QED
      BY <2>1, <3>2, <3>3
  <2> QED
    BY <2>2, <2>3 DEF ShapeInv
<1> QED
  BY <1>2, <1>3

-----------------------------------------------------------------------------
(***************************************************************************)
(* Requests that fit the ring together: they have no more descriptors, all *)
(* in all, than the ring has slots.                                        *)
(***************************************************************************)
Descriptors  == {d \in Requests \X Nat : d[2] < Size[d[1]]}
FitTogether  == IsFiniteSet(Descriptors) /\ Cardinality(Descriptors) <= DESC_MAX

\* The descriptors built so far, and the slots a transfer has in the ring.
BuiltDescs   == {d \in Requests \X Nat : d[2] < Built(d[1])}
Slots(r, k)  == tfer[r][k].desc_index .. tfer[r][k].desc_index + tfer[r][k].desc_num - 1

\* How far slot s lies behind slot a in the ring.
Distance(a, s) == IF s >= a THEN s - a ELSE s - a + DESC_MAX

\* With n descriptors built from slot a on, the next one has its slot n
\* behind a, and every slot in use is nearer.
TakenFrom(a, n) ==
  /\ eng.desc_idx = IF a + n < DESC_MAX THEN a + n ELSE a + n - DESC_MAX
  /\ \A r \in Requests : \A k \in 1 .. Len(tfer[r]) :
       \A s \in Slots(r, k) : Distance(a, s) < n

DisjointSlots ==
  \A r, q \in Requests : \A k \in 1 .. Len(tfer[r]), j \in 1 .. Len(tfer[q]) :
    r # q \/ k # j => Slots(r, k) \cap Slots(q, j) = {}

RingInv ==
  /\ \E a \in 0 .. DESC_MAX - 1 : TakenFrom(a, Cardinality(BuiltDescs))
  /\ DisjointSlots

\* The number of descriptors built is bounded by the ring.
LEMMA BuiltFits ==
  ASSUME CoreInv, FitTogether
  PROVE  /\ IsFiniteSet(BuiltDescs) /\ Cardinality(BuiltDescs) \in 0 .. DESC_MAX
<1>1. ASSUME NEW r \in Requests
      PROVE  Built(r) <= Size[r] /\ Size[r] \in Nat /\ Built(r) \in Nat
  <2>1. Built(r) <= Size[r]
    BY DEF CoreInv, LayoutInv, LayoutOf
  <2>2. tfer[r] # <<>> => tfer[r][Len(tfer[r])] \in XferRecord
    BY DEF CoreInv, TypeOK
  <2>3. Built(r) \in Nat
    BY <2>2, EngineAssumption, SMTT(60) DEF Built, Current, Xfer, XferRecord
  <2> QED
    BY <2>1, <2>3, EngineAssumption
<1>2. BuiltDescs \in SUBSET Descriptors
  <2> SUFFICES ASSUME NEW d \in BuiltDescs
               PROVE  d \in Descriptors
    OBVIOUS
  <2>1. d \in Requests \X Nat /\ d[1] \in Requests /\ d[2] \in Nat /\ d[2] < Built(d[1])
    BY DEF BuiltDescs
  <2>2. d[2] < Size[d[1]]
    BY <1>1, <2>1
  <2> QED
    BY <2>1, <2>2 DEF Descriptors
<1>3. /\ IsFiniteSet(BuiltDescs) /\ Cardinality(BuiltDescs) <= Cardinality(Descriptors)
      /\ Cardinality(BuiltDescs) \in Nat /\ Cardinality(Descriptors) \in Nat
  BY <1>2, FS_Subset, FS_CardinalityType DEF FitTogether
<1> QED
  BY <1>3, EngineAssumption DEF FitTogether

\* Building a transfer of n descriptors builds n descriptors more.
LEMMA BuiltGrows ==
  ASSUME CoreInv, FitTogether, NEW r \in Requests, TransferInit(r)
  PROVE  Cardinality(BuiltDescs') = Cardinality(BuiltDescs) + DescCount(r)
<1> DEFINE n == DescCount(r)
           b == Built(r)
           New == {r} \X (b .. b + n - 1)
<1>1. /\ b \in Nat /\ n \in 1 .. DESC_MAX /\ DESC_MAX \in Nat /\ Built(r)' = b + n
      /\ \A q \in Requests \ {r} : Built(q)' = Built(q)
  BY InitAdds
<1> HIDE DEF n, b
<1>2. BuiltDescs' = BuiltDescs \cup New
  <2>1. ASSUME NEW d \in Requests \X Nat
        PROVE  d[2] < Built(d[1])' <=> d[2] < Built(d[1]) \/ d \in New
    <3>1. d = <<d[1], d[2]>> /\ d[1] \in Requests /\ d[2] \in Nat
      OBVIOUS
    <3>2. d \in New <=> d[1] = r /\ d[2] \in b .. b + n - 1
      BY <3>1
    <3> HIDE DEF New
    <3>3. CASE d[1] = r
      <4>1. Built(d[1])' = b + n /\ Built(d[1]) = b
        BY <1>1, <3>3 DEF b
      <4> QED
        BY <1>1, <3>1, <3>2, <3>3, <4>1
    <3>4. CASE d[1] # r
      BY <1>1, <3>1, <3>2, <3>4
    <3> QED
      BY <3>3, <3>4
  <2>2. New \subseteq Requests \X Nat
    BY <1>1
  <2>3. BuiltDescs' = {d \in Requests \X Nat : d[2] < Built(d[1])'}
    BY DEF BuiltDescs
  <2> HIDE DEF New
  <2> QED
    BY <2>1, <2>2, <2>3 DEF BuiltDescs
<1>3. BuiltDescs \cap New = {}
  <2> SUFFICES ASSUME NEW d \in BuiltDescs, d \in New
               PROVE  FALSE
    OBVIOUS
  <2>1. d[1] = r /\ d[2] \in b .. b + n - 1 /\ d[2] < Built(d[1])
    BY DEF BuiltDescs
  <2>2. d[2] < b
    BY <2>1 DEF b
  <2> QED
    BY <1>1, <2>1, <2>2
<1>4. IsFiniteSet(New) /\ Cardinality(New) = n
  <2>1. IsFiniteSet(b .. b + n - 1) /\ Cardinality(b .. b + n - 1) = n
    <3>1. b + n - 1 \in Int /\ b \in Int /\ ~(b > b + n - 1) /\ (b + n - 1) - b + 1 = n
      BY <1>1
    <3> QED
      BY <3>1, FS_Interval
  <2>2. IsFiniteSet({r}) /\ Cardinality({r}) = 1
    BY FS_Singleton
  <2>3. IsFiniteSet(New) /\ Cardinality(New) = 1 * n
    BY <2>1, <2>2, FS_Product
  <2> QED
    BY <1>1, <2>3
<1> HIDE DEF New
<1>5. IsFiniteSet(BuiltDescs) /\ Cardinality(BuiltDescs) \in Nat
  BY BuiltFits
<1>6. Cardinality(BuiltDescs \cup New) = Cardinality(BuiltDescs) + Cardinality(New)
                                          - Cardinality(BuiltDescs \cap New)
  BY <1>4, <1>5, FS_Union
<1>7. Cardinality(BuiltDescs \cap New) = 0
  BY <1>3, FS_EmptySet
<1> QED
  BY <1>1, <1>2, <1>4, <1>5, <1>6, <1>7 DEF n

LEMMA RingInit == Init => ShapeInv /\ RingInv
<1> SUFFICES ASSUME Init
             PROVE  ShapeInv /\ RingInv
  OBVIOUS
<1>1. \A r \in Requests : tfer[r] = <<>> /\ Len(tfer[r]) = 0 /\ Built(r) = 0
  BY DEF Init, Built
<1>2. ShapeInv /\ DisjointSlots
  BY <1>1 DEF ShapeInv, ShapeOf, DisjointSlots
<1>3. Cardinality(BuiltDescs) = 0
  <2>1. BuiltDescs = {}
    BY <1>1 DEF BuiltDescs
  <2> QED
    BY <2>1, FS_EmptySet
<1>4. PICK a \in FirstIdx : eng.desc_idx = a
  BY DEF Init
<1>5. a \in 0 .. DESC_MAX - 1 /\ DESC_MAX \in Nat
  BY EngineAssumption
<1>6. TakenFrom(a, 0)
  BY <1>1, <1>4, <1>5 DEF TakenFrom
<1> QED
  BY <1>2, <1>3, <1>5, <1>6 DEF RingInv

\* A slot of the ring, and the numbers of a transfer's place in it.
LEMMA SlotTyped ==
  ASSUME CoreInv, ShapeInv, NEW r \in Requests, NEW k \in 1 .. Len(tfer[r])
  PROVE  /\ DESC_MAX \in Nat /\ tfer[r][k].desc_index \in Nat /\ tfer[r][k].desc_num \in Nat \ {0}
         /\ Slots(r, k) \subseteq 0 .. DESC_MAX - 1
<1>1. DESC_MAX \in Nat /\ tfer[r][k] \in XferRecord
  BY XferTyped, EngineAssumption DEF CoreInv
<1>2. tfer[r][k].desc_index \in Nat /\ tfer[r][k].desc_num \in Nat \ {0}
  BY <1>1 DEF XferRecord
<1>3. tfer[r][k].desc_index + tfer[r][k].desc_num <= DESC_MAX
  BY DEF ShapeInv, ShapeOf
<1> QED
  BY <1>1, <1>2, <1>3 DEF Slots

\* Building a transfer of n descriptors with taken slots in use, n of them free.
LEMMA RingGrows ==
  ASSUME CoreInv, ShapeInv, DisjointSlots, NEW r \in Requests, TransferInit(r),
         NEW a \in 0 .. DESC_MAX - 1, NEW taken \in Nat, TakenFrom(a, taken),
         NEW n, n = DescCount(r), NEW L, L = Len(tfer[r]), NEW idx, idx = eng.desc_idx,
         taken + n <= DESC_MAX
  PROVE  TakenFrom(a, taken + n)' /\ DisjointSlots'
<1> DEFINE Fresh == idx .. idx + n - 1
<1>1. /\ Grows(r) /\ L \in Nat /\ n \in 1 .. DESC_MAX /\ DESC_MAX \in Nat
      /\ idx \in 0 .. DESC_MAX - 1 /\ idx + n <= DESC_MAX
      /\ tfer'[r][L + 1].desc_num = n /\ tfer'[r][L + 1].desc_index = idx
      /\ eng'.desc_idx = IF idx + n = DESC_MAX THEN 0 ELSE idx + n
  BY InitAdds
<1>2. /\ idx = IF a + taken < DESC_MAX THEN a + taken ELSE a + taken - DESC_MAX
      /\ a \in Nat /\ a < DESC_MAX /\ taken \in Nat /\ taken + n <= DESC_MAX
  BY <1>1 DEF TakenFrom
<1>3. eng'.desc_idx = IF a + (taken + n) < DESC_MAX THEN a + (taken + n)
                                                   ELSE a + (taken + n) - DESC_MAX
  <2>1. CASE a + taken < DESC_MAX
    <3>1. idx = a + taken /\ n \in Nat
      BY <1>1, <1>2, <2>1
    <3>2. CASE idx + n = DESC_MAX
      <4>1. a + (taken + n) = DESC_MAX
        BY <1>2, <3>1, <3>2
      <4>2. eng'.desc_idx = 0
        BY <1>1, <3>2
      <4> QED
        BY <1>1, <4>1, <4>2
    <3>3. CASE idx + n # DESC_MAX
      <4>1. eng'.desc_idx = a + (taken + n) /\ a + (taken + n) < DESC_MAX
        BY <1>1, <1>2, <3>1, <3>3
      <4> QED
        BY <4>1
    <3> QED
      BY <3>2, <3>3
  <2>2. CASE ~(a + taken < DESC_MAX)
    BY <1>1, <1>2, <2>2
  <2> QED
    BY <2>1, <2>2
<1>4. ASSUME NEW s \in Fresh
      PROVE  Distance(a, s) >= taken /\ Distance(a, s) < taken + n /\ Distance(a, s) \in Int
  <2>1. s \in Int /\ idx <= s /\ s < idx + n
    BY <1>1
  <2>2. CASE a + taken < DESC_MAX
    BY <1>1, <1>2, <2>1, <2>2 DEF Distance
  <2>3. CASE ~(a + taken < DESC_MAX)
    BY <1>1, <1>2, <2>1, <2>3 DEF Distance
  <2> QED
    BY <2>2, <2>3
<1>5. Slots(r, L + 1)' = Fresh
  BY <1>1 DEF Slots
<1>6. /\ \A q \in Requests \ {r} : tfer'[q] = tfer[q]
      /\ Len(tfer'[r]) = L + 1 /\ \A k \in 1 .. L : tfer'[r][k] = tfer[r][k]
  BY <1>1 DEF Grows
<1>7. ASSUME NEW q \in Requests, NEW k \in 1 .. Len(tfer'[q])
      PROVE  \/ q = r /\ k = L + 1 /\ Slots(q, k)' = Fresh
             \/ k \in 1 .. Len(tfer[q]) /\ Slots(q, k)' = Slots(q, k)
  <2>1. CASE q = r
    <3>1. k \in 1 .. L \/ k = L + 1
      BY <1>1, <1>6, <2>1
    <3>2. CASE k = L + 1
      BY <1>5, <2>1, <3>2
    <3>3. CASE k \in 1 .. L
      BY <1>6, <2>1, <3>3 DEF Slots
    <3> QED
      BY <3>1, <3>2, <3>3
  <2>2. CASE q # r
    BY <1>6, <2>2 DEF Slots
  <2> QED
    BY <2>1, <2>2
<1>8. ASSUME NEW q \in Requests, NEW k \in 1 .. Len(tfer[q]), NEW s \in Slots(q, k)
      PROVE  Distance(a, s) < taken /\ Distance(a, s) \in Int
  <2>1. s \in Int
    BY SlotTyped
  <2> QED
    BY <1>1, <2>1 DEF TakenFrom, Distance
<1>9. \A q \in Requests : \A k \in 1 .. Len(tfer[q]) : Slots(q, k) \cap Fresh = {}
  <2> SUFFICES ASSUME NEW q \in Requests, NEW k \in 1 .. Len(tfer[q]),
                      NEW s \in Slots(q, k), s \in Fresh
               PROVE  FALSE
    OBVIOUS
  <2>1. Distance(a, s) >= taken /\ Distance(a, s) < taken /\ Distance(a, s) \in Int
    BY <1>4, <1>8
  <2> QED
    BY <2>1
<1> HIDE DEF Fresh
<1>10. ASSUME NEW q \in Requests, NEW k \in 1 .. Len(tfer'[q]), NEW s \in Slots(q, k)'
       PROVE  Distance(a, s) < taken + n
  <2>1. CASE Slots(q, k)' = Fresh
    BY <1>4, <2>1
  <2>2. CASE k \in 1 .. Len(tfer[q]) /\ Slots(q, k)' = Slots(q, k)
    <3>1. Distance(a, s) < taken /\ Distance(a, s) \in Int
      BY <1>8, <2>2
    <3> QED
      BY <1>1, <3>1
  <2> QED
    BY <1>7, <2>1, <2>2
<1>11. TakenFrom(a, taken + n)'
  BY <1>3, <1>10 DEF TakenFrom, Distance
<1>12. DisjointSlots'
  <2> SUFFICES ASSUME NEW q \in Requests, NEW p \in Requests,
                      NEW k \in 1 .. Len(tfer'[q]), NEW j \in 1 .. Len(tfer'[p]),
                      q # p \/ k # j
               PROVE  Slots(q, k)' \cap Slots(p, j)' = {}
    BY DEF DisjointSlots
  <2>1. CASE k \in 1 .. Len(tfer[q]) /\ Slots(q, k)' = Slots(q, k)
    <3>1. CASE j \in 1 .. Len(tfer[p]) /\ Slots(p, j)' = Slots(p, j)
      BY <2>1, <3>1 DEF DisjointSlots
    <3>2. CASE Slots(p, j)' = Fresh
      BY <1>9, <2>1, <3>2
    <3> QED
      BY <1>7, <3>1, <3>2
  <2>2. CASE q = r /\ k = L + 1 /\ Slots(q, k)' = Fresh
    <3>1. j \in 1 .. Len(tfer[p]) /\ Slots(p, j)' = Slots(p, j)
      BY <1>7, <2>2
    <3> QED
      BY <1>9, <2>2, <3>1
  <2> QED
    BY <1>7, <2>1, <2>2
<1> QED
  BY <1>11, <1>12

LEMMA RingStep ==
  ASSUME EngineInv, Orderly, FitTogether, ShapeInv, RingInv, [Next]_engineVars
  PROVE  RingInv'
<1>1. CoreInv /\ CoreInv'
  BY CoreStep DEF EngineInv
<1>2. CASE ~\E r \in Requests : TransferInit(r)
  <2>1. SameShape
    BY <1>2, StepShape
  <2>2. ASSUME NEW q \in Requests
        PROVE  /\ Built(q)' = Built(q) /\ Len(tfer'[q]) = Len(tfer[q])
               /\ \A k \in 1 .. Len(tfer[q]) : Slots(q, k)' = Slots(q, k)
    <3>1. /\ tfer[q] \in Seq(XferRecord) /\ tfer'[q] \in Seq(XferRecord)
          /\ Len(tfer'[q]) = Len(tfer[q])
      BY <1>1, <2>1 DEF SameShape, CoreInv, TypeOK
    <3>2. tfer[q] = <<>> <=> tfer'[q] = <<>>
      BY <3>1
    <3>3. tfer[q] # <<>> => Len(tfer[q]) \in 1 .. Len(tfer[q])
      BY <3>1
    <3>4. Built(q)' = Built(q)
      BY <2>1, <3>1, <3>2, <3>3 DEF SameShape, Built, Current, Xfer
    <3> QED
      BY <2>1, <3>1, <3>4 DEF SameShape, Slots
  <2>3. BuiltDescs' = BuiltDescs
    <3>1. BuiltDescs' = {d \in Requests \X Nat : d[2] < Built(d[1])'}
      BY DEF BuiltDescs
    <3> QED
      BY <2>2, <3>1 DEF BuiltDescs
  <2>4. PICK a \in 0 .. DESC_MAX - 1 : TakenFrom(a, Cardinality(BuiltDescs))
    BY DEF RingInv
  <2> DEFINE n == Cardinality(BuiltDescs)
  <2>5. n' = n
    BY <2>3
  <2>6. TakenFrom(a, n)
    BY <2>4
  <2> HIDE DEF n
  <2>7. TakenFrom(a, n)'
    <3>1. eng'.desc_idx = eng.desc_idx
      BY <2>1 DEF SameShape
    <3> QED
      BY <2>2, <2>5, <2>6, <3>1 DEF TakenFrom, Distance
  <2>8. DisjointSlots'
    BY <2>2 DEF DisjointSlots, RingInv
  <2> QED
    BY <2>7, <2>8 DEF RingInv, n
<1>3. ASSUME NEW r \in Requests, TransferInit(r)
      PROVE  RingInv'
  <2>1. PICK a \in 0 .. DESC_MAX - 1 : TakenFrom(a, Cardinality(BuiltDescs))
    BY DEF RingInv
  <2>2. /\ Cardinality(BuiltDescs) \in Nat /\ Cardinality(BuiltDescs') \in 0 .. DESC_MAX
    <3>1. Cardinality(BuiltDescs) \in 0 .. DESC_MAX /\ DESC_MAX \in Nat
      BY <1>1, BuiltFits, EngineAssumption
    <3>2. (IsFiniteSet(BuiltDescs) /\ Cardinality(BuiltDescs) \in 0 .. DESC_MAX)'
      <4>1. FitTogether'
        BY DEF FitTogether, Descriptors
      <4> QED
        BY <1>1, <4>1, BuiltFits, PTL
    <3> QED
      BY <3>1, <3>2
  <2>3. Cardinality(BuiltDescs') = Cardinality(BuiltDescs) + DescCount(r)
    BY <1>1, <1>3, BuiltGrows
  <2>4. PICK n, taken : n = DescCount(r) /\ taken = Cardinality(BuiltDescs)
    OBVIOUS
  <2>5. taken + n <= DESC_MAX /\ taken \in Nat
    BY <2>2, <2>3, <2>4, EngineAssumption
  <2>6. TakenFrom(a, taken + n)' /\ DisjointSlots'
    BY <1>1, <1>3, <2>1, <2>4, <2>5, RingGrows DEF RingInv
  <2>7. taken + n = Cardinality(BuiltDescs)'
    BY <2>3, <2>4
  <2> QED
    BY <2>6, <2>7 DEF RingInv
<1> QED
  BY <1>2, <1>3

\* Slots that were taken once are not shared later.
LEMMA SlotsAreExclusive ==
  ASSUME CoreInv, DisjointSlots
  PROVE  RingExclusive
<1> SUFFICES ASSUME NEW t \in Transfers, NEW u \in Transfers, t # u
             PROVE  Occupied(t) \cap Occupied(u) = {}
  BY DEF RingExclusive
<1>1. PICK r \in Requests : t \in {<<r, k>> : k \in 1 .. Len(tfer[r])}
  BY DEF Transfers
<1>2. PICK k \in 1 .. Len(tfer[r]) : t = <<r, k>>
  BY <1>1
<1>3. PICK q \in Requests : u \in {<<q, j>> : j \in 1 .. Len(tfer[q])}
  BY DEF Transfers
<1>4. PICK j \in 1 .. Len(tfer[q]) : u = <<q, j>>
  BY <1>3
<1>5. Slots(r, k) \cap Slots(q, j) = {}
  BY <1>2, <1>4 DEF DisjointSlots
<1>6. Occupied(t) \subseteq Slots(r, k) /\ Occupied(u) \subseteq Slots(q, j)
  BY <1>2, <1>4 DEF Occupied, Slots, Xfer
<1> QED
  BY <1>5, <1>6

\* A request is cut at the end of the ring at most once.
LEMMA AtMostTwo ==
  ASSUME CoreInv, ShapeInv, DisjointSlots, NEW r \in Requests
  PROVE  Len(tfer[r]) <= 2
<1> SUFFICES ASSUME ~(Len(tfer[r]) <= 2)
             PROVE  FALSE
  OBVIOUS
<1>1. Len(tfer[r]) \in Nat /\ 1 \in 1 .. Len(tfer[r]) /\ 2 \in 1 .. Len(tfer[r])
      /\ 3 \in 1 .. Len(tfer[r])
  BY XferTyped DEF CoreInv
<1>2. ASSUME NEW k \in {1, 2}
      PROVE  DESC_MAX - 1 \in Slots(r, k)
  <2>1. k \in 1 .. Len(tfer[r]) /\ k + 1 \in 1 .. Len(tfer[r]) /\ k \in 1 .. (k + 1) - 1
    BY <1>1
  <2>2. /\ tfer[r][k].sw_desc_idx \in Nat /\ tfer[r][k].desc_num \in Nat \ {0}
        /\ tfer[r][k + 1].sw_desc_idx \in Nat /\ tfer[r][k + 1].desc_num \in Nat \ {0}
    BY <2>1, XferTyped DEF CoreInv
  <2>3. /\ tfer[r][k].sw_desc_idx + tfer[r][k].desc_num <= tfer[r][k + 1].sw_desc_idx
        /\ tfer[r][k + 1].sw_desc_idx + tfer[r][k + 1].desc_num <= Built(r)
        /\ Built(r) <= Size[r] /\ Size[r] \in Nat
    BY <2>1, EngineAssumption DEF CoreInv, LayoutInv, LayoutOf
  <2>4. Built(r) \in Nat
    <3>1. tfer[r] # <<>> => tfer[r][Len(tfer[r])] \in XferRecord
      BY DEF CoreInv, TypeOK
    <3> QED
      BY <3>1, EngineAssumption, SMTT(60) DEF Built, Current, Xfer, XferRecord
  <2>5. tfer[r][k].sw_desc_idx + tfer[r][k].desc_num # Size[r]
    BY <2>2, <2>3, <2>4
  <2>6. ~tfer[r][k].last_in_request
    BY <2>1, <2>5 DEF CoreInv, LayoutInv, LayoutOf
  <2>7. tfer[r][k].desc_index + tfer[r][k].desc_num = DESC_MAX
    BY <2>1, <2>6 DEF ShapeInv, ShapeOf
  <2>8. tfer[r][k].desc_index \in Nat /\ DESC_MAX \in Nat
    BY <2>1, SlotTyped
  <2>9. \A i \in Nat, n \in Nat \ {0} : i + n = DESC_MAX => DESC_MAX - 1 \in i .. i + n - 1
    OBVIOUS
  <2> QED
    BY <2>2, <2>7, <2>8, <2>9, Zenon DEF Slots
<1>3. Slots(r, 1) \cap Slots(r, 2) = {}
  BY <1>1 DEF DisjointSlots
<1> QED
  BY <1>2, <1>3

\* Requests of any kind that fit the ring together share no descriptor of
\* it, although transfer_init does not look at what is in use: desc_idx goes
\* round the ring at most once, in whatever order the calls build, queue and
\* wait, with interrupts or with the completion thread.
THEOREM RingHoldsThemAll ==
  ASSUME Orderly, FitTogether PROVE Spec => []RingExclusive
<1>1. Init => ShapeInv /\ RingInv
  BY RingInit
<1>2. EngineInv /\ ShapeInv /\ RingInv /\ [Next]_engineVars => ShapeInv' /\ RingInv'
  BY ShapeStep, RingStep
<1>3. EngineInv /\ RingInv => RingExclusive
  BY SlotsAreExclusive DEF EngineInv, RingInv
<1> QED
  BY <1>1, <1>2, <1>3, EngineInvariant, PTL DEF Spec
=============================================================================
