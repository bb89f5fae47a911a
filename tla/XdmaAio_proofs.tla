--------------------------- MODULE XdmaAio_proofs ---------------------------
(***************************************************************************)
(* Proofs about XdmaAio, for every number of calls, segments and requests: *)
(* the memory behind queued transfers is there, an asynchronous call ends  *)
(* once, and the length it ends with is what the device has moved.         *)
(***************************************************************************)
EXTENDS XdmaAio, XdmaEngine_proofs, SumTheorems

(***************************************************************************)
(* The inductive invariant, beside the engine's. A request is pinned for   *)
(* as long as the engine has it.                                           *)
(***************************************************************************)
PinInv ==
  \A r \in Requests :
    /\ pc[r] \notin Over \cup {"new"} => r \in pinned
    /\ r \in AsyncReqs /\ r \in pinned => pc[r] \notin Over \cup {"new"}

\* The segments of a call that are over, and what each was credited with.
OverSegs(i) == {r \in AsyncReqs : pc[r] \in Over /\ \E k \in DOMAIN Segments[i] : Segments[i][k] = r}
Credit(r)   == IF pc[r] \in Over THEN Transferred(tfer[r]) ELSE 0
Credits(i)  == [k \in 1 .. Len(Segments[i]) |-> Credit(Segments[i][k])]

\* A call that has not ended has submitted the segments before aio[i].at and
\* has counted the ones that are over, not all of them; a call that has
\* ended was refused before its first segment or has counted all of them.
IocbOf(i) ==
  LET c == aio[i]
      n == Len(Segments[i])
  IN  /\ c.ended = 0 =>
           /\ c.caio = IF c.at = 0 THEN "none" ELSE "live"
           /\ c.cmpl_cnt = Cardinality(OverSegs(i)) /\ c.cmpl_cnt < n
           /\ \A k \in 1 .. n : pc[Segments[i][k]] = "new" <=> k >= c.at
      /\ c.ended = 1 =>
           /\ c.at > n
           /\ \/ c.cmpl_cnt = 0 /\ \A k \in 1 .. n : pc[Segments[i][k]] = "new"
              \/ \A k \in 1 .. n : pc[Segments[i][k]] \in Over
      /\ c.res = SumOf(Credits(i))

IocbRecord(i) ==
  [at : 0 .. Len(Segments[i]) + 2, caio : {"none", "live", "freed"},
   cmpl_cnt : Nat, res : Nat, ended : {0, 1}]

AioType == DOMAIN aio = Iocbs /\ \A i \in Iocbs : aio[i] \in IocbRecord(i)
IocbInv == \A i \in Iocbs : IocbOf(i)

\* An asynchronous request that is over was built to its end, and what is
\* submitted of one is in the queue.
PendingOf(r) ==
  /\ pc[r] \in Over \cup {"queued"} => Built(r) = Size[r]
  /\ \A k \in 1 .. Len(tfer[r]) :
       /\ tfer[r][k].state # "ABORTED"
       /\ tfer[r][k].state = "INIT" => pc[r] = "queue" /\ k = Len(tfer[r])
       /\ tfer[r][k].state = "SUBMITTED" =>
            \E i \in 1 .. Len(eng.transfer_list) : eng.transfer_list[i] = <<r, k>>

PendingInv == \A r \in AsyncReqs : PendingOf(r)

AioInv ==
  /\ EngineInv /\ ShapeInv
  /\ PinInv /\ AioType /\ IocbInv /\ PendingInv

\* What may go wrong in a call without consequences for the segments queued
\* before: it goes wrong before the first of them.
EarlyFaults == AioFaults \subseteq {"direction", "align", "pages"}
-----------------------------------------------------------------------------
(***************************************************************************)
(* The sums of the model.                                                  *)
(***************************************************************************)

\* The lengths and what was moved of a sequence of transfers.
Numbers(xfers) == [k \in 1 .. Len(xfers) |-> xfers[k].desc_num]
Moves(xfers)   == [k \in 1 .. Len(xfers) |-> xfers[k].moved]

LEMMA SumOfNumbers ==
  ASSUME NEW xfers \in Seq(XferRecord)
  PROVE  /\ Numbers(xfers) \in Seq(Nat) /\ Len(Numbers(xfers)) = Len(xfers)
         /\ SumOver(xfers, LAMBDA x : x.desc_num) = SumOf(Numbers(xfers))
<1> DEFINE v == Numbers(xfers)
           n == Len(xfers)
<1>1. n \in Nat /\ \A k \in 1 .. n : xfers[k].desc_num \in Nat
  <2>1. n \in Nat /\ \A k \in 1 .. n : xfers[k] \in XferRecord
    OBVIOUS
  <2>2. \A x \in XferRecord : x.desc_num \in Nat
    BY EngineAssumption DEF XferRecord
  <2> QED
    BY <2>1, <2>2
<1>2. v \in Seq(Nat) /\ Len(v) = n
  BY <1>1, FunctionIsSeq DEF Numbers
<1> DEFINE h == CHOOSE h : h = [k \in 0 .. n |-> IF k = 0 THEN 0 ELSE h[k - 1] + xfers[k].desc_num]
<1>3. ASSUME NEW g
      PROVE  [k \in 0 .. n |-> IF k = 0 THEN 0 ELSE g[k - 1] + xfers[k].desc_num]
             = [k \in 0 .. Len(v) |-> IF k = 0 THEN 0 ELSE g[k - 1] + v[k]]
  <2>1. \A k \in 1 .. n : v[k] = xfers[k].desc_num
    BY DEF Numbers
  <2> QED
    BY <1>1, <1>2, <2>1
<1> HIDE DEF v
<1>4. PICK g : IsPartialSum(g, v)
  BY <1>2, PartialSumsExist
<1>5. g = [k \in 0 .. n |-> IF k = 0 THEN 0 ELSE g[k - 1] + xfers[k].desc_num]
  BY <1>3, <1>4 DEF IsPartialSum
<1>6. h = [k \in 0 .. n |-> IF k = 0 THEN 0 ELSE h[k - 1] + xfers[k].desc_num]
  BY <1>5
<1>7. SumOver(xfers, LAMBDA x : x.desc_num) = h[n]
  BY DEF SumOver
<1> HIDE DEF h
<1>8. IsPartialSum(h, v)
  BY <1>3, <1>6 DEF IsPartialSum
<1>9. h[n] = SumOf(v)
  BY <1>2, <1>8, SumUnique
<1> QED
  BY <1>2, <1>7, <1>9 DEF v

LEMMA SumOfMoves ==
  ASSUME NEW xfers \in Seq(XferRecord)
  PROVE  /\ Moves(xfers) \in Seq(Nat) /\ Len(Moves(xfers)) = Len(xfers)
         /\ SumOver(xfers, LAMBDA x : x.moved) = SumOf(Moves(xfers))
<1> DEFINE v == Moves(xfers)
           n == Len(xfers)
<1>1. n \in Nat /\ \A k \in 1 .. n : xfers[k].moved \in Nat
  <2>1. n \in Nat /\ \A k \in 1 .. n : xfers[k] \in XferRecord
    OBVIOUS
  <2>2. \A x \in XferRecord : x.moved \in Nat
    BY DEF XferRecord
  <2> QED
    BY <2>1, <2>2
<1>2. v \in Seq(Nat) /\ Len(v) = n
  BY <1>1, FunctionIsSeq DEF Moves
<1> DEFINE h == CHOOSE h : h = [k \in 0 .. n |-> IF k = 0 THEN 0 ELSE h[k - 1] + xfers[k].moved]
<1>3. ASSUME NEW g
      PROVE  [k \in 0 .. n |-> IF k = 0 THEN 0 ELSE g[k - 1] + xfers[k].moved]
             = [k \in 0 .. Len(v) |-> IF k = 0 THEN 0 ELSE g[k - 1] + v[k]]
  <2>1. \A k \in 1 .. n : v[k] = xfers[k].moved
    BY DEF Moves
  <2> QED
    BY <1>1, <1>2, <2>1
<1> HIDE DEF v
<1>4. PICK g : IsPartialSum(g, v)
  BY <1>2, PartialSumsExist
<1>5. g = [k \in 0 .. n |-> IF k = 0 THEN 0 ELSE g[k - 1] + xfers[k].moved]
  BY <1>3, <1>4 DEF IsPartialSum
<1>6. h = [k \in 0 .. n |-> IF k = 0 THEN 0 ELSE h[k - 1] + xfers[k].moved]
  BY <1>5
<1>7. SumOver(xfers, LAMBDA x : x.moved) = h[n]
  BY DEF SumOver
<1> HIDE DEF h
<1>8. IsPartialSum(h, v)
  BY <1>3, <1>6 DEF IsPartialSum
<1>9. h[n] = SumOf(v)
  BY <1>2, <1>8, SumUnique
<1> QED
  BY <1>2, <1>7, <1>9 DEF v

\* The length xdma_xfer_completion finds: that of the transfers before the
\* first that did not complete.
LEMMA TransferredPrefix ==
  ASSUME NEW xfers \in Seq(XferRecord)
  PROVE  \E good \in 0 .. Len(xfers) :
           /\ \A j \in 1 .. good : xfers[j].state = "COMPLETED"
           /\ good = Len(xfers) \/ xfers[good + 1].state # "COMPLETED"
           /\ Transferred(xfers) = SumOf(Numbers(SubSeq(xfers, 1, good)))
<1> DEFINE n == Len(xfers)
           Stop(k) == k = n \/ xfers[k + 1].state # "COMPLETED"
           Good(k) == (\A j \in 1 .. k : xfers[j].state = "COMPLETED") /\ Stop(k)
           T == {k \in 0 .. n : Stop(k)}
<1>1. n \in Nat
  OBVIOUS
<1>2. T \in SUBSET Nat /\ T # {}
  BY <1>1
<1>3. PICK m \in T : \A k \in T : m <= k
  <2> HIDE DEF T
  <2> QED
    BY <1>2, LeastMember
<1>4. m \in 0 .. n /\ Good(m)
  <2>1. m \in 0 .. n /\ Stop(m)
    BY <1>3
  <2>2. ASSUME NEW j \in 1 .. m
        PROVE  xfers[j].state = "COMPLETED"
    <3>1. j - 1 \in 0 .. n /\ ~(m <= j - 1) /\ (j - 1) + 1 = j /\ j - 1 # n
      BY <1>1, <2>1
    <3>2. ~Stop(j - 1)
      BY <1>3, <3>1
    <3> QED
      BY <3>1, <3>2
  <2> QED
    BY <2>1, <2>2
<1> DEFINE good == CHOOSE k \in 0 .. n : Good(k)
<1>5. good \in 0 .. n /\ Good(good)
  BY <1>4
<1>6. Transferred(xfers) = SumOver(SubSeq(xfers, 1, good), LAMBDA x : x.desc_num)
  BY DEF Transferred
<1> HIDE DEF good
<1>7. SubSeq(xfers, 1, good) \in Seq(XferRecord)
  BY <1>1, <1>5
<1>8. Transferred(xfers) = SumOf(Numbers(SubSeq(xfers, 1, good)))
  BY <1>6, <1>7, SumOfNumbers
<1> QED
  BY <1>5, <1>8

\* It is never more than what was moved, and all there is of a request whose
\* transfers all completed.
LEMMA TransferredBounds ==
  ASSUME NEW xfers \in Seq(XferRecord),
         \A k \in 1 .. Len(xfers) :
           xfers[k].state = "COMPLETED" => xfers[k].moved = xfers[k].desc_num
  PROVE  /\ Transferred(xfers) \in Nat /\ Transferred(xfers) <= SumOf(Moves(xfers))
         /\ (\A k \in 1 .. Len(xfers) : xfers[k].state = "COMPLETED") =>
              Transferred(xfers) = SumOf(Numbers(xfers))
<1>1. PICK good \in 0 .. Len(xfers) :
        /\ \A j \in 1 .. good : xfers[j].state = "COMPLETED"
        /\ good = Len(xfers) \/ xfers[good + 1].state # "COMPLETED"
        /\ Transferred(xfers) = SumOf(Numbers(SubSeq(xfers, 1, good)))
  BY TransferredPrefix
<1> DEFINE s == SubSeq(xfers, 1, good)
<1>2. /\ Len(xfers) \in Nat /\ s \in Seq(XferRecord) /\ Len(s) = good
      /\ \A k \in 1 .. good : s[k] = xfers[k]
      /\ good = Len(xfers) => s = xfers
  BY <1>1
<1> HIDE DEF s
<1>3. /\ Numbers(s) \in Seq(Nat) /\ Len(Numbers(s)) = good
      /\ Moves(xfers) \in Seq(Nat) /\ Len(Moves(xfers)) = Len(xfers)
  BY <1>2, SumOfNumbers, SumOfMoves
<1>4. \A k \in 1 .. good : Numbers(s)[k] = Moves(xfers)[k]
  BY <1>1, <1>2 DEF Numbers, Moves
<1>5. SumOf(Numbers(s)) <= SumOf(Moves(xfers))
  <2>1. Len(Numbers(s)) <= Len(Moves(xfers))
    BY <1>2, <1>3
  <2>2. \A k \in 1 .. Len(Numbers(s)) : Numbers(s)[k] = Moves(xfers)[k]
    BY <1>3, <1>4
  <2> QED
    BY <1>3, <2>1, <2>2, SumPrefix
<1>6. SumOf(Numbers(s)) \in Nat
  <2>1. 0 \in 0 .. Len(Numbers(s))
    BY <1>2, <1>3
  <2> QED
    BY <1>3, <2>1, PartialIsLess
<1>7. (\A k \in 1 .. Len(xfers) : xfers[k].state = "COMPLETED") => good = Len(xfers)
  <2>1. good # Len(xfers) => good + 1 \in 1 .. Len(xfers)
    BY <1>1, <1>2
  <2> QED
    BY <1>1, <2>1
<1> QED
  BY <1>1, <1>2, <1>5, <1>6, <1>7 DEF s

\* The transfers of a request built to its end have its size together.
LEMMA NumbersAreSize ==
  ASSUME CoreInv, ShapeInv, NEW r \in Requests, Built(r) = Size[r]
  PROVE  SumOf(Numbers(tfer[r])) = Size[r]
<1> DEFINE s == tfer[r]
           v == Numbers(s)
           start == [k \in 1 .. Len(v) |-> s[k].sw_desc_idx]
<1>1. /\ s \in Seq(XferRecord) /\ Len(s) \in Nat
      /\ \A k \in 1 .. Len(s) : s[k].sw_desc_idx \in Nat
  BY XferTyped DEF CoreInv
<1>2. s # <<>>
  BY EngineAssumption DEF Built
<1>3. Len(s) # 0 /\ 1 \in 1 .. Len(s) /\ Len(s) \in 1 .. Len(s)
  BY <1>1, <1>2
<1>4. Built(r) = s[Len(s)].sw_desc_idx + s[Len(s)].desc_num
  BY <1>2 DEF Built, Current, Xfer
<1>5. v \in Seq(Nat) /\ Len(v) = Len(s) /\ \A k \in 1 .. Len(s) : v[k] = s[k].desc_num
  BY <1>1, SumOfNumbers DEF Numbers
<1>6. start \in [1 .. Len(v) -> Nat] /\ \A k \in 1 .. Len(s) : start[k] = s[k].sw_desc_idx
  BY <1>1, <1>5
<1>7. start[1] = 0
  BY <1>3, <1>6 DEF ShapeInv, ShapeOf
<1>8. ASSUME NEW k \in 1 .. Len(v) - 1
      PROVE  start[k + 1] = start[k] + v[k]
  <2>1. k \in 1 .. Len(s) /\ k + 1 \in 1 .. Len(s) /\ k + 1 > 1 /\ (k + 1) - 1 = k
    BY <1>1, <1>5
  <2>2. s[k + 1].sw_desc_idx = s[k].sw_desc_idx + s[k].desc_num
    BY <2>1 DEF ShapeInv, ShapeOf
  <2> QED
    BY <1>5, <1>6, <2>1, <2>2
<1> HIDE DEF start, v
<1>9. SumOf(v) = start[Len(v)] + v[Len(v)]
  BY <1>3, <1>5, <1>6, <1>7, <1>8, SumTelescopes
<1> QED
  BY <1>3, <1>4, <1>5, <1>6, <1>9 DEF v

\* The segments of a call, and each in one place of one call.
LEMMA SegmentTyped ==
  ASSUME NEW i \in Iocbs
  PROVE  /\ Segments[i] \in Seq(AsyncReqs) /\ Len(Segments[i]) \in Nat \ {0}
         /\ DOMAIN Segments[i] = 1 .. Len(Segments[i])
         /\ \A k \in 1 .. Len(Segments[i]) :
              Segments[i][k] \in AsyncReqs /\ Segments[i][k] \in Requests
<1>1. Segments[i] \in Seq(AsyncReqs) /\ Segments[i] # <<>>
  BY AioAssumption
<1>2. /\ Len(Segments[i]) \in Nat \ {0} /\ DOMAIN Segments[i] = 1 .. Len(Segments[i])
      /\ \A k \in 1 .. Len(Segments[i]) : Segments[i][k] \in AsyncReqs
  BY <1>1
<1> QED
  BY <1>1, <1>2, EngineAssumption

LEMMA SegmentUnique ==
  ASSUME NEW i \in Iocbs, NEW j \in Iocbs, NEW k \in 1 .. Len(Segments[i]),
         NEW l \in 1 .. Len(Segments[j]), Segments[i][k] = Segments[j][l]
  PROVE  i = j /\ k = l
<1>1. k \in DOMAIN Segments[i] /\ l \in DOMAIN Segments[j]
  BY SegmentTyped
<1> QED
  BY <1>1, AioAssumption

\* What was moved for the segments of a call, and their sizes.
MovesOf(i) == [k \in 1 .. Len(Segments[i]) |-> SumOf(Moves(tfer[Segments[i][k]]))]
SizesOf(i) == [k \in 1 .. Len(Segments[i]) |-> Size[Segments[i][k]]]

LEMMA SumOfSizes ==
  ASSUME NEW i \in Iocbs
  PROVE  /\ SizesOf(i) \in Seq(Nat) /\ Len(SizesOf(i)) = Len(Segments[i])
         /\ SumOver(Segments[i], LAMBDA r : Size[r]) = SumOf(SizesOf(i))
<1> DEFINE s == Segments[i]
           v == SizesOf(i)
           n == Len(s)
<1>1. n \in Nat /\ \A k \in 1 .. n : Size[s[k]] \in Nat
  BY SegmentTyped, EngineAssumption
<1>2. v \in Seq(Nat) /\ Len(v) = n
  BY <1>1, FunctionIsSeq DEF SizesOf
<1> DEFINE h == CHOOSE h : h = [k \in 0 .. n |-> IF k = 0 THEN 0 ELSE h[k - 1] + Size[s[k]]]
<1>3. ASSUME NEW g
      PROVE  [k \in 0 .. n |-> IF k = 0 THEN 0 ELSE g[k - 1] + Size[s[k]]]
             = [k \in 0 .. Len(v) |-> IF k = 0 THEN 0 ELSE g[k - 1] + v[k]]
  <2>1. \A k \in 1 .. n : v[k] = Size[s[k]]
    BY DEF SizesOf
  <2> QED
    BY <1>1, <1>2, <2>1
<1> HIDE DEF v
<1>4. PICK g : IsPartialSum(g, v)
  BY <1>2, PartialSumsExist
<1>5. g = [k \in 0 .. n |-> IF k = 0 THEN 0 ELSE g[k - 1] + Size[s[k]]]
  BY <1>3, <1>4 DEF IsPartialSum
<1>6. h = [k \in 0 .. n |-> IF k = 0 THEN 0 ELSE h[k - 1] + Size[s[k]]]
  BY <1>5
<1>7. SumOver(s, LAMBDA r : Size[r]) = h[n]
  BY DEF SumOver
<1> HIDE DEF h
<1>8. IsPartialSum(h, v)
  BY <1>3, <1>6 DEF IsPartialSum
<1>9. h[n] = SumOf(v)
  BY <1>2, <1>8, SumUnique
<1> QED
  BY <1>2, <1>7, <1>9 DEF v

LEMMA SumOfMoved ==
  ASSUME TypeOK, NEW i \in Iocbs
  PROVE  /\ MovesOf(i) \in Seq(Nat) /\ Len(MovesOf(i)) = Len(Segments[i])
         /\ SumOver(Segments[i], LAMBDA r : SumOver(tfer[r], LAMBDA x : x.moved))
              = SumOf(MovesOf(i))
<1> DEFINE s == Segments[i]
           v == MovesOf(i)
           n == Len(s)
           M(r) == SumOver(tfer[r], LAMBDA x : x.moved)
<1>1. n \in Nat /\ \A k \in 1 .. n : M(s[k]) \in Nat /\ M(s[k]) = SumOf(Moves(tfer[s[k]]))
  <2>1. n \in Nat
    BY SegmentTyped
  <2>2. ASSUME NEW k \in 1 .. n
        PROVE  M(s[k]) \in Nat /\ M(s[k]) = SumOf(Moves(tfer[s[k]]))
    <3>1. tfer[s[k]] \in Seq(XferRecord)
      BY SegmentTyped, XferTyped
    <3>2. /\ M(s[k]) = SumOf(Moves(tfer[s[k]])) /\ Moves(tfer[s[k]]) \in Seq(Nat)
      BY <3>1, SumOfMoves
    <3>3. 0 \in 0 .. Len(Moves(tfer[s[k]]))
      BY <3>2
    <3> QED
      BY <3>2, <3>3, PartialIsLess
  <2> QED
    BY <2>1, <2>2
<1>2. v \in Seq(Nat) /\ Len(v) = n
  <2>1. v \in [1 .. n -> Nat]
    BY <1>1 DEF MovesOf
  <2> QED
    BY <1>1, <2>1, FunctionIsSeq
<1> DEFINE h == CHOOSE h : h = [k \in 0 .. n |-> IF k = 0 THEN 0 ELSE h[k - 1] + M(s[k])]
<1>7. SumOver(s, LAMBDA r : SumOver(tfer[r], LAMBDA x : x.moved)) = h[n]
  BY DEF SumOver
<1>3. ASSUME NEW g
      PROVE  [k \in 0 .. n |-> IF k = 0 THEN 0 ELSE g[k - 1] + M(s[k])]
             = [k \in 0 .. Len(v) |-> IF k = 0 THEN 0 ELSE g[k - 1] + v[k]]
  <2>1. \A k \in 1 .. n : v[k] = M(s[k])
    BY <1>1 DEF MovesOf
  <2> HIDE DEF M
  <2> QED
    BY <1>1, <1>2, <2>1
<1> HIDE DEF v, M
<1>4. PICK g : IsPartialSum(g, v)
  BY <1>2, PartialSumsExist
<1>5. g = [k \in 0 .. n |-> IF k = 0 THEN 0 ELSE g[k - 1] + M(s[k])]
  BY <1>3, <1>4 DEF IsPartialSum
<1>6. h = [k \in 0 .. n |-> IF k = 0 THEN 0 ELSE h[k - 1] + M(s[k])]
  BY <1>5
<1> HIDE DEF h
<1>8. IsPartialSum(h, v)
  BY <1>3, <1>6 DEF IsPartialSum
<1>9. h[n] = SumOf(v)
  BY <1>2, <1>8, SumUnique
<1> QED
  BY <1>2, <1>7, <1>9 DEF v

\* The callback's sum over the segments that ended in one service: over none
\* and over one.
LEMMA SumOfNone ==
  SumOver(SetToSeq({}), LAMBDA r : Transferred(tfer'[r])) = 0
<1>1. SetToSeq({}) = <<>>
  <2>1. Cardinality({}) = 0
    BY FS_EmptySet
  <2>2. \A f \in [1 .. 0 -> {}] : f = <<>>
    OBVIOUS
  <2>3. <<>> \in [1 .. 0 -> {}] /\ IsInjective(<<>>)
    BY DEF IsInjective
  <2> QED
    BY <2>1, <2>2, <2>3 DEF SetToSeq
<1> DEFINE g == [k \in 0 .. 0 |-> 0]
<1>2. g = [k \in 0 .. Len(<<>>) |->
             IF k = 0 THEN 0 ELSE g[k - 1] + Transferred(tfer'[(<<>>)[k]])]
  OBVIOUS
<1> HIDE DEF g
<1> QED
  BY <1>1, <1>2 DEF SumOver

LEMMA SumOfOne ==
  ASSUME NEW q, Transferred(tfer'[q]) \in Nat
  PROVE  SumOver(SetToSeq({q}), LAMBDA r : Transferred(tfer'[r])) = Transferred(tfer'[q])
<1> DEFINE s == SetToSeq({q})
           T(r) == Transferred(tfer'[r])
<1>1. s = <<q>>
  <2>1. Cardinality({q}) = 1
    BY FS_Singleton
  <2>2. \A f \in [1 .. 1 -> {q}] : f = <<q>>
    OBVIOUS
  <2>3. <<q>> \in [1 .. 1 -> {q}] /\ IsInjective(<<q>>)
    BY DEF IsInjective
  <2> QED
    BY <2>1, <2>2, <2>3 DEF SetToSeq
<1>2. Len(s) = 1 /\ s[1] = q
  BY <1>1
<1> HIDE DEF s
<1> DEFINE h == CHOOSE h : h = [k \in 0 .. Len(s) |-> IF k = 0 THEN 0 ELSE h[k - 1] + T(s[k])]
<1>3. SumOver(s, LAMBDA r : Transferred(tfer'[r])) = h[Len(s)]
  BY DEF SumOver
<1>4. T(q) \in Nat
  OBVIOUS
<1> HIDE DEF T
<1> DEFINE g == [k \in 0 .. 1 |-> IF k = 0 THEN 0 ELSE T(q)]
<1>5. g = [k \in 0 .. Len(s) |-> IF k = 0 THEN 0 ELSE g[k - 1] + T(s[k])]
  BY <1>2, <1>4
<1> HIDE DEF g
<1>6. h = [k \in 0 .. Len(s) |-> IF k = 0 THEN 0 ELSE h[k - 1] + T(s[k])]
  BY <1>5
<1> HIDE DEF h
<1>7. h[0] = 0 /\ h[1] = h[0] + T(s[1])
  BY <1>2, <1>6
<1>8. h[Len(s)] = T(q)
  BY <1>2, <1>4, <1>7
<1> QED
  BY <1>3, <1>8 DEF s, T
-----------------------------------------------------------------------------
(***************************************************************************)
(* Steps that begin no asynchronous request and end none.                  *)
(***************************************************************************)
AsyncKept ==
  \A q \in AsyncReqs :
    /\ pc'[q] = "new" <=> pc[q] = "new"
    /\ pc'[q] \in Over <=> pc[q] \in Over
    /\ pc[q] \in Over => tfer'[q] = tfer[q]

CallsKept ==
  /\ AsyncKept
  /\ \A q \in Requests : pc'[q] \notin Over \cup {"new"} => pc[q] \notin Over \cup {"new"}

\* A change of one transfer leaves the other requests alone.
LEMMA ChangesOthers ==
  ASSUME TypeOK, NEW r, NEW k, NEW x, Changes(r, k, x), NEW q \in Requests, q # r
  PROVE  tfer'[q] = tfer[q]
<1>1. tfer[q] \in Seq(XferRecord) /\ tfer'[q] \in Seq(XferRecord) /\ Len(tfer'[q]) = Len(tfer[q])
  BY DEF TypeOK, Changes
<1>2. \A j \in 1 .. Len(tfer[q]) : tfer'[q][j] = tfer[q][j]
  BY DEF Changes
<1> QED
  BY <1>1, <1>2

\* The steps of the completion thread up to its service of the engine.
ThreadOnly ==
  \/ ThreadCheck \/ ThreadWakes \/ ThreadProc \/ PollRead \/ PollGivesUp \/ PollClear

\* The engine's steps other than a submission and a service that takes a
\* transfer off the queue.
LEMMA EngineKeepsCalls ==
  ASSUME CoreInv,
         \/ \E r \in Requests : \/ TransferInit(r) \/ TransferQueue(r) \/ Wakeup(r)
                                \/ WaitCompleted(r) \/ WaitFailed(r)
         \/ Irq \/ ServiceIdle \/ ServiceStatus \/ ServiceNothing \/ HwMove \/ HwError
         \/ ThreadOnly
  PROVE  CallsKept
<1>0. TypeOK /\ CallInv
  BY DEF CoreInv
<1>1. CASE UNCHANGED <<pc, tfer>>
  BY <1>1 DEF CallsKept, AsyncKept
<1>2. ASSUME NEW r \in Requests, TransferInit(r)
      PROVE  CallsKept
  <2>1. pc[r] = "build" /\ pc' = [pc EXCEPT ![r] = "queue"]
    BY <1>2 DEF TransferInit
  <2>2. \A q \in Requests \ {r} : tfer'[q] = tfer[q] /\ pc'[q] = pc[q]
    BY <1>0, <1>2, <2>1, CoreTransferInit DEF Grows, TypeOK
  <2>3. pc'[r] = "queue"
    BY <1>0, <2>1 DEF TypeOK
  <2> QED
    BY <2>1, <2>2, <2>3, EngineAssumption DEF CallsKept, AsyncKept, Over
<1>3. ASSUME NEW r \in Requests, TransferQueue(r)
      PROVE  CallsKept
  <2>1. pc[r] = "queue" /\ pc'[r] \in {"wait", "queued", "build"}
        /\ \A q \in Requests \ {r} : pc'[q] = pc[q]
    BY <1>0, <1>3 DEF TransferQueue, TypeOK
  <2>2. \A q \in Requests \ {r} : tfer'[q] = tfer[q]
    <3>1. \E k, x : Changes(r, k, x)
      BY <1>3, CoreTransferQueue
    <3> QED
      BY <1>0, <3>1, ChangesOthers
  <2> QED
    BY <2>1, <2>2, EngineAssumption DEF CallsKept, AsyncKept, Over
<1>4. ASSUME NEW r \in Requests, WaitCompleted(r) \/ WaitFailed(r)
      PROVE  CallsKept
  <2>1. /\ pc[r] = "wait" /\ tfer' = tfer /\ pc'[r] \in {"done", "build", "failed"}
        /\ \A q \in Requests \ {r} : pc'[q] = pc[q]
    BY <1>0, <1>4 DEF WaitCompleted, WaitFailed, Proceed, TypeOK
  <2>2. r \notin AsyncReqs
    BY <1>0, <2>1 DEF CallInv, CallOf
  <2> QED
    BY <2>1, <2>2, EngineAssumption DEF CallsKept, AsyncKept, Over
<1>5. CASE HwMove \/ HwError
  <2>1. Active /\ UNCHANGED pc
    BY <1>5 DEF HwMove, HwError, CoreInv, HeadInv, Active
  <2>2. pc[hw.xfer[1]] \notin Over /\ hw.xfer[1] \in Requests
    BY <2>1, ActiveHead
  <2>3. \A q \in Requests : q # hw.xfer[1] => tfer'[q] = tfer[q]
    BY <1>0, <1>5, CoreDevice, ChangesOthers
  <2> QED
    BY <2>1, <2>2, <2>3, EngineAssumption DEF CallsKept, AsyncKept
<1>6. CASE Irq \/ ServiceIdle \/ ServiceStatus \/ ServiceNothing
  BY <1>1, <1>6 DEF Irq, ServiceIdle, ServiceStatus, ServiceNothing
<1>7. CASE ThreadOnly \/ \E r \in Requests : Wakeup(r)
  BY <1>1, <1>7 DEF ThreadOnly, ThreadCheck, ThreadWakes, ThreadProc, PollRead, PollGivesUp,
                    PollClear, EngineUntouched, Wakeup
<1> QED
  BY <1>2, <1>3, <1>4, <1>5, <1>6, <1>7

\* A call sees its segments through these.
LEMMA IocbKept ==
  ASSUME IocbInv, AsyncKept, NEW i \in Iocbs
  PROVE  /\ OverSegs(i)' = OverSegs(i) /\ SumOf(Credits(i))' = SumOf(Credits(i))
         /\ \A k \in 1 .. Len(Segments[i]) :
              /\ pc'[Segments[i][k]] = "new" <=> pc[Segments[i][k]] = "new"
              /\ pc'[Segments[i][k]] \in Over <=> pc[Segments[i][k]] \in Over
         /\ aio'[i] = aio[i] => IocbOf(i)'
<1>1. /\ Len(Segments[i]) \in Nat \ {0}
      /\ \A k \in 1 .. Len(Segments[i]) : Segments[i][k] \in AsyncReqs
  BY SegmentTyped
<1>2. OverSegs(i)' = OverSegs(i)
  BY DEF OverSegs, AsyncKept
<1>3. \A k \in 1 .. Len(Segments[i]) : Credit(Segments[i][k])' = Credit(Segments[i][k])
  <2> SUFFICES ASSUME NEW k \in 1 .. Len(Segments[i])
               PROVE  Credit(Segments[i][k])' = Credit(Segments[i][k])
    OBVIOUS
  <2>1. PICK q \in AsyncReqs : q = Segments[i][k]
    BY <1>1
  <2>2. Credit(q)' = Credit(q)
    <3>1. pc'[q] \in Over <=> pc[q] \in Over
      BY DEF AsyncKept
    <3>2. CASE pc[q] \in Over
      <4>1. tfer'[q] = tfer[q]
        BY <3>2 DEF AsyncKept
      <4>2. Transferred(tfer[q])' = Transferred(tfer[q])
        BY <4>1
      <4> QED
        BY <3>1, <3>2, <4>2 DEF Credit
    <3>3. CASE pc[q] \notin Over
      BY <3>1, <3>3 DEF Credit
    <3> QED
      BY <3>2, <3>3
  <2> QED
    BY <2>1, <2>2
<1>4. Credits(i)' = Credits(i)
  BY <1>3 DEF Credits
<1>5. \A k \in 1 .. Len(Segments[i]) :
        /\ pc'[Segments[i][k]] = "new" <=> pc[Segments[i][k]] = "new"
        /\ pc'[Segments[i][k]] \in Over <=> pc[Segments[i][k]] \in Over
  BY <1>1 DEF AsyncKept
<1>6. IocbOf(i)
  BY DEF IocbInv
<1>7. SumOf(Credits(i))' = SumOf(Credits(i))
  BY <1>4
<1> QED
  BY <1>2, <1>5, <1>6, <1>7 DEF IocbOf

LEMMA CallsFrame ==
  ASSUME PinInv, AioType, IocbInv, CallsKept, UNCHANGED aioVars
  PROVE  PinInv' /\ AioType' /\ IocbInv'
<1>1. UNCHANGED <<aio, pinned>> /\ AsyncKept
  BY DEF aioVars, CallsKept
<1>2. PinInv'
  BY <1>1, EngineAssumption DEF PinInv, CallsKept, AsyncKept
<1>3. AioType'
  BY <1>1 DEF AioType, IocbRecord
<1>4. IocbInv'
  BY <1>1, IocbKept DEF IocbInv
<1> QED
  BY <1>2, <1>3, <1>4

LEMMA BlockingStep ==
  ASSUME CoreInv, PinInv, AioType, IocbInv, NEW r \in Requests, Blocking(r)
  PROVE  AsyncKept /\ tfer' = tfer /\ PinInv' /\ AioType' /\ IocbInv'
<1>0. pc \in [Requests -> Waiting \cup Over]
  BY DEF CoreInv, TypeOK
<1>1. /\ r \notin AsyncReqs /\ UNCHANGED <<tfer, aio>>
      /\ \A q \in Requests \ {r} : pc'[q] = pc[q] /\ (q \in pinned' <=> q \in pinned)
      /\ pc'[r] \notin Over \cup {"new"} => r \in pinned'
  <2>1. CASE SyncCall(r)
    BY <1>0, <2>1 DEF SyncCall, Over
  <2>2. CASE SyncSubmit(r)
    BY <1>0, <2>2 DEF SyncSubmit, SubmitSync, aioVars
  <2>3. CASE SyncReturn(r)
    BY <1>0, <2>3 DEF SyncReturn, engineVars
  <2> QED
    BY <2>1, <2>2, <2>3 DEF Blocking
<1>2. AsyncKept
  BY <1>1, EngineAssumption DEF AsyncKept
<1>3. PinInv'
  BY <1>1, EngineAssumption DEF PinInv
<1>4. AioType'
  BY <1>1 DEF AioType, IocbRecord
<1>5. IocbInv'
  BY <1>1, <1>2, IocbKept DEF IocbInv
<1> QED
  BY <1>1, <1>2, <1>3, <1>4, <1>5
-----------------------------------------------------------------------------
(***************************************************************************)
(* The steps of an asynchronous call.                                      *)
(***************************************************************************)

\* A call changes nothing but itself, and no segment.
LEMMA OneCall ==
  ASSUME AioType, IocbInv, NEW i \in Iocbs, NEW c \in IocbRecord(i),
         UNCHANGED engineVars, aio' = [aio EXCEPT ![i] = c], IocbOf(i)'
  PROVE  AioType' /\ IocbInv'
<1>1. aio'[i] = c /\ DOMAIN aio' = Iocbs /\ \A j \in Iocbs \ {i} : aio'[j] = aio[j]
  BY DEF AioType
<1>2. AioType'
  BY <1>1 DEF AioType, IocbRecord
<1>3. AsyncKept
  BY DEF AsyncKept, engineVars
<1>4. \A j \in Iocbs \ {i} : IocbOf(j)'
  BY <1>1, <1>3, IocbKept
<1> QED
  BY <1>2, <1>4 DEF IocbInv

LEMMA RefusedEnds ==
  ASSUME AioType, IocbInv, NEW i \in Iocbs, UNCHANGED engineVars,
         NEW caio \in {"none", "live", "freed"}, aio[i].at \in {0, 1},
         aio[i].ended = 0,
         aio' = [aio EXCEPT ![i] = [aio[i] EXCEPT !.at = Len(Segments[i]) + 2,
                                                  !.caio = caio, !.ended = 1]]
  PROVE  AioType' /\ IocbInv'
<1> DEFINE c == [aio[i] EXCEPT !.at = Len(Segments[i]) + 2, !.caio = caio, !.ended = 1]
           n == Len(Segments[i])
<1>1. aio[i] \in IocbRecord(i) /\ IocbOf(i) /\ n \in Nat
  BY SegmentTyped DEF AioType, IocbInv
<1>2. /\ c \in IocbRecord(i) /\ c.at = n + 2 /\ c.ended = 1
      /\ c.cmpl_cnt = aio[i].cmpl_cnt /\ c.res = aio[i].res
  <2>1. n + 2 \in 0 .. n + 2
    BY <1>1
  <2>2. c \in IocbRecord(i)
    BY <1>1, <2>1 DEF IocbRecord
  <2>3. /\ c.at = n + 2 /\ c.ended = 1
        /\ c.cmpl_cnt = aio[i].cmpl_cnt /\ c.res = aio[i].res
    BY <1>1 DEF IocbRecord
  <2> QED
    BY <2>2, <2>3
<1>3. aio'[i] = c
  BY DEF AioType
<1>4. \A k \in 1 .. n : pc[Segments[i][k]] = "new"
  <2>1. \A k \in 1 .. n : k >= aio[i].at
    BY <1>1
  <2> QED
    BY <1>1, <2>1 DEF IocbOf
<1>5. aio[i].cmpl_cnt = 0
  <2>1. aio[i].cmpl_cnt = Cardinality(OverSegs(i))
    BY <1>1 DEF IocbOf
  <2>2. DOMAIN Segments[i] = 1 .. n
    BY SegmentTyped
  <2>3. OverSegs(i) = {}
    BY <1>4, <2>2 DEF OverSegs, Over
  <2> QED
    BY <2>1, <2>3, FS_EmptySet
<1>6. UNCHANGED <<pc, tfer>>
  BY DEF engineVars
<1>7. SumOf(Credits(i))' = SumOf(Credits(i)) /\ aio[i].res = SumOf(Credits(i))
  <2>1. AsyncKept
    BY <1>6 DEF AsyncKept
  <2> QED
    BY <1>1, <2>1, IocbKept DEF IocbOf
<1> HIDE DEF c
<1>8. IocbOf(i)'
  <2>1. c.at > n
    BY <1>1, <1>2
  <2> QED
    BY <1>2, <1>3, <1>4, <1>5, <1>6, <1>7, <2>1 DEF IocbOf
<1> QED
  BY <1>2, <1>8, OneCall DEF c

LEMMA AioCallStep ==
  ASSUME AioType, IocbInv, PinInv, NEW i \in Iocbs, AioCall(i)
  PROVE  /\ UNCHANGED engineVars /\ AioType' /\ IocbInv' /\ PinInv'
<1>1. /\ aio[i].at = 0 /\ UNCHANGED engineVars /\ UNCHANGED pinned /\ UNCHANGED <<pc, tfer>>
      /\ aio[i] \in IocbRecord(i) /\ IocbOf(i) /\ Len(Segments[i]) \in Nat \ {0}
  BY SegmentTyped DEF AioCall, engineVars, AioType, IocbInv
<1>2. aio[i].ended = 0
  BY <1>1 DEF IocbOf, IocbRecord
<1>3. aio[i].caio = "none"
  BY <1>1, <1>2 DEF IocbOf
<1>4. PinInv'
  BY <1>1 DEF PinInv
<1>5. CASE aio' = [aio EXCEPT ![i].at = Len(Segments[i]) + 2, ![i].ended = 1]
  <2>1. aio' = [aio EXCEPT ![i] = [aio[i] EXCEPT !.at = Len(Segments[i]) + 2,
                                                 !.caio = "none", !.ended = 1]]
    <3>1. [aio[i] EXCEPT !.at = Len(Segments[i]) + 2, !.ended = 1]
            = [aio[i] EXCEPT !.at = Len(Segments[i]) + 2, !.caio = "none", !.ended = 1]
      BY <1>1, <1>3 DEF IocbRecord
    <3>2. aio' = [aio EXCEPT ![i] = [aio[i] EXCEPT !.at = Len(Segments[i]) + 2, !.ended = 1]]
      BY <1>1, <1>5 DEF AioType, IocbRecord
    <3> QED
      BY <3>1, <3>2
  <2> QED
    BY <1>1, <1>2, <1>4, <2>1, RefusedEnds
<1>6. CASE aio' = [aio EXCEPT ![i].at = 1, ![i].caio = "live"]
  <2> DEFINE c == [aio[i] EXCEPT !.at = 1, !.caio = "live"]
  <2>1. aio' = [aio EXCEPT ![i] = c] /\ aio'[i] = c
    BY <1>1, <1>6 DEF AioType, IocbRecord
  <2>2. /\ c \in IocbRecord(i) /\ c.at = 1 /\ c.caio = "live" /\ c.ended = 0
        /\ c.cmpl_cnt = aio[i].cmpl_cnt /\ c.res = aio[i].res
    <3>1. 1 \in 0 .. Len(Segments[i]) + 2
      BY <1>1
    <3>2. c \in IocbRecord(i)
      BY <1>1, <3>1 DEF IocbRecord
    <3>3. /\ c.at = 1 /\ c.caio = "live" /\ c.ended = 0
          /\ c.cmpl_cnt = aio[i].cmpl_cnt /\ c.res = aio[i].res
      BY <1>1, <1>2 DEF IocbRecord
    <3> QED
      BY <3>2, <3>3
  <2> HIDE DEF c
  <2>3. /\ OverSegs(i)' = OverSegs(i) /\ SumOf(Credits(i))' = SumOf(Credits(i))
    <3>1. AsyncKept
      BY <1>1 DEF AsyncKept
    <3> QED
      BY <1>1, <3>1, IocbKept
  <2>4. \A k \in 1 .. Len(Segments[i]) : k >= 0 /\ k >= 1
    BY <1>1
  <2>5. IocbOf(i)'
    BY <1>1, <1>2, <2>1, <2>2, <2>3, <2>4 DEF IocbOf
  <2> QED
    BY <1>1, <1>4, <2>1, <2>2, <2>5, OneCall
<1> QED
  BY <1>5, <1>6 DEF AioCall

\* A round of the loop over the segments refuses the call at the first
\* segment or submits the next one, its pages pinned.
LEMMA SegmentCases ==
  ASSUME EarlyFaults, AioType, IocbInv, NEW i \in Iocbs, AioSegment(i)
  PROVE  LET k == aio[i].at
         IN  /\ k \in 1 .. Len(Segments[i]) /\ aio[i].ended = 0
             /\ \/ /\ k = 1 /\ UNCHANGED engineVars /\ UNCHANGED pinned
                   /\ \E caio \in {"none", "live", "freed"} :
                        aio' = [aio EXCEPT ![i] = [aio[i] EXCEPT !.at = Len(Segments[i]) + 2,
                                                                 !.caio = caio, !.ended = 1]]
                \/ /\ SubmitNowait(Segments[i][k])
                   /\ aio' = [aio EXCEPT ![i] = [aio[i] EXCEPT !.at = k + 1]]
                   /\ pinned' = pinned \cup {Segments[i][k]}
<1> DEFINE k == aio[i].at
           fault == IF k = 1 THEN [align |-> "align", pages |-> "pages"]
                             ELSE [align |-> "late_align", pages |-> "late_pages"]
<1>1. k \in 1 .. Len(Segments[i])
  BY DEF AioSegment
<1>2. aio[i] \in IocbRecord(i) /\ IocbOf(i) /\ Len(Segments[i]) \in Nat
  BY SegmentTyped DEF AioType, IocbInv
<1>3. aio[i].ended = 0
  BY <1>1, <1>2 DEF IocbOf, IocbRecord
<1>4. PICK misaligned \in Fails(fault.align), unpinnable \in Fails(fault.pages),
           offline \in Fails("offline") :
        CASE misaligned -> AioRefused(i, "freed")
          [] ~misaligned /\ unpinnable -> AioRefused(i, aio[i].caio)
          [] OTHER ->
               /\ IF offline THEN UNCHANGED engineVars ELSE SubmitNowait(Segments[i][k])
               /\ aio' = [aio EXCEPT ![i].at = @ + 1]
               /\ pinned' = pinned \cup {Segments[i][k]}
  BY DEF AioSegment
<1>5. /\ misaligned \in BOOLEAN /\ unpinnable \in BOOLEAN /\ ~offline
      /\ misaligned \/ unpinnable => k = 1
  <2>1. {"offline", "late_align", "late_pages"} \cap AioFaults = {}
    BY DEF EarlyFaults
  <2>2. offline = FALSE
    BY <2>1 DEF Fails
  <2>3. misaligned \in BOOLEAN /\ unpinnable \in BOOLEAN
    BY DEF Fails
  <2>4. k # 1 => misaligned = FALSE /\ unpinnable = FALSE
    BY <2>1 DEF Fails
  <2> QED
    BY <2>2, <2>3, <2>4
<1>6. ASSUME NEW caio \in {"none", "live", "freed"}, AioRefused(i, caio)
      PROVE  /\ UNCHANGED engineVars /\ UNCHANGED pinned
             /\ aio' = [aio EXCEPT ![i] = [aio[i] EXCEPT !.at = Len(Segments[i]) + 2,
                                                         !.caio = caio, !.ended = 1]]
  <2>1. aio' = [aio EXCEPT ![i].at = Len(Segments[i]) + 2, ![i].caio = caio,
                           ![i].ended = aio[i].ended + 1]
    BY <1>2, <1>6 DEF AioRefused, AioType, IocbRecord
  <2>2. aio[i].ended + 1 = 1
    BY <1>3
  <2>3. aio' = [aio EXCEPT ![i] = [aio[i] EXCEPT !.at = Len(Segments[i]) + 2,
                                                 !.caio = caio, !.ended = 1]]
    BY <1>2, <2>1, <2>2 DEF AioType, IocbRecord
  <2> QED
    BY <1>6, <2>3 DEF AioRefused
<1>7. CASE misaligned \/ unpinnable
  <2>1. aio[i].caio \in {"none", "live", "freed"}
    BY <1>2 DEF IocbRecord
  <2>2. AioRefused(i, "freed") \/ AioRefused(i, aio[i].caio)
    BY <1>4, <1>5, <1>7
  <2> QED
    BY <1>1, <1>3, <1>5, <1>6, <1>7, <2>1, <2>2
<1>8. CASE ~(misaligned \/ unpinnable)
  <2>1. /\ SubmitNowait(Segments[i][k])
        /\ aio' = [aio EXCEPT ![i].at = @ + 1]
        /\ pinned' = pinned \cup {Segments[i][k]}
    BY <1>4, <1>5, <1>8
  <2>2. aio' = [aio EXCEPT ![i] = [aio[i] EXCEPT !.at = k + 1]]
    BY <1>2, <2>1 DEF AioType, IocbRecord
  <2> QED
    BY <1>1, <1>3, <2>1, <2>2
<1> QED
  BY <1>7, <1>8

LEMMA AioSegmentStep ==
  ASSUME EarlyFaults, CoreInv, PinInv, AioType, IocbInv, NEW i \in Iocbs, AioSegment(i)
  PROVE  /\ UNCHANGED engineVars \/ \E r \in Requests : SubmitNowait(r)
         /\ PinInv' /\ AioType' /\ IocbInv'
<1>0. PICK k : k = aio[i].at
  OBVIOUS
<1>1. /\ k \in 1 .. Len(Segments[i]) /\ aio[i].ended = 0
      /\ \/ /\ k = 1 /\ UNCHANGED engineVars /\ UNCHANGED pinned
            /\ \E caio \in {"none", "live", "freed"} :
                 aio' = [aio EXCEPT ![i] = [aio[i] EXCEPT !.at = Len(Segments[i]) + 2,
                                                          !.caio = caio, !.ended = 1]]
         \/ /\ SubmitNowait(Segments[i][k])
            /\ aio' = [aio EXCEPT ![i] = [aio[i] EXCEPT !.at = k + 1]]
            /\ pinned' = pinned \cup {Segments[i][k]}
  BY <1>0, SegmentCases
<1>2. CASE /\ k = 1 /\ UNCHANGED engineVars /\ UNCHANGED pinned
           /\ \E caio \in {"none", "live", "freed"} :
                aio' = [aio EXCEPT ![i] = [aio[i] EXCEPT !.at = Len(Segments[i]) + 2,
                                                         !.caio = caio, !.ended = 1]]
  <2>1. AioType' /\ IocbInv'
    BY <1>0, <1>1, <1>2, RefusedEnds
  <2>2. PinInv'
    BY <1>2 DEF PinInv, engineVars
  <2> QED
    BY <1>2, <2>1, <2>2
<1>3. CASE /\ SubmitNowait(Segments[i][k])
           /\ aio' = [aio EXCEPT ![i] = [aio[i] EXCEPT !.at = k + 1]]
           /\ pinned' = pinned \cup {Segments[i][k]}
  <2> DEFINE r == Segments[i][k]
             n == Len(Segments[i])
             c == [aio[i] EXCEPT !.at = k + 1]
  <2>1. r \in AsyncReqs /\ r \in Requests /\ n \in Nat /\ DOMAIN Segments[i] = 1 .. n
    BY <1>1, SegmentTyped
  <2>2. /\ pc[r] = "new" /\ pc'[r] = "build" /\ tfer' = tfer
        /\ \A q \in Requests \ {r} : pc'[q] = pc[q]
    BY <1>3, <2>1 DEF SubmitNowait, CoreInv, TypeOK
  <2>3. PinInv'
    BY <1>3, <2>1, <2>2, EngineAssumption DEF PinInv, Over
  <2>4. aio[i] \in IocbRecord(i) /\ IocbOf(i)
    BY DEF AioType, IocbInv
  <2>5. c \in IocbRecord(i) /\ c.at = k + 1 /\ c.ended = 0 /\ c.caio = aio[i].caio
        /\ c.cmpl_cnt = aio[i].cmpl_cnt /\ c.res = aio[i].res
    <3>1. k + 1 \in 0 .. n + 2
      BY <1>1, <2>1
    <3>2. c \in IocbRecord(i)
      BY <2>4, <3>1 DEF IocbRecord
    <3>3. /\ c.at = k + 1 /\ c.ended = 0 /\ c.caio = aio[i].caio
          /\ c.cmpl_cnt = aio[i].cmpl_cnt /\ c.res = aio[i].res
      BY <1>1, <2>4 DEF IocbRecord
    <3> QED
      BY <3>2, <3>3
  <2>6. DOMAIN aio' = Iocbs /\ aio'[i] = c /\ \A j \in Iocbs \ {i} : aio'[j] = aio[j]
    BY <1>3 DEF AioType
  <2> HIDE DEF c
  <2>7. AioType'
    BY <2>5, <2>6 DEF AioType, IocbRecord
  <2>8. ASSUME NEW j \in Iocbs
        PROVE  OverSegs(j)' = OverSegs(j) /\ SumOf(Credits(j))' = SumOf(Credits(j))
    <3>1. \A q \in AsyncReqs : /\ pc'[q] \in Over <=> pc[q] \in Over
                               /\ Transferred(tfer[q])' = Transferred(tfer[q])
      BY <2>1, <2>2, EngineAssumption DEF Over
    <3>2. OverSegs(j)' = OverSegs(j)
      BY <3>1 DEF OverSegs
    <3>3. \A q \in AsyncReqs : Credit(q)' = Credit(q)
      BY <3>1 DEF Credit
    <3>4. ASSUME NEW l \in 1 .. Len(Segments[j])
          PROVE  Credit(Segments[j][l])' = Credit(Segments[j][l])
      <4>1. PICK q \in AsyncReqs : q = Segments[j][l]
        BY SegmentTyped
      <4> QED
        BY <3>3, <4>1
    <3>5. Credits(j)' = Credits(j)
      BY <3>4 DEF Credits
    <3> QED
      BY <3>2, <3>5
  <2>9. ASSUME NEW j \in Iocbs \ {i}
        PROVE  IocbOf(j)'
    <3>1. \A l \in 1 .. Len(Segments[j]) : pc'[Segments[j][l]] = pc[Segments[j][l]]
      <4>1. \A l \in 1 .. Len(Segments[j]) : Segments[j][l] # r /\ Segments[j][l] \in Requests
        BY <1>1, SegmentTyped, SegmentUnique
      <4> QED
        BY <2>2, <4>1
    <3>2. IocbOf(j)
      BY DEF IocbInv
    <3> QED
      BY <2>6, <2>8, <3>1, <3>2 DEF IocbOf
  <2>10. IocbOf(i)'
    <3>1. \A l \in 1 .. n : pc'[Segments[i][l]] = "new" <=> l >= k + 1
      <4> SUFFICES ASSUME NEW l \in 1 .. n
                   PROVE  pc'[Segments[i][l]] = "new" <=> l >= k + 1
        OBVIOUS
      <4>1. pc[Segments[i][l]] = "new" <=> l >= k
        BY <1>0, <1>1, <2>4 DEF IocbOf
      <4>2. CASE l = k
        <5>1. ~(l >= k + 1)
          BY <1>1, <4>2
        <5> QED
          BY <2>2, <4>2, <5>1
      <4>3. CASE l # k
        <5>1. Segments[i][l] # r /\ Segments[i][l] \in Requests
          BY <1>1, <4>3, SegmentTyped, SegmentUnique
        <5>2. (l >= k + 1) = (l >= k)
          BY <1>1, <2>1, <4>3
        <5> QED
          BY <2>2, <4>1, <5>1, <5>2
      <4> QED
        BY <4>2, <4>3
    <3>2. /\ k # 0 /\ k + 1 # 0
      BY <1>1
    <3> QED
      BY <1>0, <1>1, <2>4, <2>5, <2>6, <2>8, <3>1, <3>2 DEF IocbOf
  <2> QED
    BY <1>3, <2>1, <2>3, <2>7, <2>9, <2>10 DEF IocbInv
<1> QED
  BY <1>1, <1>2, <1>3
-----------------------------------------------------------------------------
(***************************************************************************)
(* The service of the queue and the callback.                              *)
(***************************************************************************)
SegSet(i) == {Segments[i][k] : k \in 1 .. Len(Segments[i])}

\* A call has as many segments as its sequence has members.
LEMMA SegmentsCounted ==
  ASSUME NEW i \in Iocbs
  PROVE  IsFiniteSet(SegSet(i)) /\ Cardinality(SegSet(i)) = Len(Segments[i])
<1> DEFINE n == Len(Segments[i])
           f == [k \in 1 .. n |-> Segments[i][k]]
<1>1. n \in Nat
  BY SegmentTyped
<1>2. \A k, l \in 1 .. n : f[k] = f[l] => k = l
  BY SegmentUnique
<1>3. f \in [1 .. n -> SegSet(i)] /\ \A r \in SegSet(i) : \E k \in 1 .. n : f[k] = r
  BY DEF SegSet
<1> HIDE DEF f
<1>4. f \in Bijection(1 .. n, SegSet(i))
  BY <1>2, <1>3 DEF Bijection, Injection, Surjection, IsInjective
<1>5. ExistsBijection(1 .. n, SegSet(i))
  BY <1>4 DEF ExistsBijection
<1> QED
  BY <1>1, <1>5, FS_NatBijection, FS_CountingElements

LEMMA OverCounted ==
  ASSUME NEW i \in Iocbs
  PROVE  /\ OverSegs(i) \subseteq SegSet(i) /\ IsFiniteSet(OverSegs(i))
         /\ Cardinality(OverSegs(i)) \in Nat /\ Cardinality(OverSegs(i)) <= Len(Segments[i])
         /\ Cardinality(OverSegs(i)) = Len(Segments[i]) => OverSegs(i) = SegSet(i)
<1>1. OverSegs(i) \in SUBSET SegSet(i)
  BY SegmentTyped DEF OverSegs, SegSet
<1> QED
  BY <1>1, SegmentsCounted, FS_Subset, FS_CardinalityType

LEMMA CreditsTyped ==
  ASSUME CoreInv, NEW i \in Iocbs
  PROVE  Credits(i) \in Seq(Nat) /\ Len(Credits(i)) = Len(Segments[i])
<1>1. \A r \in Requests : Credit(r) \in Nat
  <2> SUFFICES ASSUME NEW r \in Requests PROVE Credit(r) \in Nat
    OBVIOUS
  <2>1. tfer[r] \in Seq(XferRecord)
    BY DEF CoreInv, TypeOK
  <2>2. \A k \in 1 .. Len(tfer[r]) :
          tfer[r][k].state = "COMPLETED" => tfer[r][k].moved = tfer[r][k].desc_num
    BY DEF CoreInv, MovedInv
  <2>3. Transferred(tfer[r]) \in Nat
    BY <2>1, <2>2, TransferredBounds
  <2> QED
    BY <2>3 DEF Credit
<1>2. Len(Segments[i]) \in Nat /\ Credits(i) \in [1 .. Len(Segments[i]) -> Nat]
  BY <1>1, SegmentTyped DEF Credits
<1> QED
  BY <1>2, FunctionIsSeq

\* A call whose segments are as they were.
LEMMA CallKept ==
  ASSUME AioType, IocbInv, NEW i \in Iocbs,
         \A k \in 1 .. Len(Segments[i]) :
           /\ pc'[Segments[i][k]] = pc[Segments[i][k]]
           /\ tfer'[Segments[i][k]] = tfer[Segments[i][k]],
         aio'[i] = aio[i]
  PROVE  aio'[i] \in IocbRecord(i) /\ IocbOf(i)'
<1>1. OverSegs(i)' = OverSegs(i)
  BY SegmentTyped DEF OverSegs
<1>2. ASSUME NEW k \in 1 .. Len(Segments[i])
      PROVE  Credit(Segments[i][k])' = Credit(Segments[i][k])
  <2>1. PICK q : q = Segments[i][k]
    OBVIOUS
  <2>2. pc'[q] = pc[q] /\ tfer'[q] = tfer[q]
    BY <2>1
  <2>3. Transferred(tfer[q])' = Transferred(tfer[q])
    BY <2>2
  <2>4. Credit(q)' = Credit(q)
    BY <2>2, <2>3 DEF Credit
  <2> QED
    BY <2>1, <2>4
<1>3. Credits(i)' = Credits(i)
  BY <1>2 DEF Credits
<1>4. IocbOf(i) /\ aio[i] \in IocbRecord(i)
  BY DEF IocbInv, AioType
<1> QED
  BY <1>1, <1>3, <1>4 DEF IocbOf

\* The bottom half takes the head of the queue, and so does the completion
\* thread, unless the device failed on its first descriptor.
LEMMA ServedHead ==
  ASSUME ~Timeouts, EngineInv, ServiceTransfers \/ PollService
  PROVE  /\ CoreInv' /\ Active
         /\ \/ UNCHANGED <<tfer, pc>> /\ eng'.transfer_list = eng.transfer_list
            \/ \E e \in EngineRecord, h \in HwRecord : TakesHead(e, h, hw.count) /\ Restarted(e, h)
<1>1. CoreInv /\ ThreadInv /\ ExactInv /\ eng \in EngineRecord /\ hw \in HwRecord
  BY DEF EngineInv, CoreInv, TypeOK
<1>2. CASE ServiceTransfers
  BY <1>1, <1>2, ServiceTakes
<1>3. CASE PollService
  <2>1. poll_mode
    BY <1>1, <1>3 DEF ThreadInv, PollService
  <2>2. PollInv /\ StatusInv
    BY <1>1, <2>1 DEF ExactInv
  <2> QED
    BY <1>1, <1>3, <2>2, PollServiceTakes
<1> QED
  BY <1>2, <1>3

\* A service changes the request of the head of the queue, and no other.
LEMMA ServiceEnds ==
  ASSUME ~Timeouts, EngineInv, ServiceTransfers \/ PollService
  PROVE  LET r == hw.xfer[1]
         IN  /\ CoreInv' /\ r \in Requests /\ pc[r] \notin Over \cup {"new"}
             /\ \A q \in Requests : q # r => pc'[q] = pc[q] /\ tfer'[q] = tfer[q]
             /\ pc'[r] = pc[r] \/ (r \in AsyncReqs /\ pc'[r] \in {"done", "failed"})
<1>0. CoreInv
  BY DEF EngineInv
<1>1. /\ CoreInv' /\ Active
      /\ \/ UNCHANGED <<tfer, pc>>
         \/ \E e \in EngineRecord, h \in HwRecord : TakesHead(e, h, hw.count)
  BY ServedHead
<1>2. /\ hw.xfer[1] \in Requests /\ hw.xfer[2] \in 1 .. Len(tfer[hw.xfer[1]])
      /\ pc[hw.xfer[1]] \notin Over /\ hw.xfer = Head(eng.transfer_list)
  BY <1>0, <1>1, ActiveHead DEF CoreInv, HeadInv
<1>3. pc[hw.xfer[1]] # "new"
  <2>1. tfer[hw.xfer[1]] # <<>>
    BY <1>2
  <2> QED
    BY <1>0, <1>2, <2>1 DEF CoreInv, CallInv, CallOf
<1>4. \A q \in Requests : q # hw.xfer[1] => pc'[q] = pc[q] /\ tfer'[q] = tfer[q]
  <2>1. UNCHANGED tfer \/ \E k, x : Changes(hw.xfer[1], k, x)
    BY <1>1, <1>2 DEF TakesHead
  <2>2. \A q \in Requests : q # hw.xfer[1] => tfer'[q] = tfer[q]
    BY <1>0, <2>1, ChangesOthers DEF CoreInv
  <2>3. \A q \in Requests : q # hw.xfer[1] => pc'[q] = pc[q]
    BY <1>1, <1>2 DEF TakesHead
  <2> QED
    BY <2>2, <2>3
<1>5. \/ pc'[hw.xfer[1]] = pc[hw.xfer[1]]
      \/ hw.xfer[1] \in AsyncReqs /\ pc'[hw.xfer[1]] \in {"done", "failed"}
  BY <1>1, <1>2 DEF TakesHead, Completed
<1> QED
  BY <1>1, <1>2, <1>3, <1>4, <1>5

\* No segment ended: nothing is counted.
LEMMA HandledNone ==
  ASSUME NEW i \in Iocbs, NEW c \in IocbRecord(i), NEW n
  PROVE  Handled(c, n, {}) = c
<1>1. c.cmpl_cnt \in Nat /\ c.res \in Nat
  BY DEF IocbRecord
<1>2. c.cmpl_cnt + Cardinality({}) = c.cmpl_cnt
  BY <1>1, FS_EmptySet
<1>3. c.res + SumOver(SetToSeq({}), LAMBDA r : Transferred(tfer'[r])) = c.res
  BY <1>1, SumOfNone
<1>4. [c EXCEPT !.cmpl_cnt = c.cmpl_cnt, !.res = c.res] = c
  BY DEF IocbRecord
<1>5. Handled(c, n, {}) = [c EXCEPT !.cmpl_cnt = c.cmpl_cnt + Cardinality({}),
          !.res = c.res + SumOver(SetToSeq({}), LAMBDA r : Transferred(tfer'[r]))]
  BY DEF Handled
<1> QED
  BY <1>2, <1>3, <1>4, <1>5

\* One ended: it is counted, and the last one ends the call.
CountedAs(i, n, c, d, t) ==
  /\ d \in IocbRecord(i) /\ d.at = c.at /\ d.cmpl_cnt = c.cmpl_cnt + 1 /\ d.res = c.res + t
  /\ IF c.cmpl_cnt + 1 = n THEN d.caio = "freed" /\ d.ended = 1
                           ELSE d.caio = c.caio /\ d.ended = 0

LEMMA HandledOne ==
  ASSUME NEW i \in Iocbs, NEW c \in IocbRecord(i), NEW q, NEW n \in Nat,
         NEW S, S = {q}, NEW d, d = Handled(c, n, S),
         Transferred(tfer'[q]) \in Nat, c.ended = 0
  PROVE  CountedAs(i, n, c, d, Transferred(tfer'[q]))
<1> DEFINE t == Transferred(tfer'[q])
           m == c.cmpl_cnt + 1
           s == c.res + t
           e == [c EXCEPT !.cmpl_cnt = m, !.res = s]
<1>1. c.cmpl_cnt \in Nat /\ c.res \in Nat /\ m \in Nat /\ s \in Nat
  BY DEF IocbRecord
<1>2. Cardinality({q}) = 1
  BY FS_Singleton
<1>3. SumOver(SetToSeq({q}), LAMBDA r : Transferred(tfer'[r])) = t
  BY SumOfOne
<1>4. c.ended + 1 = 1
  OBVIOUS
<1> HIDE DEF t, m, s
<1>5. /\ e \in IocbRecord(i) /\ e.at = c.at /\ e.cmpl_cnt = m /\ e.res = s
      /\ e.caio = c.caio /\ e.ended = c.ended
  BY <1>1 DEF IocbRecord
<1>6. Handled(c, n, {q}) = IF m = n THEN [e EXCEPT !.caio = "freed", !.ended = e.ended + 1] ELSE e
  <2>1. e = [c EXCEPT !.cmpl_cnt = c.cmpl_cnt + Cardinality({q}),
               !.res = c.res + SumOver(SetToSeq({q}), LAMBDA r : Transferred(tfer'[r]))]
    BY <1>2, <1>3 DEF m, s
  <2> HIDE DEF e
  <2> QED
    BY <1>5, <2>1 DEF Handled, HandlerEnds
<1> HIDE DEF e
<1>7. CASE m = n
  <2>1. Handled(c, n, {q}) = [e EXCEPT !.caio = "freed", !.ended = 1]
    BY <1>4, <1>5, <1>6, <1>7
  <2>2. [e EXCEPT !.caio = "freed", !.ended = 1] \in IocbRecord(i)
    BY <1>5 DEF IocbRecord
  <2>3. LET f == [e EXCEPT !.caio = "freed", !.ended = 1]
        IN  /\ f.at = e.at /\ f.cmpl_cnt = e.cmpl_cnt /\ f.res = e.res
            /\ f.caio = "freed" /\ f.ended = 1
    BY <1>5 DEF IocbRecord
  <2> QED
    BY <1>5, <1>7, <2>1, <2>2, <2>3 DEF CountedAs, m, s, t
<1>8. CASE m # n
  BY <1>5, <1>6, <1>8 DEF CountedAs, m, s, t
<1> QED
  BY <1>7, <1>8

\* The call one of whose segments ended.
LEMMA SegmentEnds ==
  ASSUME CoreInv, CoreInv', AioType, IocbInv, NEW i \in Iocbs,
         NEW k \in 1 .. Len(Segments[i]), NEW r, r = Segments[i][k],
         pc[r] \notin Over \cup {"new"}, pc'[r] \in Over,
         \A q \in Requests : q # r => pc'[q] = pc[q] /\ tfer'[q] = tfer[q],
         NEW S, S = {r}, aio'[i] = Handled(aio[i], Len(Segments[i]), S)
  PROVE  aio'[i] \in IocbRecord(i) /\ IocbOf(i)'
<1> DEFINE n == Len(Segments[i])
           t == Transferred(tfer'[r])
<1>1. /\ n \in Nat \ {0} /\ r \in AsyncReqs /\ r \in Requests
      /\ DOMAIN Segments[i] = 1 .. n
      /\ \A l \in 1 .. n : Segments[i][l] \in Requests
      /\ \A l \in 1 .. n : Segments[i][l] = r <=> l = k
  BY SegmentTyped, SegmentUnique
<1>2. aio[i] \in IocbRecord(i) /\ IocbOf(i)
  BY DEF AioType, IocbInv
<1>3. aio[i].ended = 0
  <2>1. aio[i].ended \in {0, 1}
    BY <1>2 DEF IocbRecord
  <2>2. aio[i].ended # 1
    BY <1>2 DEF IocbOf
  <2> QED
    BY <2>1, <2>2
<1>4. t \in Nat
  <2>1. tfer'[r] \in Seq(XferRecord)
    BY <1>1 DEF CoreInv, TypeOK
  <2>2. \A l \in 1 .. Len(tfer'[r]) :
          tfer'[r][l].state = "COMPLETED" => tfer'[r][l].moved = tfer'[r][l].desc_num
    BY <1>1 DEF CoreInv, MovedInv
  <2> QED
    BY <2>1, <2>2, TransferredBounds
<1>5. /\ aio'[i] \in IocbRecord(i) /\ aio'[i].at = aio[i].at
      /\ aio'[i].cmpl_cnt = aio[i].cmpl_cnt + 1 /\ aio'[i].res = aio[i].res + t
      /\ IF aio[i].cmpl_cnt + 1 = n THEN aio'[i].caio = "freed" /\ aio'[i].ended = 1
                                    ELSE aio'[i].caio = aio[i].caio /\ aio'[i].ended = 0
  <2>1. n \in Nat
    BY <1>1
  <2> HIDE DEF n
  <2>0. PICK c : c = aio[i]
    OBVIOUS
  <2>2. PICK d : d = aio'[i]
    OBVIOUS
  <2>3. d = Handled(c, n, S)
    BY <2>0, <2>2 DEF n
  <2>4. c \in IocbRecord(i) /\ c.ended = 0
    BY <1>2, <1>3, <2>0
  <2>5. Transferred(tfer'[r]) \in Nat /\ S = {r}
    BY <1>4
  <2> HIDE DEF t
  <2>6. CountedAs(i, n, c, d, Transferred(tfer'[r]))
    BY <2>1, <2>3, <2>4, <2>5, HandledOne, Zenon
  <2> QED
    BY <2>0, <2>2, <2>6 DEF CountedAs, t
<1>6. /\ r \notin OverSegs(i) /\ OverSegs(i)' = OverSegs(i) \cup {r}
  BY <1>1, EngineAssumption DEF OverSegs
<1>7. /\ Cardinality(OverSegs(i)') = aio[i].cmpl_cnt + 1
      /\ aio[i].cmpl_cnt \in Nat /\ aio[i].cmpl_cnt < n
  <2>1. aio[i].cmpl_cnt = Cardinality(OverSegs(i)) /\ aio[i].cmpl_cnt < n
    BY <1>2, <1>3 DEF IocbOf
  <2>2. IsFiniteSet(OverSegs(i)) /\ Cardinality(OverSegs(i)) \in Nat
    BY OverCounted
  <2>3. Cardinality(OverSegs(i) \cup {r}) = Cardinality(OverSegs(i)) + 1
    BY <1>6, <2>2, FS_AddElement
  <2> QED
    BY <1>6, <2>1, <2>2, <2>3
<1>8. aio'[i].res = SumOf(Credits(i)')
  <2> DEFINE s == Credits(i)
             u == Credits(i)'
  <2>1. s \in Seq(Nat) /\ Len(s) = n
    BY CreditsTyped
  <2>2. \A l \in 1 .. n : l # k => s[l] = u[l]
    <3> SUFFICES ASSUME NEW l \in 1 .. n, l # k PROVE s[l] = u[l]
      OBVIOUS
    <3>1. PICK q : q = Segments[i][l]
      OBVIOUS
    <3>2. pc'[q] = pc[q] /\ tfer'[q] = tfer[q]
      BY <1>1, <3>1
    <3>3. Transferred(tfer[q])' = Transferred(tfer[q])
      BY <3>2
    <3>4. Credit(q)' = Credit(q)
      BY <3>2, <3>3 DEF Credit
    <3>5. s[l] = Credit(q) /\ u[l] = Credit(q)'
      BY <3>1 DEF Credits
    <3> QED
      BY <3>4, <3>5
  <2>3. s[k] = 0 /\ u[k] = t
    <3>1. Credit(r) = 0 /\ Credit(r)' = t
      BY DEF Credit
    <3>2. s[k] = Credit(r) /\ u[k] = Credit(r)'
      BY DEF Credits
    <3> QED
      BY <3>1, <3>2
  <2>4. u \in Seq(Nat) /\ Len(u) = n
    <3>1. u = [l \in 1 .. n |-> u[l]]
      BY DEF Credits
    <3>2. \A l \in 1 .. n : u[l] \in Nat
      <4> HIDE DEF s, u
      <4> QED
        BY <1>4, <2>1, <2>2, <2>3
    <3>3. n \in Nat
      BY <1>1
    <3> HIDE DEF u, n
    <3>4. u \in [1 .. n -> Nat]
      BY <3>1, <3>2
    <3> QED
      BY <3>3, <3>4, FunctionIsSeq
  <2>5. aio[i].res = SumOf(s)
    BY <1>2 DEF IocbOf
  <2> HIDE DEF s, u, t
  <2>6. SumOf(s) + t = SumOf(u) + 0
    <3>1. k \in 1 .. Len(s) /\ Len(s) = Len(u)
      BY <2>1, <2>4
    <3>2. \A l \in 1 .. Len(s) : l # k => s[l] = u[l]
      BY <2>1, <2>2
    <3>3. SumOf(s) + u[k] = SumOf(u) + s[k]
      BY <2>1, <2>4, <3>1, <3>2, SumChanged
    <3> QED
      BY <2>3, <3>3
  <2>7. SumOf(u) \in Nat
    <3>1. 0 \in 0 .. Len(u)
      BY <1>1, <2>4
    <3> QED
      BY <2>4, <3>1, PartialIsLess
  <2> QED
    BY <1>5, <2>5, <2>6, <2>7 DEF u
<1>9. \A l \in 1 .. n : pc'[Segments[i][l]] = "new" <=> pc[Segments[i][l]] = "new"
  BY <1>1 DEF Over
<1>10. CASE aio[i].cmpl_cnt + 1 # n
  <2>1. aio'[i].cmpl_cnt < n
    BY <1>1, <1>5, <1>7, <1>10
  <2> QED
    BY <1>2, <1>3, <1>5, <1>7, <1>8, <1>9, <1>10, <2>1 DEF IocbOf
<1>11. CASE aio[i].cmpl_cnt + 1 = n
  <2>1. OverSegs(i)' = SegSet(i)
    <3>1. /\ OverSegs(i)' \in SUBSET SegSet(i)
      BY <1>1, <1>6, OverCounted DEF SegSet
    <3>2. Cardinality(OverSegs(i)') = Cardinality(SegSet(i)) /\ IsFiniteSet(SegSet(i))
      BY <1>7, <1>11, SegmentsCounted
    <3> HIDE DEF SegSet, OverSegs
    <3> QED
      BY <3>1, <3>2, FS_Subset
  <2>2. \A l \in 1 .. n : pc'[Segments[i][l]] \in Over
    BY <2>1 DEF OverSegs, SegSet
  <2>3. aio[i].at > n
    <3>1. n \in 1 .. n /\ aio[i].at \in 0 .. n + 2
      BY <1>1, <1>2 DEF IocbRecord
    <3>2. pc[Segments[i][n]] # "new"
      BY <1>9, <2>2, <3>1 DEF Over
    <3>3. ~(n >= aio[i].at)
      BY <1>2, <1>3, <3>1, <3>2 DEF IocbOf
    <3> QED
      BY <1>1, <3>1, <3>3
  <2> QED
    BY <1>5, <1>8, <1>11, <2>2, <2>3 DEF IocbOf
<1> QED
  BY <1>5, <1>10, <1>11

\* The service of the queue, with the callback.
LEMMA AioServiceStep ==
  ASSUME ~Timeouts, EngineInv, PinInv, AioType, IocbInv, AioService
  PROVE  PinInv' /\ AioType' /\ IocbInv'
<1>0. PICK r : r = hw.xfer[1]
  OBVIOUS
<1>1. /\ CoreInv' /\ r \in Requests /\ pc[r] \notin Over \cup {"new"}
      /\ \A q \in Requests : q # r => pc'[q] = pc[q] /\ tfer'[q] = tfer[q]
      /\ pc'[r] = pc[r] \/ (r \in AsyncReqs /\ pc'[r] \in {"done", "failed"})
  BY <1>0, ServiceEnds DEF AioService
<1> DEFINE ended == {q \in AsyncReqs : pc[q] \notin Over /\ pc'[q] \in Over}
           Mine(i) == {q \in ended : \E k \in DOMAIN Segments[i] : Segments[i][k] = q}
<1>2. /\ aio' = [i \in Iocbs |-> Handled(aio[i], Len(Segments[i]), Mine(i))]
      /\ pinned' = pinned \ ended
  BY DEF AioService
<1>3. ended = IF pc'[r] \in Over THEN {r} ELSE {}
  BY <1>1, EngineAssumption DEF Over
<1>4. PinInv'
  BY <1>1, <1>2, <1>3, EngineAssumption DEF PinInv, Over
<1>5. ASSUME NEW i \in Iocbs
      PROVE  aio'[i] \in IocbRecord(i) /\ IocbOf(i)'
  <2>1. aio[i] \in IocbRecord(i) /\ DOMAIN Segments[i] = 1 .. Len(Segments[i])
        /\ \A k \in 1 .. Len(Segments[i]) : Segments[i][k] \in Requests
    BY SegmentTyped DEF AioType
  <2>2. aio'[i] = Handled(aio[i], Len(Segments[i]), Mine(i))
    BY <1>2
  <2>3. CASE pc'[r] \notin Over
    <3>1. Mine(i) = {}
      BY <1>3, <2>3
    <3>2. aio'[i] = aio[i]
      BY <2>1, <2>2, <3>1, HandledNone
    <3>3. AsyncKept
      BY <1>1, <2>3, EngineAssumption DEF AsyncKept, Over
    <3> QED
      BY <2>1, <3>2, <3>3, IocbKept
  <2>4. CASE pc'[r] \in Over /\ ~\E k \in 1 .. Len(Segments[i]) : Segments[i][k] = r
    <3>1. Mine(i) = {}
      BY <1>3, <2>1, <2>4
    <3>2. aio'[i] = aio[i]
      BY <2>1, <2>2, <3>1, HandledNone
    <3>3. \A k \in 1 .. Len(Segments[i]) : /\ pc'[Segments[i][k]] = pc[Segments[i][k]]
                                           /\ tfer'[Segments[i][k]] = tfer[Segments[i][k]]
      BY <1>1, <2>1, <2>4
    <3> QED
      BY <3>2, <3>3, CallKept
  <2>5. CASE pc'[r] \in Over /\ \E k \in 1 .. Len(Segments[i]) : Segments[i][k] = r
    <3>1. PICK k \in 1 .. Len(Segments[i]) : Segments[i][k] = r
      BY <2>5
    <3>2. PICK S : S = {r}
      OBVIOUS
    <3>3. Mine(i) = S
      BY <1>3, <2>1, <2>5, <3>2
    <3>4. aio'[i] = Handled(aio[i], Len(Segments[i]), S)
      BY <2>2, <3>3
    <3> QED
      BY <1>1, <2>5, <3>1, <3>2, <3>4, SegmentEnds DEF EngineInv
  <2> QED
    BY <2>3, <2>4, <2>5
<1>6. DOMAIN aio' = Iocbs
  BY <1>2
<1> QED
  BY <1>4, <1>5, <1>6 DEF AioType, IocbInv, IocbRecord
-----------------------------------------------------------------------------
(***************************************************************************)
(* What is submitted is in the queue, and what is over was built.          *)
(***************************************************************************)
Queued(r, k) == \E i \in 1 .. Len(eng.transfer_list) : eng.transfer_list[i] = <<r, k>>

\* Built tells the transfers of a request apart by their lengths only.
LEMMA BuiltSame ==
  ASSUME NEW r, tfer[r] \in Seq(XferRecord), tfer'[r] \in Seq(XferRecord),
         Len(tfer'[r]) = Len(tfer[r]),
         \A k \in 1 .. Len(tfer[r]) : /\ tfer'[r][k].sw_desc_idx = tfer[r][k].sw_desc_idx
                                      /\ tfer'[r][k].desc_num = tfer[r][k].desc_num
  PROVE  Built(r)' = Built(r)
<1>1. tfer'[r] = <<>> <=> tfer[r] = <<>>
  OBVIOUS
<1>2. tfer[r] # <<>> => Len(tfer[r]) \in 1 .. Len(tfer[r])
  OBVIOUS
<1> QED
  BY <1>1, <1>2 DEF Built, Current, Xfer

\* A request that is not touched.
LEMMA PendingKept ==
  ASSUME NEW r, PendingOf(r), tfer'[r] = tfer[r], pc'[r] = pc[r],
         \A k \in 1 .. Len(tfer[r]) : Queued(r, k) => Queued(r, k)'
  PROVE  PendingOf(r)'
<1>1. Built(r)' = Built(r)
  BY DEF Built, Current, Xfer
<1> QED
  BY <1>1 DEF PendingOf, Queued

\* Steps that leave the transfers and the queue alone.
LEMMA PendingFrame ==
  ASSUME PendingInv, tfer' = tfer, eng'.transfer_list = eng.transfer_list,
         \A r \in AsyncReqs : pc'[r] = pc[r] \/ (tfer[r] = <<>> /\ pc'[r] = "build")
  PROVE  PendingInv'
<1> SUFFICES ASSUME NEW r \in AsyncReqs PROVE PendingOf(r)'
  BY DEF PendingInv
<1>1. CASE pc'[r] = pc[r]
  BY <1>1, PendingKept DEF PendingInv, Queued
<1>2. CASE tfer[r] = <<>> /\ pc'[r] = "build"
  BY <1>2 DEF PendingOf, Over
<1> QED
  BY <1>1, <1>2

LEMMA PendingInit ==
  ASSUME CoreInv, PendingInv, NEW r \in Requests, TransferInit(r)
  PROVE  PendingInv'
<1>1. /\ pc[r] = "build" /\ pc'[r] = "queue" /\ Grows(r)
      /\ \A q \in Requests \ {r} : pc'[q] = pc[q]
      /\ eng'.transfer_list = eng.transfer_list /\ Len(tfer[r]) \in Nat
  BY CoreTransferInit, XferTyped DEF TransferInit, CoreInv, TypeOK, EngineRecord
<1> SUFFICES ASSUME NEW q \in AsyncReqs PROVE PendingOf(q)'
  BY DEF PendingInv
<1>2. q \in Requests /\ PendingOf(q)
  BY EngineAssumption DEF PendingInv
<1>3. CASE q # r
  BY <1>1, <1>2, <1>3, PendingKept DEF Grows, Queued
<1>4. CASE q = r
  <2>1. Len(tfer'[r]) = Len(tfer[r]) + 1 /\ tfer'[r][Len(tfer[r]) + 1].state = "INIT"
    BY <1>1 DEF Grows
  <2>2. ASSUME NEW k \in 1 .. Len(tfer'[r])
        PROVE  /\ tfer'[r][k].state # "ABORTED"
               /\ tfer'[r][k].state = "INIT" => k = Len(tfer'[r])
               /\ tfer'[r][k].state = "SUBMITTED" => Queued(r, k)'
    <3>1. CASE k = Len(tfer[r]) + 1
      BY <2>1, <3>1
    <3>2. CASE k # Len(tfer[r]) + 1
      <4>1. k \in 1 .. Len(tfer[r]) /\ tfer'[r][k] = tfer[r][k]
        BY <1>1, <2>1, <3>2 DEF Grows
      <4>2. tfer[r][k].state # "INIT" /\ tfer[r][k].state # "ABORTED"
        BY <1>1, <1>2, <1>4, <4>1 DEF PendingOf
      <4>3. tfer[r][k].state = "SUBMITTED" => Queued(r, k)
        BY <1>2, <1>4, <4>1 DEF PendingOf, Queued
      <4>4. Queued(r, k)' <=> Queued(r, k)
        BY <1>1 DEF Queued
      <4> QED
        BY <4>1, <4>2, <4>3, <4>4
    <3> QED
      BY <3>1, <3>2
  <2>3. pc'[r] \notin Over \cup {"queued"}
    BY <1>1 DEF Over
  <2> QED
    BY <1>1, <1>4, <2>2, <2>3 DEF PendingOf, Queued
<1> QED
  BY <1>3, <1>4

LEMMA PendingQueue ==
  ASSUME CoreInv, PendingInv, NEW r \in Requests, TransferQueue(r)
  PROVE  PendingInv'
<1>0. PICK L : L = Len(tfer[r])
  OBVIOUS
<1> DEFINE list == eng.transfer_list
           x == [tfer[r][L] EXCEPT !.state = "SUBMITTED"]
<1>1. tfer[r][L].state = "INIT" /\ L \in 1 .. L /\ Changes(r, L, x)
  BY <1>0, CoreTransferQueue
<1>2. /\ tfer[r] \in Seq(XferRecord) /\ L \in Nat /\ tfer[r][L] \in XferRecord
      /\ tfer'[r] \in Seq(XferRecord)
  BY <1>0, <1>1, XferTyped DEF CoreInv, Changes
<1>3. /\ x.state = "SUBMITTED" /\ x.sw_desc_idx = tfer[r][L].sw_desc_idx
      /\ x.desc_num = tfer[r][L].desc_num
  BY <1>2 DEF XferRecord
<1>4. list \in Seq(Requests \X (Nat \ {0})) /\ eng \in EngineRecord
  BY DEF CoreInv, TypeOK, EngineRecord
<1>5. eng'.transfer_list = Append(list, <<r, L>>)
  BY <1>0, <1>4 DEF TransferQueue, Current, StartedEngine, EngineRecord
<1>6. /\ Len(eng'.transfer_list) = Len(list) + 1 /\ Len(list) \in Nat
      /\ eng'.transfer_list[Len(list) + 1] = <<r, L>>
      /\ \A i \in 1 .. Len(list) : eng'.transfer_list[i] = list[i]
  <2>1. <<r, L>> \in Requests \X (Nat \ {0})
    BY <1>1, <1>2
  <2> QED
    BY <1>4, <1>5, <2>1, Appended
<1>7. \A q, k : Queued(q, k) => Queued(q, k)'
  BY <1>6 DEF Queued
<1>8. Queued(r, L)'
  <2>1. Len(list) + 1 \in 1 .. Len(eng'.transfer_list)
    BY <1>6
  <2> QED
    BY <1>6, <2>1 DEF Queued
<1> HIDE DEF x
<1> SUFFICES ASSUME NEW q \in AsyncReqs PROVE PendingOf(q)'
  BY DEF PendingInv
<1>9. q \in Requests /\ PendingOf(q)
  BY EngineAssumption DEF PendingInv
<1>10. CASE q # r
  <2>1. pc'[q] = pc[q]
    BY <1>9, <1>10 DEF TransferQueue, CoreInv, TypeOK
  <2>2. tfer'[q] = tfer[q]
    BY <1>1, <1>9, <1>10, ChangesOthers DEF CoreInv
  <2> QED
    BY <1>7, <1>9, <2>1, <2>2, PendingKept
<1>11. CASE q = r
  <2>1. /\ Len(tfer'[r]) = L /\ tfer'[r][L] = x
        /\ \A k \in 1 .. L : k # L => tfer'[r][k] = tfer[r][k]
    BY <1>0, <1>1 DEF Changes
  <2>2. Built(r)' = Built(r)
    <3>1. \A k \in 1 .. L : /\ tfer'[r][k].sw_desc_idx = tfer[r][k].sw_desc_idx
                            /\ tfer'[r][k].desc_num = tfer[r][k].desc_num
      BY <1>3, <2>1
    <3> QED
      BY <1>0, <1>2, <2>1, <3>1, BuiltSame
  <2>3. /\ pc'[r] \in {"queued", "build"}
        /\ pc'[r] = "queued" => tfer[r][L].last_in_request
    BY <1>0, <1>11 DEF TransferQueue, CoreInv, TypeOK, Current, Xfer
  <2>4. pc'[r] = "queued" => Built(r) = Size[r]
    <3>1. tfer[r] # <<>> /\ LayoutOf(r)
      BY <1>0, <1>1, <1>2 DEF CoreInv, LayoutInv
    <3>2. Built(r) = tfer[r][L].sw_desc_idx + tfer[r][L].desc_num
      BY <1>0, <3>1 DEF Built, Current, Xfer
    <3> QED
      BY <1>0, <1>1, <2>3, <3>1, <3>2 DEF LayoutOf
  <2>5. ASSUME NEW k \in 1 .. L
        PROVE  /\ tfer'[r][k].state \notin {"ABORTED", "INIT"}
               /\ tfer'[r][k].state = "SUBMITTED" => Queued(r, k)'
    <3>1. CASE k = L
      BY <1>3, <1>8, <2>1, <3>1
    <3>2. CASE k # L
      BY <1>0, <1>7, <1>9, <1>11, <2>1, <3>2 DEF PendingOf, Queued
    <3> QED
      BY <3>1, <3>2
  <2> QED
    BY <1>11, <2>1, <2>2, <2>3, <2>4, <2>5 DEF PendingOf, Queued, Over
<1> QED
  BY <1>10, <1>11

LEMMA PendingDevice ==
  ASSUME CoreInv, PendingInv, HwMove \/ HwError
  PROVE  PendingInv'
<1>1. Active /\ UNCHANGED <<pc, eng>>
  BY DEF HwMove, HwError, CoreInv, HeadInv, Active
<1>2. PICK r, k, x : /\ r \in Requests /\ k \in 1 .. Len(tfer[r]) /\ Changes(r, k, x)
                     /\ x.state = tfer[r][k].state /\ x.desc_num = tfer[r][k].desc_num
                     /\ x.sw_desc_idx = tfer[r][k].sw_desc_idx
  <2> DEFINE r == hw.xfer[1]
             k == hw.xfer[2]
             y == [tfer[r][k] EXCEPT !.moved = @ + 1]
             z == [tfer[r][k] EXCEPT !.erred = TRUE]
  <2>1. r \in Requests /\ k \in 1 .. Len(tfer[r]) /\ Xfer(hw.xfer) = tfer[r][k]
        /\ tfer[r][k] \in XferRecord
    BY <1>1, ActiveHead
  <2>2. Changes(r, k, y) \/ Changes(r, k, z)
    BY <2>1, CoreDevice
  <2>3. /\ y.state = tfer[r][k].state /\ y.desc_num = tfer[r][k].desc_num
        /\ y.sw_desc_idx = tfer[r][k].sw_desc_idx
        /\ z.state = tfer[r][k].state /\ z.desc_num = tfer[r][k].desc_num
        /\ z.sw_desc_idx = tfer[r][k].sw_desc_idx
    BY <2>1 DEF XferRecord
  <2> HIDE DEF y, z, r, k
  <2> QED
    BY <2>1, <2>2, <2>3
<1> SUFFICES ASSUME NEW q \in AsyncReqs PROVE PendingOf(q)'
  BY DEF PendingInv
<1>3. q \in Requests /\ PendingOf(q)
  BY EngineAssumption DEF PendingInv
<1>4. /\ Len(tfer'[q]) = Len(tfer[q]) /\ tfer[q] \in Seq(XferRecord) /\ tfer'[q] \in Seq(XferRecord)
      /\ \A j \in 1 .. Len(tfer[q]) :
           /\ tfer'[q][j].state = tfer[q][j].state /\ tfer'[q][j].desc_num = tfer[q][j].desc_num
           /\ tfer'[q][j].sw_desc_idx = tfer[q][j].sw_desc_idx
  BY <1>2, <1>3 DEF Changes, CoreInv, TypeOK
<1>5. Built(q)' = Built(q)
  BY <1>4, BuiltSame
<1> QED
  BY <1>1, <1>3, <1>4, <1>5 DEF PendingOf

\* The last transfer of a request ends it: nothing follows it.
LEMMA LastTransfer ==
  ASSUME CoreInv, NEW r \in Requests, NEW k \in 1 .. Len(tfer[r]), tfer[r][k].last_in_request
  PROVE  Built(r) = Size[r] /\ k = Len(tfer[r])
<1>1. LayoutOf(r) /\ Len(tfer[r]) \in Nat /\ Size[r] \in Nat
  BY XferTyped, EngineAssumption DEF CoreInv, LayoutInv
<1>2. tfer[r] # <<>> /\ Len(tfer[r]) \in 1 .. Len(tfer[r])
  BY <1>1
<1>3. \A j \in 1 .. Len(tfer[r]) :
        tfer[r][j].sw_desc_idx \in Nat /\ tfer[r][j].desc_num \in Nat \ {0}
  BY XferTyped DEF CoreInv
<1>4. Built(r) = tfer[r][Len(tfer[r])].sw_desc_idx + tfer[r][Len(tfer[r])].desc_num
  BY <1>2 DEF Built, Current, Xfer
<1>5. Built(r) \in Nat
  BY <1>2, <1>3, <1>4
<1>6. tfer[r][k].sw_desc_idx + tfer[r][k].desc_num = Size[r]
  BY <1>1 DEF LayoutOf
<1>7. Built(r) = Size[r]
  <2>1. tfer[r][k].sw_desc_idx + tfer[r][k].desc_num <= Built(r) /\ Built(r) <= Size[r]
    BY <1>1 DEF LayoutOf
  <2> QED
    BY <1>1, <1>5, <1>6, <2>1
<1>8. ASSUME k # Len(tfer[r])
      PROVE  FALSE
  <2>1. k \in 1 .. Len(tfer[r]) - 1
    BY <1>1, <1>8
  <2>2. tfer[r][k].sw_desc_idx + tfer[r][k].desc_num <= tfer[r][Len(tfer[r])].sw_desc_idx
    BY <1>1, <1>2, <2>1 DEF LayoutOf
  <2> QED
    BY <1>2, <1>3, <1>4, <1>6, <1>7, <2>2
<1> QED
  BY <1>7, <1>8

LEMMA PendingTakes ==
  ASSUME CoreInv, PendingInv, Active, NEW e, NEW h, TakesHead(e, h, hw.count), Restarted(e, h)
  PROVE  PendingInv'
<1>2. PICK r, k : r = hw.xfer[1] /\ k = hw.xfer[2]
  OBVIOUS
<1> DEFINE list == eng.transfer_list
           x == [tfer[r][k] EXCEPT !.state = HeadVerdict(e, hw.count)]
<1>3. /\ r \in Requests /\ k \in 1 .. Len(tfer[r]) /\ Head(list) = <<r, k>>
      /\ list[1] = <<r, k>> /\ Xfer(Head(list)) = tfer[r][k] /\ tfer[r][k] \in XferRecord
  BY <1>2, ActiveHead DEF CoreInv, HeadInv
<1>4. Head(list)[1] = r /\ Head(list)[2] = k
  BY <1>3
<1>5. /\ Changes(r, k, x)
      /\ pc' = [q \in Requests |-> IF q \in AsyncReqs /\ q = r /\ tfer[r][k].last_in_request
                                   THEN Completed(q, tfer') ELSE pc[q]]
  BY <1>3, <1>4 DEF TakesHead
<1>6. /\ x.state \in {"COMPLETED", "FAILED"} /\ x.sw_desc_idx = tfer[r][k].sw_desc_idx
      /\ x.desc_num = tfer[r][k].desc_num
  <2>1. HeadVerdict(e, hw.count) \in {"COMPLETED", "FAILED"}
    BY DEF HeadVerdict
  <2> QED
    BY <1>3, <2>1 DEF XferRecord
<1> HIDE DEF x
<1>7. ASSUME NEW q, NEW j, Queued(q, j), <<q, j>> # <<r, k>>
      PROVE  Queued(q, j)'
  <2>1. list \in Seq(Requests \X (Nat \ {0})) /\ list # <<>>
    BY DEF CoreInv, TypeOK, EngineRecord, HeadInv
  <2>2. eng'.transfer_list = Tail(list)
    BY DEF Restarted
  <2>3. /\ Len(list) \in Nat \ {0} /\ Len(Tail(list)) = Len(list) - 1
        /\ \A i \in 1 .. Len(Tail(list)) : Tail(list)[i] = list[i + 1]
    BY <2>1, TailOf
  <2>4. PICK i \in 1 .. Len(list) : list[i] = <<q, j>>
    BY <1>7 DEF Queued
  <2>5. i # 1
    BY <1>3, <1>7, <2>4
  <2>6. i - 1 \in 1 .. Len(Tail(list)) /\ (i - 1) + 1 = i
    BY <2>3, <2>4, <2>5
  <2>7. Tail(list)[i - 1] = <<q, j>>
    BY <2>3, <2>4, <2>6
  <2> QED
    BY <2>2, <2>6, <2>7 DEF Queued
<1> SUFFICES ASSUME NEW q \in AsyncReqs PROVE PendingOf(q)'
  BY DEF PendingInv
<1>8. q \in Requests /\ PendingOf(q)
  BY EngineAssumption DEF PendingInv
<1>9. CASE q # r
  <2>1. pc'[q] = pc[q]
    BY <1>5, <1>8, <1>9
  <2>2. tfer'[q] = tfer[q]
    BY <1>5, <1>8, <1>9, ChangesOthers DEF CoreInv
  <2>3. \A j \in 1 .. Len(tfer[q]) : Queued(q, j) => Queued(q, j)'
    BY <1>7, <1>9
  <2> QED
    BY <1>8, <2>1, <2>2, <2>3, PendingKept
<1>10. CASE q = r
  <2>1. /\ Len(tfer'[r]) = Len(tfer[r]) /\ tfer'[r][k] = x
        /\ \A j \in 1 .. Len(tfer[r]) : j # k => tfer'[r][j] = tfer[r][j]
        /\ tfer'[r] \in Seq(XferRecord) /\ tfer[r] \in Seq(XferRecord)
    BY <1>3, <1>5 DEF Changes, CoreInv, TypeOK
  <2>2. Built(r)' = Built(r)
    <3>1. \A j \in 1 .. Len(tfer[r]) : /\ tfer'[r][j].sw_desc_idx = tfer[r][j].sw_desc_idx
                                       /\ tfer'[r][j].desc_num = tfer[r][j].desc_num
      BY <1>6, <2>1
    <3> QED
      BY <2>1, <3>1, BuiltSame
  <2>3. pc'[r] = pc[r] \/ (tfer[r][k].last_in_request /\ pc'[r] \in Over)
    BY <1>3, <1>5 DEF Completed, Over
  <2>4. pc'[r] \in Over \cup {"queued"} => Built(r) = Size[r]
    BY <1>3, <1>8, <1>10, <2>3, LastTransfer DEF PendingOf
  <2>5. ASSUME NEW j \in 1 .. Len(tfer[r])
        PROVE  /\ tfer'[r][j].state # "ABORTED"
               /\ tfer'[r][j].state = "INIT" => pc'[r] = "queue" /\ j = Len(tfer[r])
               /\ tfer'[r][j].state = "SUBMITTED" => Queued(r, j)'
    <3>1. CASE j = k
      BY <1>6, <2>1, <3>1
    <3>2. CASE j # k
      <4>1. /\ tfer[r][j].state # "ABORTED"
            /\ tfer[r][j].state = "INIT" => pc[r] = "queue" /\ j = Len(tfer[r])
            /\ tfer[r][j].state = "SUBMITTED" => Queued(r, j)
        BY <1>8, <1>10 DEF PendingOf, Queued
      <4>2. tfer[r][j].state = "INIT" => ~tfer[r][k].last_in_request
        BY <1>3, <3>2, <4>1, LastTransfer
      <4>3. Queued(r, j) => Queued(r, j)'
        BY <1>7, <3>2
      <4> QED
        BY <2>1, <2>3, <3>2, <4>1, <4>2, <4>3
    <3> QED
      BY <3>1, <3>2
  <2> QED
    BY <1>10, <2>1, <2>2, <2>4, <2>5 DEF PendingOf, Queued
<1> QED
  BY <1>9, <1>10

LEMMA PendingService ==
  ASSUME ~Timeouts, EngineInv, PendingInv, ServiceTransfers \/ PollService
  PROVE  PendingInv'
<1>1. CoreInv /\ Active
  BY ServedHead DEF EngineInv
<1>2. CASE UNCHANGED <<tfer, pc>> /\ eng'.transfer_list = eng.transfer_list
  BY <1>2, PendingFrame
<1>3. ASSUME NEW e \in EngineRecord, NEW h \in HwRecord, TakesHead(e, h, hw.count), Restarted(e, h)
      PROVE  PendingInv'
  BY <1>1, <1>3, PendingTakes
<1> QED
  BY <1>2, <1>3, ServedHead
-----------------------------------------------------------------------------
(***************************************************************************)
(* The engine's own invariant. Every step is one of the engine, except a   *)
(* blocking call that fails before it reaches the engine and an            *)
(* asynchronous call that wakes the thread for all its segments.           *)
(***************************************************************************)
SyncFails(r) ==
  /\ r \notin AsyncReqs /\ pc[r] = "new" /\ pc' = [pc EXCEPT ![r] = "failed"]
  /\ UNCHANGED <<tfer, desc_lock, eng, work, irq_on, hw, pollVars>>

LEMMA SyncFailsStep ==
  ASSUME EngineInv, ShapeInv, NEW r \in Requests, SyncFails(r)
  PROVE  EngineInv' /\ ShapeInv' /\ (RingInv => RingInv')
<1>0. /\ CoreInv /\ pc[r] = "new" /\ tfer[r] = <<>>
      /\ pc'[r] = "failed" /\ \A q \in Requests \ {r} : pc'[q] = pc[q]
      /\ UNCHANGED <<tfer, desc_lock, eng, work, irq_on, hw, poll_mode, wb, thread>>
  BY DEF EngineInv, CoreInv, TypeOK, SyncFails, CallInv, CallOf, pollVars
<1>1. TypeOK'
  BY <1>0 DEF CoreInv, TypeOK, SyncFails, Over
<1>2. HeadInv'
  BY <1>0 DEF CoreInv, HeadInv, Active, Xfer
<1>3. QueueInv'
  <2>1. ASSUME NEW i \in 1 .. Len(eng.transfer_list)
        PROVE  pc'[eng.transfer_list[i][1]] \notin Over
    <3>1. /\ eng.transfer_list[i][1] \in Requests /\ pc[eng.transfer_list[i][1]] \notin Over
          /\ eng.transfer_list[i][2] \in 1 .. Len(tfer[eng.transfer_list[i][1]])
      BY <1>0, QueueTyped DEF CoreInv, QueueInv, QueueMembers
    <3>2. eng.transfer_list[i][1] # r
      BY <1>0, <3>1
    <3> QED
      BY <1>0, <3>1, <3>2
  <2> QED
    BY <1>0, <2>1, SameQueue
<1>4. MovedInv' /\ LayoutInv'
  BY <1>0, SameTransfers
<1>5. CallInv'
  <2> SUFFICES ASSUME NEW q \in Requests PROVE CallOf(q)'
    BY DEF CallInv
  <2>1. CallOf(q)
    BY <1>0 DEF CoreInv, CallInv
  <2>2. CASE q = r
    BY <1>0, <2>2 DEF CallOf
  <2>3. CASE q # r
    BY <1>0, <2>1, <2>3 DEF CallOf, Built, Current, Xfer
  <2> QED
    BY <2>2, <2>3
<1>6. ThreadInv'
  BY <1>0 DEF EngineInv, ThreadInv
<1>7. ~Timeouts => ExactInv'
  BY <1>0 DEF EngineInv, ExactInv, FailedInv, StatusInv, PollInv, IrqInv, Xfer
<1>8. AsyncReqs = {} => LockInv'
  <2> SUFFICES ASSUME LockInv, NEW q \in Requests
               PROVE  /\ pc'[q] \in {"build", "queue", "wait"} <=> desc_lock' = q
                      /\ \A k \in 1 .. Len(tfer'[q]) : (Unfinished(q, k))' =>
                           desc_lock' = q /\ pc'[q] # "build" /\ k = Len(tfer'[q])
    BY DEF EngineInv, LockInv
  <2>1. CASE q = r
    BY <1>0, <2>1 DEF LockInv
  <2>2. CASE q # r
    BY <1>0, <2>2 DEF LockInv, Unfinished
  <2> QED
    BY <2>1, <2>2
<1>9. ShapeInv'
  BY <1>0 DEF ShapeInv, ShapeOf
<1>10. RingInv => RingInv'
  <2>1. BuiltDescs' = BuiltDescs
    BY <1>0 DEF BuiltDescs, Built, Current, Xfer
  <2> QED
    BY <1>0, <2>1 DEF RingInv, TakenFrom, DisjointSlots, Slots
<1> QED
  BY <1>1, <1>2, <1>3, <1>4, <1>5, <1>6, <1>7, <1>8, <1>9, <1>10 DEF EngineInv, CoreInv

\* An asynchronous call that returns: it wakes the thread for some requests.
WakesAll ==
  /\ \E S : thread' = [thread EXCEPT !.wakers = @ \ S, !.schedule = TRUE]
  /\ UNCHANGED <<pc, tfer, desc_lock, eng, work, irq_on, hw, poll_mode, wb>>

LEMMA WakesAllStep ==
  ASSUME EngineInv, ShapeInv, WakesAll
  PROVE  EngineInv' /\ ShapeInv' /\ (RingInv => RingInv')
<1>0. CoreInv /\ UNCHANGED <<pc, tfer, desc_lock, eng, work, irq_on, hw, poll_mode, wb>>
  BY DEF EngineInv, WakesAll
<1>1. thread' \in ThreadRecord /\ thread'.pc = thread.pc /\ thread'.desc_wb = thread.desc_wb
  BY <1>0 DEF WakesAll, CoreInv, TypeOK, ThreadRecord
<1>2. CoreInv'
  <2>1. wb' \in WbRecord
    BY <1>0 DEF CoreInv, TypeOK
  <2> QED
    BY <1>0, <1>1, <2>1, CoreThread
<1>3. ThreadInv'
  BY <1>0, <1>1 DEF EngineInv, ThreadInv
<1>4. ~Timeouts => ExactInv'
  BY <1>0, <1>1 DEF EngineInv, ExactInv, FailedInv, StatusInv, PollInv, IrqInv, Xfer
<1>5. AsyncReqs = {} => LockInv'
  BY <1>0 DEF EngineInv, LockInv, Unfinished
<1>6. ShapeInv'
  BY <1>0 DEF ShapeInv, ShapeOf
<1>7. RingInv => RingInv'
  <2>1. BuiltDescs' = BuiltDescs
    BY <1>0 DEF BuiltDescs, Built, Current, Xfer
  <2> QED
    BY <1>0, <2>1 DEF RingInv, TakenFrom, DisjointSlots, Slots
<1> QED
  BY <1>2, <1>3, <1>4, <1>5, <1>6, <1>7 DEF EngineInv

\* The call that wakes the thread is otherwise as it was.
LEMMA AioReturnStep ==
  ASSUME CoreInv, PinInv, AioType, IocbInv, PendingInv, NEW i \in Iocbs, AioReturn(i)
  PROVE  WakesAll /\ PinInv' /\ AioType' /\ IocbInv' /\ PendingInv'
<1> DEFINE n == Len(Segments[i])
           c == [aio[i] EXCEPT !.at = n + 2]
<1>1. /\ WakesAll /\ UNCHANGED <<pc, tfer, eng, pinned>> /\ aio[i].at = n + 1
      /\ aio' = [aio EXCEPT ![i].at = @ + 1]
  BY DEF AioReturn, WakesAll
<1>2. aio[i] \in IocbRecord(i) /\ IocbOf(i) /\ n \in Nat
  BY SegmentTyped DEF AioType, IocbInv
<1>3. /\ DOMAIN aio' = Iocbs /\ aio'[i] = c /\ \A j \in Iocbs \ {i} : aio'[j] = aio[j]
  <2>1. aio[i].at + 1 = n + 2
    BY <1>1, <1>2
  <2> QED
    BY <1>1, <2>1 DEF AioType
<1>4. /\ c \in IocbRecord(i) /\ c.at = n + 2 /\ c.ended = aio[i].ended /\ c.caio = aio[i].caio
      /\ c.cmpl_cnt = aio[i].cmpl_cnt /\ c.res = aio[i].res
  <2>1. n + 2 \in 0 .. n + 2
    BY <1>2
  <2> QED
    BY <1>2, <2>1 DEF IocbRecord
<1> HIDE DEF c
<1>5. AioType'
  BY <1>3, <1>4 DEF AioType, IocbRecord
<1>6. AsyncKept
  BY <1>1 DEF AsyncKept
<1>7. IocbOf(i)'
  <2>1. OverSegs(i)' = OverSegs(i) /\ SumOf(Credits(i))' = SumOf(Credits(i))
    BY <1>6, IocbKept
  <2>2. /\ n + 2 > n /\ n + 2 # 0 /\ n + 1 # 0
        /\ \A k \in 1 .. n : ~(k >= n + 1) /\ ~(k >= n + 2)
    BY <1>2
  <2> QED
    BY <1>1, <1>2, <1>3, <1>4, <2>1, <2>2 DEF IocbOf
<1>8. IocbInv'
  BY <1>3, <1>6, <1>7, IocbKept DEF IocbInv
<1>9. PinInv'
  BY <1>1 DEF PinInv
<1>10. PendingInv'
  BY <1>1, PendingFrame
<1> QED
  BY <1>1, <1>5, <1>8, <1>9, <1>10
-----------------------------------------------------------------------------
(***************************************************************************)
(* The invariant.                                                          *)
(***************************************************************************)

\* What a step does to the calls and to what is pending.
LEMMA CallsStep ==
  ASSUME ~Timeouts, EarlyFaults, AioInv, [AioNext]_allVars
  PROVE  /\ [Next]_engineVars \/ WakesAll \/ \E r \in Requests : SyncFails(r)
         /\ PinInv' /\ AioType' /\ IocbInv' /\ PendingInv'
<1>0. EngineInv /\ CoreInv /\ PinInv /\ AioType /\ IocbInv /\ PendingInv
  BY DEF AioInv, EngineInv
<1>1. CASE UNCHANGED allVars
  <2>1. UNCHANGED <<engineVars, pc, tfer, eng, aio, pinned>>
    BY <1>1 DEF allVars, aioVars, engineVars
  <2>2. CallsKept /\ UNCHANGED aioVars
    BY <2>1 DEF CallsKept, AsyncKept, aioVars
  <2>3. PendingInv'
    BY <1>0, <2>1, PendingFrame
  <2> QED
    BY <1>0, <2>1, <2>2, <2>3, CallsFrame
<1>2. ASSUME NEW i \in Iocbs, AioCall(i) \/ AioSegment(i)
      PROVE  /\ [Next]_engineVars
             /\ PinInv' /\ AioType' /\ IocbInv' /\ PendingInv'
  <2>1. /\ UNCHANGED engineVars \/ \E r \in Requests : SubmitNowait(r)
        /\ PinInv' /\ AioType' /\ IocbInv'
    <3>1. CASE AioCall(i)
      BY <1>0, <3>1, AioCallStep
    <3>2. CASE AioSegment(i)
      BY <1>0, <3>2, AioSegmentStep
    <3> QED
      BY <1>2, <3>1, <3>2
  <2>2. CASE UNCHANGED engineVars
    <3>1. UNCHANGED <<pc, tfer, eng>>
      BY <2>2 DEF engineVars
    <3> QED
      BY <1>0, <2>1, <2>2, <3>1, PendingFrame
  <2>3. ASSUME NEW r \in Requests, SubmitNowait(r)
        PROVE  Next /\ PendingInv'
    <3>1. tfer' = tfer /\ eng' = eng /\ pc[r] = "new" /\ pc' = [pc EXCEPT ![r] = "build"]
      BY <2>3 DEF SubmitNowait
    <3>2. tfer[r] = <<>>
      BY <1>0, <3>1 DEF CoreInv, CallInv, CallOf
    <3>3. \A q \in Requests : pc'[q] = IF q = r THEN "build" ELSE pc[q]
      BY <1>0, <3>1 DEF CoreInv, TypeOK
    <3>4. \A q \in AsyncReqs : pc'[q] = pc[q] \/ (tfer[q] = <<>> /\ pc'[q] = "build")
      BY <3>2, <3>3, EngineAssumption
    <3>5. PendingInv'
      BY <1>0, <3>1, <3>4, PendingFrame
    <3> QED
      BY <2>3, <3>5 DEF Next, Submitter
  <2> QED
    BY <2>1, <2>2, <2>3
<1>3. ASSUME NEW r \in Requests, EngineSteps(r)
      PROVE  Next /\ PinInv' /\ AioType' /\ IocbInv' /\ PendingInv'
  <2>1. /\ TransferInit(r) \/ TransferQueue(r) \/ WaitCompleted(r) \/ WaitFailed(r) \/ Wakeup(r)
        /\ UNCHANGED aioVars
    BY <1>3 DEF EngineSteps
  <2>2. Next
    BY <2>1 DEF Next, Submitter
  <2>3. CallsKept
    BY <1>0, <2>1, EngineKeepsCalls
  <2>4. PendingInv'
    <3>1. CASE TransferInit(r)
      BY <1>0, <3>1, PendingInit
    <3>2. CASE TransferQueue(r)
      BY <1>0, <3>2, PendingQueue
    <3>3. CASE WaitCompleted(r) \/ WaitFailed(r)
      <4>1. /\ tfer' = tfer /\ eng' = eng /\ pc[r] = "wait"
            /\ \A q \in Requests \ {r} : pc'[q] = pc[q]
        BY <1>0, <3>3 DEF WaitCompleted, WaitFailed, Proceed, CoreInv, TypeOK
      <4>2. r \notin AsyncReqs
        BY <1>0, <4>1 DEF CoreInv, CallInv, CallOf
      <4>3. \A q \in AsyncReqs : pc'[q] = pc[q]
        BY <4>1, <4>2, EngineAssumption
      <4> QED
        BY <1>0, <4>1, <4>3, PendingFrame
    <3>4. CASE Wakeup(r)
      BY <1>0, <3>4, PendingFrame DEF Wakeup
    <3> QED
      BY <2>1, <3>1, <3>2, <3>3, <3>4
  <2> QED
    BY <1>0, <2>1, <2>2, <2>3, <2>4, CallsFrame
<1>4. ASSUME NEW r \in Requests, Blocking(r)
      PROVE  /\ [Next]_engineVars \/ SyncFails(r)
             /\ PinInv' /\ AioType' /\ IocbInv' /\ PendingInv'
  <2>1. [Next]_engineVars \/ SyncFails(r)
    <3>1. CASE SyncCall(r)
      BY <3>1 DEF SyncCall, SyncFails, engineVars
    <3>2. CASE SyncSubmit(r)
      BY <3>2 DEF SyncSubmit, Next, Submitter
    <3>3. CASE SyncReturn(r)
      BY <3>3 DEF SyncReturn
    <3> QED
      BY <1>4, <3>1, <3>2, <3>3 DEF Blocking
  <2>2. eng' = eng /\ r \notin AsyncReqs /\ \A q \in Requests \ {r} : pc'[q] = pc[q]
    <3>1. CASE SyncCall(r)
      BY <1>0, <3>1 DEF SyncCall, CoreInv, TypeOK
    <3>2. CASE SyncSubmit(r)
      BY <1>0, <3>2 DEF SyncSubmit, SubmitSync, CoreInv, TypeOK
    <3>3. CASE SyncReturn(r)
      BY <3>3 DEF SyncReturn, engineVars
    <3> QED
      BY <1>4, <3>1, <3>2, <3>3 DEF Blocking
  <2>3. \A q \in AsyncReqs : pc'[q] = pc[q]
    BY <2>2, EngineAssumption
  <2>4. tfer' = tfer /\ PinInv' /\ AioType' /\ IocbInv'
    BY <1>0, <1>4, BlockingStep
  <2>5. PendingInv'
    BY <1>0, <2>2, <2>3, <2>4, PendingFrame
  <2> QED
    BY <2>1, <2>4, <2>5
<1>5. CASE AioService
  <2>1. ServiceTransfers \/ PollService
    BY <1>5 DEF AioService
  <2>2. Next
    BY <2>1 DEF Next, BottomHalf, CompletionThread
  <2> QED
    BY <1>0, <1>5, <2>1, <2>2, AioServiceStep, PendingService
<1>6. CASE (Irq \/ ServiceIdle \/ ServiceStatus \/ ServiceNothing) /\ UNCHANGED aioVars
  <2>1. UNCHANGED <<pc, tfer>> /\ eng'.transfer_list = eng.transfer_list
    BY <1>0, <1>6 DEF Irq, ServiceIdle, ServiceStatus, ServiceNothing, CoreInv, TypeOK, EngineRecord
  <2>2. PendingInv'
    BY <1>0, <2>1, PendingFrame
  <2>3. CallsKept
    BY <1>0, <1>6, EngineKeepsCalls
  <2>4. Next
    BY <1>6 DEF Next, BottomHalf
  <2> QED
    BY <1>0, <1>6, <2>2, <2>3, <2>4, CallsFrame
<1>7. CASE Device
  <2>1. (HwMove \/ HwError) /\ UNCHANGED aioVars
    BY <1>7 DEF Device
  <2>2. CallsKept
    BY <1>0, <2>1, EngineKeepsCalls
  <2>3. Next
    BY <2>1 DEF Next
  <2> QED
    BY <1>0, <2>1, <2>2, <2>3, PendingDevice, CallsFrame
<1>8. CASE ThreadOnly /\ UNCHANGED aioVars
  <2>1. UNCHANGED <<pc, tfer, eng>>
    BY <1>8 DEF ThreadOnly, ThreadCheck, ThreadWakes, ThreadProc, PollRead, PollGivesUp,
                PollClear, EngineUntouched
  <2>2. PendingInv'
    BY <1>0, <2>1, PendingFrame
  <2>3. CallsKept
    BY <1>0, <1>8, EngineKeepsCalls
  <2>4. Next
    BY <1>8 DEF ThreadOnly, Next, CompletionThread
  <2> QED
    BY <1>0, <1>8, <2>2, <2>3, <2>4, CallsFrame
<1>9. ASSUME NEW i \in Iocbs, AioReturn(i)
      PROVE  WakesAll /\ PinInv' /\ AioType' /\ IocbInv' /\ PendingInv'
  BY <1>0, <1>9, AioReturnStep
<1> QED
  BY <1>1, <1>2, <1>3, <1>4, <1>5, <1>6, <1>7, <1>8, <1>9
     DEF AioNext, Caller, Service, GivesUp, ThreadOnly, Finished

LEMMA AioStep ==
  ASSUME ~Timeouts, ~Refusals, EarlyFaults, AioInv, [AioNext]_allVars
  PROVE  AioInv' /\ (FitTogether /\ RingInv => RingInv')
<1>0. Orderly /\ EngineInv /\ ShapeInv
  BY DEF Orderly, AioInv
<1>1. /\ [Next]_engineVars \/ WakesAll \/ \E r \in Requests : SyncFails(r)
      /\ PinInv' /\ AioType' /\ IocbInv' /\ PendingInv'
  BY CallsStep
<1>2. CASE [Next]_engineVars
  BY <1>0, <1>1, <1>2, EngineStep, ShapeStep, RingStep DEF AioInv
<1>3. ASSUME NEW r \in Requests, SyncFails(r)
      PROVE  AioInv' /\ (FitTogether /\ RingInv => RingInv')
  BY <1>0, <1>1, <1>3, SyncFailsStep DEF AioInv
<1>4. CASE WakesAll
  BY <1>0, <1>1, <1>4, WakesAllStep DEF AioInv
<1> QED
  BY <1>1, <1>2, <1>3, <1>4

LEMMA AioStarts == AioInit => AioInv /\ RingInv
<1> SUFFICES ASSUME AioInit PROVE AioInv /\ RingInv
  OBVIOUS
<1>1. /\ Init /\ pinned = {}
      /\ aio = [i \in Iocbs |-> [at |-> 0, caio |-> "none", cmpl_cnt |-> 0, res |-> 0, ended |-> 0]]
      /\ \A r \in Requests : pc[r] = "new" /\ tfer[r] = <<>>
  BY DEF AioInit, Init
<1>2. EngineInv /\ ShapeInv /\ RingInv
  BY <1>1, EngineInit, RingInit
<1>3. PinInv
  BY <1>1 DEF PinInv
<1>4. ASSUME NEW i \in Iocbs
      PROVE  aio[i] \in IocbRecord(i) /\ IocbOf(i)
  <2>1. /\ Len(Segments[i]) \in Nat \ {0} /\ DOMAIN Segments[i] = 1 .. Len(Segments[i])
        /\ \A k \in 1 .. Len(Segments[i]) : pc[Segments[i][k]] = "new" /\ k >= 0
    BY <1>1, SegmentTyped
  <2>2. aio[i] = [at |-> 0, caio |-> "none", cmpl_cnt |-> 0, res |-> 0, ended |-> 0]
    BY <1>1
  <2>3. 0 \in 0 .. Len(Segments[i]) + 2 /\ 0 < Len(Segments[i])
    BY <2>1
  <2>4. aio[i] \in IocbRecord(i)
    BY <2>2, <2>3 DEF IocbRecord
  <2>5. /\ aio[i].at = 0 /\ aio[i].caio = "none" /\ aio[i].cmpl_cnt = 0
        /\ aio[i].res = 0 /\ aio[i].ended = 0
    BY <2>2
  <2>6. Cardinality(OverSegs(i)) = 0
    <3>1. OverSegs(i) = {}
      BY <2>1 DEF OverSegs, Over
    <3> QED
      BY <3>1, FS_EmptySet
  <2>7. SumOf(Credits(i)) = 0
    <3>1. Credits(i) \in Seq(Nat) /\ Len(Credits(i)) = Len(Segments[i])
      BY <1>2, CreditsTyped DEF EngineInv
    <3>2. \A k \in 1 .. Len(Segments[i]) : Credits(i)[k] = 0
      BY <2>1 DEF Credits, Credit, Over
    <3> QED
      BY <3>1, <3>2, SumZero
  <2> QED
    BY <2>1, <2>3, <2>4, <2>5, <2>6, <2>7 DEF IocbOf
<1>5. DOMAIN aio = Iocbs
  BY <1>1
<1>6. PendingInv
  <2> SUFFICES ASSUME NEW r \in AsyncReqs PROVE PendingOf(r)
    BY DEF PendingInv
  <2>1. pc[r] = "new" /\ Len(tfer[r]) = 0
    BY <1>1, EngineAssumption
  <2> QED
    BY <2>1 DEF PendingOf, Over
<1> QED
  BY <1>2, <1>3, <1>4, <1>5, <1>6 DEF AioInv, AioType, IocbInv

LEMMA AioInvariant == ASSUME ~Timeouts, ~Refusals, EarlyFaults PROVE AioSpec => []AioInv
<1>1. AioInit => AioInv
  BY AioStarts
<1>2. AioInv /\ [AioNext]_allVars => AioInv'
  BY AioStep
<1> QED
  BY <1>1, <1>2, PTL DEF AioSpec
-----------------------------------------------------------------------------
(***************************************************************************)
(* What the invariant says of the runs.                                    *)
(***************************************************************************)
LEMMA NoneOutstanding ==
  ASSUME AioInv, NEW i \in Iocbs, aio[i].ended = 1
  PROVE  /\ Outstanding(i) = {}
         /\ \A k \in DOMAIN Segments[i] : Segments[i][k] \notin pinned
<1>1. /\ DOMAIN Segments[i] = 1 .. Len(Segments[i])
      /\ \A k \in 1 .. Len(Segments[i]) : Segments[i][k] \in AsyncReqs /\ Segments[i][k] \in Requests
  BY SegmentTyped
<1>2. \A k \in 1 .. Len(Segments[i]) : pc[Segments[i][k]] \in Over \cup {"new"}
  BY DEF AioInv, IocbInv, IocbOf
<1>3. Outstanding(i) = {}
  BY <1>1, <1>2 DEF Outstanding
<1>4. \A k \in 1 .. Len(Segments[i]) : Segments[i][k] \notin pinned
  BY <1>1, <1>2 DEF AioInv, PinInv
<1> QED
  BY <1>1, <1>3, <1>4

LEMMA QueueIsPinned ==
  ASSUME CoreInv, PinInv
  PROVE  /\ hw.busy => hw.xfer[1] \in pinned
         /\ \A k \in 1 .. Len(eng.transfer_list) : eng.transfer_list[k][1] \in pinned
<1>1. ASSUME NEW r \in Requests, NEW k \in 1 .. Len(tfer[r]), pc[r] \notin Over
      PROVE  r \in pinned
  <2>1. tfer[r] # <<>>
    OBVIOUS
  <2>2. pc[r] # "new"
    BY <2>1 DEF CoreInv, CallInv, CallOf
  <2> QED
    BY <1>1, <2>2 DEF PinInv
<1>2. hw.busy => hw.xfer[1] \in pinned
  <2> SUFFICES ASSUME hw.busy PROVE hw.xfer[1] \in pinned
    OBVIOUS
  <2>1. Active
    BY DEF CoreInv, HeadInv, Active
  <2>2. /\ hw.xfer[1] \in Requests /\ hw.xfer[2] \in 1 .. Len(tfer[hw.xfer[1]])
        /\ pc[hw.xfer[1]] \notin Over
    BY <2>1, ActiveHead
  <2> QED
    BY <1>1, <2>2
<1>3. ASSUME NEW k \in 1 .. Len(eng.transfer_list)
      PROVE  eng.transfer_list[k][1] \in pinned
  <2> DEFINE t == eng.transfer_list[k]
  <2>1. t[1] \in Requests /\ t[2] \in 1 .. Len(tfer[t[1]]) /\ pc[t[1]] \notin Over
    BY QueueTyped DEF CoreInv, QueueInv, QueueMembers
  <2> QED
    BY <1>1, <2>1
<1> QED
  BY <1>2, <1>3

\* Of a segment that is over every transfer completed, or the device failed
\* on one.
LEMMA OverIsComplete ==
  ASSUME AioInv, ~Timeouts, NEW r \in AsyncReqs, pc[r] \in Over,
         \A k \in 1 .. Len(tfer[r]) : ~tfer[r][k].erred
  PROVE  Credit(r) = Size[r]
<1>0. CoreInv /\ ShapeInv /\ FailedInv /\ r \in Requests /\ PendingOf(r)
  BY EngineAssumption DEF AioInv, EngineInv, ExactInv, PendingInv
<1>1. tfer[r] \in Seq(XferRecord) /\ \A k \in 1 .. Len(tfer[r]) : tfer[r][k] \in XferRecord
  BY <1>0, XferTyped DEF CoreInv
<1>2. ASSUME NEW k \in 1 .. Len(tfer[r])
      PROVE  tfer[r][k].state = "COMPLETED"
  <2>1. tfer[r][k].state \in {"INIT", "SUBMITTED", "COMPLETED", "FAILED", "ABORTED"}
    BY <1>1 DEF XferRecord
  <2>2. tfer[r][k].state # "ABORTED" /\ tfer[r][k].state # "INIT"
    BY <1>0 DEF PendingOf, Over
  <2>3. tfer[r][k].state # "FAILED"
    BY <1>0 DEF FailedInv
  <2>4. ASSUME tfer[r][k].state = "SUBMITTED"
        PROVE  FALSE
    <3>1. PICK i \in 1 .. Len(eng.transfer_list) : eng.transfer_list[i] = <<r, k>>
      BY <1>0, <2>4 DEF PendingOf
    <3>2. pc[eng.transfer_list[i][1]] \notin Over
      BY <1>0 DEF CoreInv, QueueInv, QueueMembers
    <3> QED
      BY <3>1, <3>2
  <2> QED
    BY <2>1, <2>2, <2>3, <2>4
<1>3. \A k \in 1 .. Len(tfer[r]) :
        tfer[r][k].state = "COMPLETED" => tfer[r][k].moved = tfer[r][k].desc_num
  BY <1>0 DEF CoreInv, MovedInv
<1>4. Transferred(tfer[r]) = SumOf(Numbers(tfer[r]))
  BY <1>1, <1>2, <1>3, TransferredBounds
<1>5. Built(r) = Size[r]
  BY <1>0 DEF PendingOf
<1>6. SumOf(Numbers(tfer[r])) = Size[r]
  BY <1>0, <1>5, NumbersAreSize
<1> QED
  BY <1>4, <1>6 DEF Credit

LEMMA CreditIsMoved ==
  ASSUME CoreInv, NEW r \in Requests
  PROVE  /\ Credit(r) \in Nat /\ SumOf(Moves(tfer[r])) \in Nat
         /\ Credit(r) <= SumOf(Moves(tfer[r]))
<1>1. tfer[r] \in Seq(XferRecord)
  BY XferTyped DEF CoreInv
<1>2. \A k \in 1 .. Len(tfer[r]) :
        tfer[r][k].state = "COMPLETED" => tfer[r][k].moved = tfer[r][k].desc_num
  BY DEF CoreInv, MovedInv
<1>3. /\ Transferred(tfer[r]) \in Nat /\ Transferred(tfer[r]) <= SumOf(Moves(tfer[r]))
  BY <1>1, <1>2, TransferredBounds
<1>4. SumOf(Moves(tfer[r])) \in Nat
  <2>1. Moves(tfer[r]) \in Seq(Nat)
    BY <1>1, SumOfMoves
  <2>2. 0 \in 0 .. Len(Moves(tfer[r]))
    BY <2>1
  <2> QED
    BY <2>1, <2>2, PartialIsLess
<1> QED
  BY <1>3, <1>4 DEF Credit

LEMMA HonestResult ==
  ASSUME AioInv, ~Timeouts
  PROVE  ResultHonest
<1>0. CoreInv /\ TypeOK
  BY DEF AioInv, EngineInv, CoreInv
<1>1. ASSUME NEW i \in Iocbs
      PROVE  /\ aio[i].res <= SumOver(Segments[i], LAMBDA r : SumOver(tfer[r], LAMBDA x : x.moved))
             /\ aio[i].caio = "freed" /\ aio[i].cmpl_cnt > 0
                   /\ (\A k \in DOMAIN Segments[i] :
                         ~\E l \in DOMAIN tfer[Segments[i][k]] : tfer[Segments[i][k]][l].erred)
                  => aio[i].res = SumOver(Segments[i], LAMBDA r : Size[r])
  <2> DEFINE n == Len(Segments[i])
  <2>1. /\ n \in Nat \ {0} /\ DOMAIN Segments[i] = 1 .. n
        /\ \A k \in 1 .. n : Segments[i][k] \in AsyncReqs /\ Segments[i][k] \in Requests
    BY SegmentTyped
  <2>2. Credits(i) \in Seq(Nat) /\ Len(Credits(i)) = n
    BY <1>0, CreditsTyped
  <2>3. aio[i].res = SumOf(Credits(i)) /\ IocbOf(i) /\ aio[i] \in IocbRecord(i)
    BY DEF AioInv, IocbInv, IocbOf, AioType
  <2>4. /\ MovesOf(i) \in Seq(Nat) /\ Len(MovesOf(i)) = n
        /\ SumOver(Segments[i], LAMBDA r : SumOver(tfer[r], LAMBDA x : x.moved)) = SumOf(MovesOf(i))
    BY <1>0, SumOfMoved
  <2>5. SumOf(Credits(i)) <= SumOf(MovesOf(i))
    <3>1. \A k \in 1 .. n : Credits(i)[k] <= MovesOf(i)[k]
      BY <1>0, <2>1, CreditIsMoved DEF Credits, MovesOf
    <3> QED
      BY <2>2, <2>4, <3>1, SumMonotone
  <2>6. aio[i].res <= SumOver(Segments[i], LAMBDA r : SumOver(tfer[r], LAMBDA x : x.moved))
    BY <2>3, <2>4, <2>5
  <2>7. ASSUME aio[i].caio = "freed", aio[i].cmpl_cnt > 0,
               \A k \in DOMAIN Segments[i] :
                 ~\E l \in DOMAIN tfer[Segments[i][k]] : tfer[Segments[i][k]][l].erred
        PROVE  aio[i].res = SumOver(Segments[i], LAMBDA r : Size[r])
    <3>1. /\ SizesOf(i) \in Seq(Nat) /\ Len(SizesOf(i)) = n
          /\ SumOver(Segments[i], LAMBDA r : Size[r]) = SumOf(SizesOf(i))
      BY SumOfSizes
    <3>2. \A k \in 1 .. n : pc[Segments[i][k]] \in Over
      <4>1. aio[i].ended # 0
        BY <2>3, <2>7 DEF IocbOf
      <4>2. aio[i].ended = 1
        BY <2>3, <4>1 DEF IocbRecord
      <4>3. aio[i].cmpl_cnt # 0
        BY <2>7
      <4> QED
        BY <2>3, <4>2, <4>3 DEF IocbOf
    <3>3. ASSUME NEW k \in 1 .. n
          PROVE  Credits(i)[k] = SizesOf(i)[k]
      <4>1. PICK r \in AsyncReqs : r = Segments[i][k] /\ r \in Requests
        BY <2>1
      <4>2. pc[r] \in Over
        BY <3>2, <4>1
      <4>3. DOMAIN tfer[r] = 1 .. Len(tfer[r])
        BY <1>0, <4>1, XferTyped
      <4>4. \A l \in 1 .. Len(tfer[r]) : ~tfer[r][l].erred
        BY <2>1, <2>7, <4>1, <4>3
      <4>5. Credit(r) = Size[r]
        BY <4>2, <4>4, OverIsComplete
      <4> QED
        BY <4>1, <4>5 DEF Credits, SizesOf
    <3>4. Credits(i) = SizesOf(i)
      <4>1. \A s, u \in Seq(Nat) : Len(s) = n /\ Len(u) = n /\ (\A k \in 1 .. n : s[k] = u[k]) => s = u
        BY <2>1
      <4> QED
        BY <2>2, <3>1, <3>3, <4>1, Zenon
    <3> QED
      BY <2>3, <3>1, <3>4
  <2> QED
    BY <2>6, <2>7
<1> QED
  BY <1>1 DEF ResultHonest

(***************************************************************************)
(* The theorems. They are about calls whose faults come before the first   *)
(* segment is queued: a call that fails later ends the iocb while earlier  *)
(* segments are outstanding, and a segment the engine refuses is never     *)
(* counted.                                                                *)
(***************************************************************************)

\* An asynchronous call ends at most once, by its return or by the callback
\* of its last segment, and then no segment is outstanding and no page of it
\* pinned, for every number of calls and segments and every interleaving of
\* their submission, service and completion.
THEOREM IocbsEndOnce ==
  ASSUME ~Timeouts, ~Refusals, EarlyFaults PROVE AioSpec => []EndsOnce
<1>1. AioInv => EndsOnce
  <2> SUFFICES ASSUME AioInv, NEW i \in Iocbs
               PROVE  /\ aio[i].ended <= 1
                      /\ aio[i].ended = 1 =>
                           /\ Outstanding(i) = {}
                           /\ \A k \in DOMAIN Segments[i] : Segments[i][k] \notin pinned
    BY DEF EndsOnce
  <2>1. aio[i].ended \in {0, 1}
    BY DEF AioInv, AioType, IocbRecord
  <2>2. aio[i].ended <= 1
    BY <2>1
  <2> QED
    BY <2>2, NoneOutstanding
<1> QED
  BY <1>1, AioInvariant, PTL

\* The pages of every queued transfer are pinned, blocking or asynchronous,
\* the cdev_async_io of an outstanding segment is not freed, and the two
\* transfers a request has room for are enough, if the requests fit the ring
\* together: a third would be cut from the ring at a slot still taken.
THEOREM BuffersStayLive ==
  ASSUME ~Timeouts, ~Refusals, EarlyFaults, FitTogether PROVE AioSpec => []BuffersLive
<1>1. AioInit => AioInv /\ RingInv
  BY AioStarts
<1>2. AioInv /\ RingInv /\ [AioNext]_allVars => AioInv' /\ RingInv'
  BY AioStep
<1>3. AioInv /\ RingInv => BuffersLive
  <2> SUFFICES ASSUME AioInv, RingInv PROVE BuffersLive
    OBVIOUS
  <2>1. CoreInv /\ ShapeInv /\ PinInv /\ DisjointSlots
    BY DEF AioInv, EngineInv, RingInv
  <2>2. ASSUME NEW i \in Iocbs, Outstanding(i) # {}
        PROVE  aio[i].caio = "live"
    <3>1. aio[i] \in IocbRecord(i) /\ IocbOf(i)
      BY DEF AioInv, AioType, IocbInv
    <3>2. aio[i].ended = 0
      BY <2>2, <3>1, NoneOutstanding DEF IocbRecord
    <3>3. PICK k \in 1 .. Len(Segments[i]) : pc[Segments[i][k]] # "new"
      BY <2>2, SegmentTyped DEF Outstanding
    <3>4. ~(k >= aio[i].at)
      BY <3>1, <3>2, <3>3 DEF IocbOf
    <3>5. aio[i].at # 0
      BY <3>4
    <3> QED
      BY <3>1, <3>2, <3>5 DEF IocbOf
  <2>3. \A r \in AsyncReqs : Len(tfer[r]) <= 2
    BY <2>1, AtMostTwo, EngineAssumption
  <2> QED
    BY <2>1, <2>2, <2>3, QueueIsPinned DEF BuffersLive
<1> QED
  BY <1>1, <1>2, <1>3, PTL DEF AioSpec

\* The length a call is completed with is never more than the device has
\* moved for its segments, and is the length asked for when no transfer of
\* them met an error.
THEOREM ResultIsHonest ==
  ASSUME ~Timeouts, ~Refusals, EarlyFaults PROVE AioSpec => []ResultHonest
<1>1. AioInv => ResultHonest
  BY HonestResult
<1> QED
  BY <1>1, AioInvariant, PTL
=============================================================================
