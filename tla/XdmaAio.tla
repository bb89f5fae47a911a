------------------------------ MODULE XdmaAio ------------------------------
(***************************************************************************)
(* The SG DMA character device of the xdma driver (cdev_sgdma.c) on one    *)
(* engine: blocking reads and writes (char_sgdma_read_write), and          *)
(* asynchronous ones (cdev_aio_write, cdev_aio_read), whose segments are   *)
(* requests of their own to the engine and are counted by the callback     *)
(* async_io_handler. Every step of XdmaEngine is taken here together with  *)
(* what it does to the calls, with interrupts or with polling; waits that  *)
(* time out and transfers refused by the engine are left to XdmaEngine.    *)
(*                                                                         *)
(* The two directions have the same code. Lengths are descriptors. A call  *)
(* that fails before its segments are queued hands its result to the       *)
(* kernel, which ends the iocb as ki_complete does.                        *)
(***************************************************************************)
EXTENDS XdmaEngine, SequencesExt

CONSTANTS
  Iocbs,      \* asynchronous calls
  Segments,   \* Segments[i]: the sequence of requests made for iocb i
  AioFaults   \* what may go wrong in a call: see Fails

ASSUME AioAssumption ==
  /\ Segments \in [Iocbs -> Seq(AsyncReqs) \ {<<>>}]
  /\ \A r \in AsyncReqs : \E i \in Iocbs : r \in {Segments[i][k] : k \in DOMAIN Segments[i]}
  /\ \A i, j \in Iocbs : \A k \in DOMAIN Segments[i], l \in DOMAIN Segments[j] :
       Segments[i][k] = Segments[j][l] => i = j /\ k = l
  /\ AioFaults \subseteq {"direction", "align", "pages", "late_align", "late_pages", "offline"}

VARIABLES
  aio,      \* aio[i]: the call for iocb i and its struct cdev_async_io
  pinned    \* requests whose user pages are pinned (cb->pages)

aioVars == <<aio, pinned>>
allVars == <<engineVars, aioVars>>

AioInit ==
  /\ Init
  /\ aio = [i \in Iocbs |-> [at |-> 0, caio |-> "none", cmpl_cnt |-> 0,
                             res |-> 0, ended |-> 0]]
  /\ pinned = {}

\* The two outcomes of a step that may fail, or only the good one.
Fails(fault) == IF fault \in AioFaults THEN BOOLEAN ELSE {FALSE}
-----------------------------------------------------------------------------
(***************************************************************************)
(* Asynchronous calls.                                                     *)
(***************************************************************************)

\* The call begins: a direction the engine does not have is refused before
\* the request structure is allocated.
AioCall(i) ==
  /\ aio[i].at = 0
  /\ \E refused \in Fails("direction") :
       aio' = IF refused
              THEN [aio EXCEPT ![i].at = Len(Segments[i]) + 2, ![i].ended = 1]
              ELSE [aio EXCEPT ![i].at = 1, ![i].caio = "live"]
  /\ UNCHANGED <<engineVars, pinned>>

\* The call returns an error from within its loop over the segments.
AioRefused(i, caio) ==
  /\ aio' = [aio EXCEPT ![i].at = Len(Segments[i]) + 2, ![i].caio = caio,
                        ![i].ended = @ + 1]
  /\ UNCHANGED <<engineVars, pinned>>

\* Faulty variant: the next segment is submitted before its pages are pinned.
AioSegment_Unpinned(i) ==
  /\ aio[i].at \in 1 .. Len(Segments[i])
  /\ \A k \in 1 .. aio[i].at - 1 : pc[Segments[i][k]] \notin {"build", "queue"}
  /\ SubmitNowait(Segments[i][aio[i].at])
  /\ aio' = [aio EXCEPT ![i].at = @ + 1]
  /\ UNCHANGED pinned

\* One round of the loop. A misaligned segment frees the structure and a
\* segment whose pages cannot be pinned does not, whatever was queued
\* before; a segment the engine refuses is passed over, its pages pinned.
AioSegment(i) ==
  LET k     == aio[i].at
      fault == IF k = 1 THEN [align |-> "align", pages |-> "pages"]
                        ELSE [align |-> "late_align", pages |-> "late_pages"]
  IN  /\ k \in 1 .. Len(Segments[i])
      /\ \A j \in 1 .. k - 1 : pc[Segments[i][j]] \notin {"build", "queue"}
      /\ \E misaligned \in Fails(fault.align), unpinnable \in Fails(fault.pages),
            offline \in Fails("offline") :
           CASE misaligned -> AioRefused(i, "freed")
             [] ~misaligned /\ unpinnable -> AioRefused(i, aio[i].caio)
             [] OTHER ->
                  /\ IF offline THEN UNCHANGED engineVars
                                ELSE SubmitNowait(Segments[i][k])
                  /\ aio' = [aio EXCEPT ![i].at = @ + 1]
                  /\ pinned' = pinned \cup {Segments[i][k]}

\* After the loop the call wakes the completion thread, for all its segments
\* at once, and returns -EIOCBQUEUED. Without a thread nothing is left to do.
AioReturn(i) ==
  LET segments == {Segments[i][k] : k \in DOMAIN Segments[i]}
  IN  /\ poll_mode
      /\ aio[i].at = Len(Segments[i]) + 1
      /\ \A r \in segments : pc[r] \notin {"build", "queue"}
      /\ aio' = [aio EXCEPT ![i].at = @ + 1]
      /\ thread' = [thread EXCEPT !.wakers = @ \ segments, !.schedule = TRUE]
      /\ UNCHANGED <<pc, tfer, desc_lock, eng, work, irq_on, hw, poll_mode, wb, pinned>>
-----------------------------------------------------------------------------
(***************************************************************************)
(* Completion of asynchronous requests, under engine->lock.                *)
(***************************************************************************)

\* xdma_xfer_completion: the length of the transfers up to the first that
\* did not complete.
Transferred(xfers) ==
  LET good == CHOOSE k \in 0 .. Len(xfers) :
                /\ \A j \in 1 .. k : xfers[j].state = "COMPLETED"
                /\ k = Len(xfers) \/ xfers[k + 1].state # "COMPLETED"
  IN  SumOver(SubSeq(xfers, 1, good), LAMBDA x : x.desc_num)

\* Faulty variant: the segment that completes first ends the iocb.
HandlerEnds_First(c, req_cnt) == c.cmpl_cnt > 0

\* The callback has counted all segments of the call.
HandlerEnds(c, req_cnt) == c.cmpl_cnt = req_cnt

\* Faulty variant: every segment is credited in full.
Handled_InFull(c, req_cnt, ended) ==
  LET d == [c EXCEPT !.cmpl_cnt = @ + Cardinality(ended),
                     !.res = @ + SumOver(SetToSeq(ended), LAMBDA r : Size[r])]
  IN  IF ended # {} /\ HandlerEnds(d, req_cnt)
      THEN [d EXCEPT !.caio = "freed", !.ended = @ + 1] ELSE d

\* async_io_handler for the segments ended in one service. It is only called
\* under engine->lock, so its spin_trylock never fails.
Handled(c, req_cnt, ended) ==
  LET d == [c EXCEPT !.cmpl_cnt = @ + Cardinality(ended),
                     !.res = @ + SumOver(SetToSeq(ended), LAMBDA r : Transferred(tfer'[r]))]
  IN  IF ended # {} /\ HandlerEnds(d, req_cnt)
      THEN [d EXCEPT !.caio = "freed", !.ended = @ + 1] ELSE d

\* engine_transfer_completion calls the callback of every asynchronous
\* request whose last transfer was taken off the queue.
AioService ==
  /\ ServiceTransfers \/ PollService
  /\ LET ended == {r \in AsyncReqs : pc[r] \notin Over /\ pc'[r] \in Over}
     IN  /\ aio' = [i \in Iocbs |->
                      Handled(aio[i], Len(Segments[i]),
                              {r \in ended : \E k \in DOMAIN Segments[i] :
                                               Segments[i][k] = r})]
         /\ pinned' = pinned \ ended
-----------------------------------------------------------------------------
(***************************************************************************)
(* Blocking calls: after the checks the pages are pinned, before the       *)
(* request is submitted, and released when it is over, however it ended.   *)
(***************************************************************************)
SyncCall(r) ==
  /\ r \notin AsyncReqs /\ pc[r] = "new" /\ r \notin pinned
  /\ \E direction \in Fails("direction"), misaligned \in Fails("align"),
        unpinnable \in Fails("pages") :
       IF direction \/ misaligned \/ unpinnable
       THEN pc' = [pc EXCEPT ![r] = "failed"] /\ UNCHANGED pinned
       ELSE pinned' = pinned \cup {r} /\ UNCHANGED pc
  /\ UNCHANGED <<tfer, desc_lock, eng, work, irq_on, hw, pollVars, aio>>

SyncSubmit(r) ==
  /\ r \in pinned /\ SubmitSync(r)
  /\ UNCHANGED aioVars

SyncReturn(r) ==
  /\ r \in pinned /\ r \notin AsyncReqs /\ pc[r] \in Over
  /\ pinned' = pinned \ {r}
  /\ UNCHANGED <<engineVars, aio>>
-----------------------------------------------------------------------------
Caller(i) == AioCall(i) \/ AioSegment(i) \/ AioReturn(i)

EngineSteps(r) ==
  /\ \/ TransferInit(r) \/ TransferQueue(r) \/ WaitCompleted(r) \/ WaitFailed(r)
     \/ r \notin AsyncReqs /\ Wakeup(r)
  /\ UNCHANGED aioVars

Blocking(r) == SyncCall(r) \/ SyncSubmit(r) \/ SyncReturn(r)

\* The interrupt and the work item, or the completion thread.
Service ==
  \/ AioService
  \/ /\ \/ Irq \/ ServiceIdle \/ ServiceStatus \/ ServiceNothing
        \/ ThreadCheck \/ ThreadWakes \/ ThreadProc \/ PollRead \/ PollClear
     /\ UNCHANGED aioVars

\* The thread's poll times out; the device moves a descriptor or fails.
GivesUp == PollGivesUp /\ UNCHANGED aioVars
Device == (HwMove \/ HwError) /\ UNCHANGED aioVars

\* All calls are over. After an error of the device a stopped engine may keep
\* its queue, and the calls wait.
Finished ==
  /\ \/ /\ \A i \in Iocbs : aio[i].ended > 0
        /\ \A r \in Requests \ AsyncReqs : pc[r] \in Over
     \/ \E t \in Transfers : Xfer(t).erred
  /\ UNCHANGED allVars

AioNext ==
  \/ \E i \in Iocbs : Caller(i)
  \/ \E r \in Requests : EngineSteps(r) \/ Blocking(r)
  \/ Service \/ GivesUp \/ Device \/ Finished

\* Callers, the interrupt, the work queue, the completion thread and the
\* device make progress.
AioSpec ==
  /\ AioInit /\ [][AioNext]_allVars
  /\ \A i \in Iocbs : WF_allVars(Caller(i))
  /\ \A r \in Requests : WF_allVars(EngineSteps(r)) /\ WF_allVars(Blocking(r))
  /\ WF_allVars(Service) /\ WF_allVars(HwMove /\ UNCHANGED aioVars)
-----------------------------------------------------------------------------
\* Requests of which the engine still holds a transfer or will get one.
Outstanding(i) ==
  {r \in AsyncReqs : pc[r] \notin Over \cup {"new"}
                     /\ \E k \in DOMAIN Segments[i] : Segments[i][k] = r}

(***************************************************************************)
(* The memory behind queued transfers is there: the user pages of what the *)
(* device works on or will work on are pinned, and the cdev_async_io that  *)
(* holds the callback of an outstanding segment is not freed, neither by   *)
(* the callbacks of other segments nor by an error return of the call. The *)
(* transfers of a request fit the array of two it has ("Use two transfers  *)
(* in case single request needs to be split").                             *)
(***************************************************************************)
BuffersLive ==
  /\ hw.busy => hw.xfer[1] \in pinned
  /\ \A k \in 1 .. Len(eng.transfer_list) : eng.transfer_list[k][1] \in pinned
  /\ \A i \in Iocbs : Outstanding(i) # {} => aio[i].caio = "live"
  /\ \A r \in AsyncReqs : Len(tfer[r]) <= 2

(***************************************************************************)
(* An iocb ends at most once, by ki_complete or by the error its call      *)
(* returned, and then none of its segments is outstanding and none of its  *)
(* pages pinned: the caller may free and reuse the buffers.                *)
(***************************************************************************)
EndsOnce ==
  \A i \in Iocbs :
    /\ aio[i].ended <= 1
    /\ aio[i].ended = 1 =>
         /\ Outstanding(i) = {}
         /\ \A k \in DOMAIN Segments[i] : Segments[i][k] \notin pinned

(***************************************************************************)
(* The length an iocb is completed with is never more than the device has  *)
(* moved for it, and is everything when no error occurred.                 *)
(***************************************************************************)
ResultHonest ==
  \A i \in Iocbs :
    LET Moved(r) == SumOver(tfer[r], LAMBDA x : x.moved)
        Erred(r) == \E k \in DOMAIN tfer[r] : tfer[r][k].erred
    IN  /\ aio[i].res <= SumOver(Segments[i], Moved)
        /\ aio[i].caio = "freed" /\ aio[i].cmpl_cnt > 0
              /\ (\A k \in DOMAIN Segments[i] : ~Erred(Segments[i][k]))
             => aio[i].res = SumOver(Segments[i], LAMBDA r : Size[r])

(***************************************************************************)
(* Every asynchronous call ends in the end, as long as the device reports  *)
(* no error: each of its segments is counted.                              *)
(***************************************************************************)
EveryIocbEnds ==
  \A i \in Iocbs :
    aio[i].at > 0 ~> (aio[i].ended > 0 \/ \E t \in Transfers : Xfer(t).erred)
=============================================================================
