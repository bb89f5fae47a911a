----------------------------- MODULE XdmaEngine -----------------------------
(***************************************************************************)
(* One SG DMA engine of the xdma driver (libxdma.c, xdma_thread.c), for    *)
(* memory-mapped transfers: synchronous requests (xdma_xfer_submit), which *)
(* hold desc_lock and wait for each of their transfers, asynchronous ones  *)
(* (xdma_xfer_submit_nowait), which only queue them, and the device        *)
(* (external). Completions are found by the interrupt and its bottom half  *)
(* engine_service_work or, with poll_mode, by the completion thread that   *)
(* watches a word in memory to which the device writes its count.          *)
(*                                                                         *)
(* Critical sections under engine->lock are single steps, except that      *)
(* engine_service reads the status and, later, the completed descriptor    *)
(* count: the device may run between the two. A request is a number of     *)
(* descriptors; their addresses and data are left out. The k-th transfer   *)
(* of request r is <<r, k>>; a synchronous request reuses one structure    *)
(* for its transfers, the model keeps the earlier ones as history.         *)
(***************************************************************************)
EXTENDS Integers, Sequences, FiniteSets

CONSTANTS
  Requests,    \* requests made of this engine, each made once
  AsyncReqs,   \* the ones made through xdma_xfer_submit_nowait
  Size,        \* Size[r]: sw_desc_cnt of request r
  DESC_MAX,    \* engine->desc_max, descriptors in the ring
  FirstIdx,    \* values of desc_idx earlier requests may have left
  UINT,        \* number of values of u32 (2^32 in C)
  Timeouts,    \* TRUE: a wait may time out or be interrupted
  HwErrors,    \* TRUE: the device may stop with an error
  Refusals,    \* TRUE: the card may be offline, or the engine shut down
  PollModes,   \* values of the module parameter poll_mode
  Strays,      \* what the thread may read as desc_cmpl_th of an empty queue
  None         \* no request, no transfer

ASSUME EngineAssumption ==
  /\ AsyncReqs \subseteq Requests /\ None \notin Requests
  /\ Size \in [Requests -> Nat \ {0}]
  /\ DESC_MAX \in Nat \ {0} /\ UINT \in Nat /\ FirstIdx \subseteq 0 .. DESC_MAX - 1
  /\ \A r \in Requests : DESC_MAX + Size[r] < UINT
  /\ {Timeouts, HwErrors, Refusals} \subseteq BOOLEAN
  /\ PollModes \subseteq BOOLEAN /\ Strays \subseteq Nat

VARIABLES
  pc,       \* pc[r]: where the submit call of r is
  tfer,     \* tfer[r]: the transfers of r
  desc_lock,\* the mutex: the request that holds it, or None
  eng,      \* struct xdma_engine: transfer_list, running, ...
  work,     \* engine->work: idle, pending, or servicing (holds engine->lock)
  irq_on,   \* the engine's interrupt is enabled
  hw,       \* the device: busy, its transfer, completed count, status bits
  poll_mode,\* the module parameter
  wb,       \* the write-back word: count, error flag
  thread    \* the completion thread and the calls that will wake it

pollVars   == <<poll_mode, wb, thread>>
engineVars == <<pc, tfer, desc_lock, eng, work, irq_on, hw, pollVars>>

Waiting == {"new", "build", "queue", "wait", "queued"}
Over    == {"done", "failed", "timedout"}

Xfer(t)      == tfer[t[1]][t[2]]
Current(r)   == <<r, Len(tfer[r])>>
Transfers    == UNION {{<<r, k>> : k \in 1 .. Len(tfer[r])} : r \in Requests}
LockFree     == work # "servicing"

\* Descriptors of r in the transfers built so far (req->sw_desc_idx): each
\* transfer begins where the one before it ended.
Built(r) ==
  IF tfer[r] = <<>> THEN 0
  ELSE Xfer(Current(r)).sw_desc_idx + Xfer(Current(r)).desc_num

\* The descriptors of its request that the device has moved for transfer t.
MovedDescs(t) ==
  Xfer(t).sw_desc_idx .. Xfer(t).sw_desc_idx + Xfer(t).moved - 1

\* The structures of libxdma.h and xdma_thread.h, and the device's registers.
XferRecord ==
  [state : {"INIT", "SUBMITTED", "COMPLETED", "FAILED", "ABORTED"},
   sw_desc_idx : Nat, desc_num : 1 .. DESC_MAX, desc_index : 0 .. DESC_MAX - 1,
   last_in_request : BOOLEAN, moved : Nat, erred : BOOLEAN]
EngineRecord ==
  [transfer_list : Seq(Requests \X (Nat \ {0})), running : BOOLEAN,
   desc_dequeued : 0 .. DESC_MAX, desc_idx : 0 .. DESC_MAX - 1, error : BOOLEAN]
HwRecord ==
  [busy : BOOLEAN, xfer : (Requests \X (Nat \ {0})) \cup {None},
   count : 0 .. DESC_MAX, event : BOOLEAN, error : BOOLEAN]
WbRecord == [count : 0 .. DESC_MAX, err : BOOLEAN]
ThreadRecord ==
  [pc : {"check", "sleep", "proc", "poll", "clear", "service"},
   schedule : BOOLEAN, expected : Nat, desc_wb : WbRecord, wakers : SUBSET Requests]

TypeOK ==
  /\ pc \in [Requests -> Waiting \cup Over]
  /\ tfer \in [Requests -> Seq(XferRecord)]
  /\ desc_lock \in Requests \cup {None}
  /\ eng \in EngineRecord
  /\ work \in {"idle", "pending", "servicing"} /\ irq_on \in BOOLEAN
  /\ hw \in HwRecord
  /\ poll_mode \in PollModes
  /\ wb \in WbRecord
  /\ thread \in ThreadRecord

NoWb == [count |-> 0, err |-> FALSE]

Init ==
  /\ pc = [r \in Requests |-> "new"]
  /\ tfer = [r \in Requests |-> <<>>]
  /\ desc_lock = None
  /\ \E idx \in FirstIdx :
       eng = [transfer_list |-> <<>>, running |-> FALSE, desc_dequeued |-> 0,
              desc_idx |-> idx, error |-> FALSE]
  /\ work = "idle" /\ irq_on = TRUE
  /\ hw = [busy |-> FALSE, xfer |-> None, count |-> 0, event |-> FALSE,
           error |-> FALSE]
  /\ poll_mode \in PollModes
  /\ wb = NoWb
  /\ thread = [pc |-> "check", schedule |-> FALSE, expected |-> 0,
               desc_wb |-> NoWb, wakers |-> {}]
-----------------------------------------------------------------------------
(***************************************************************************)
(* Starting and stopping the device.                                       *)
(***************************************************************************)

\* Faulty variant: the engine is started but not marked as running.
StartedEngine_NotMarked(e, h, list) ==
  [e EXCEPT !.transfer_list = list, !.desc_dequeued = 0, !.error = h.error]

\* engine_start: the head of the queue is given to the device. Status bits
\* left from an earlier run stay set, and are read; raising RUN clears the
\* count.
StartedEngine(e, h, list) ==
  [e EXCEPT !.transfer_list = list, !.running = TRUE, !.desc_dequeued = 0,
            !.error = h.error]
StartedHw(h, list) ==
  [h EXCEPT !.busy = TRUE, !.xfer = Head(list), !.count = 0]

\* Faulty variant: the engine is marked as stopped but RUN stays set.
StoppedHw_StillRunning(h) == h

\* xdma_engine_stop: RUN is cleared and the device stops.
StoppedEngine(e) == [e EXCEPT !.running = FALSE]
StoppedHw(h) == [h EXCEPT !.busy = FALSE]

(***************************************************************************)
(* Submitting.                                                             *)
(***************************************************************************)

\* xdma_xfer_submit takes desc_lock; xdma_xfer_submit_nowait does not.
SubmitSync(r) ==
  /\ r \notin AsyncReqs /\ pc[r] = "new"
  /\ desc_lock = None
  /\ desc_lock' = r
  /\ pc' = [pc EXCEPT ![r] = "build"]
  /\ UNCHANGED <<tfer, eng, work, irq_on, hw, pollVars>>

SubmitNowait(r) ==
  /\ r \in AsyncReqs /\ pc[r] = "new"
  /\ pc' = [pc EXCEPT ![r] = "build"]
  /\ UNCHANGED <<tfer, desc_lock, eng, work, irq_on, hw, pollVars>>

\* Descriptors the next transfer of r takes: what is left of the request,
\* cut at the end of the ring.
DescCount(r) ==
  LET desc_max == IF Size[r] - Built(r) < DESC_MAX THEN Size[r] - Built(r)
                                                   ELSE DESC_MAX
  IN  IF eng.desc_idx + desc_max >= DESC_MAX THEN DESC_MAX - eng.desc_idx
                                             ELSE desc_max

\* Faulty variant: desc_idx is not moved on.
TransferInit_NoAdvance(r) ==
  /\ pc[r] = "build" /\ LockFree
  /\ tfer' = [tfer EXCEPT ![r] = Append(@,
                [state |-> "INIT", sw_desc_idx |-> Built(r), desc_num |-> DescCount(r),
                 desc_index |-> eng.desc_idx,
                 last_in_request |-> Built(r) + DescCount(r) = Size[r],
                 moved |-> 0, erred |-> FALSE])]
  /\ pc' = [pc EXCEPT ![r] = "queue"]
  /\ UNCHANGED <<desc_lock, eng, work, irq_on, hw, pollVars>>

TransferInit(r) ==
  /\ pc[r] = "build" /\ LockFree
  /\ LET n == DescCount(r)
     IN  /\ tfer' = [tfer EXCEPT ![r] = Append(@,
                       [state |-> "INIT", sw_desc_idx |-> Built(r), desc_num |-> n,
                        desc_index |-> eng.desc_idx,
                        last_in_request |-> Built(r) + n = Size[r],
                        moved |-> 0, erred |-> FALSE])]
         /\ eng' = [eng EXCEPT !.desc_idx = (@ + n) % DESC_MAX]
  /\ pc' = [pc EXCEPT ![r] = "queue"]
  /\ UNCHANGED <<desc_lock, work, irq_on, hw, pollVars>>

TransferQueue(r) ==
  /\ pc[r] = "queue" /\ LockFree
  /\ tfer' = [tfer EXCEPT ![r][Len(tfer[r])].state = "SUBMITTED"]
  /\ LET list == Append(eng.transfer_list, Current(r))
     IN  IF eng.running
         THEN /\ eng' = [eng EXCEPT !.transfer_list = list]
              /\ UNCHANGED hw
         ELSE /\ eng' = StartedEngine(eng, hw, list)
              /\ hw' = StartedHw(hw, list)
  /\ pc' = [pc EXCEPT ![r] = IF r \notin AsyncReqs THEN "wait"
                             ELSE IF Xfer(Current(r)).last_in_request
                                  THEN "queued" ELSE "build"]
  /\ thread' = [thread EXCEPT !.wakers =
                  IF poll_mode /\ (r \in AsyncReqs => Xfer(Current(r)).last_in_request)
                  THEN @ \cup {r} ELSE @]
  /\ UNCHANGED <<desc_lock, work, irq_on, poll_mode, wb>>

\* transfer_queue returns -EBUSY: the card was taken offline, tested without
\* engine->lock, or the engine is being shut down, after the transfer was
\* built. The call gives up and frees its request; a synchronous one
\* releases desc_lock. Transfers of the request that are queued stay queued,
\* and desc_idx stays where it is. What else taking the card offline does is
\* in XdmaDevice.
TransferRefused(r) ==
  /\ Refusals
  /\ pc[r] = "queue"
  /\ tfer' = [tfer EXCEPT ![r][Len(tfer[r])].state = "ABORTED"]
  /\ pc' = [pc EXCEPT ![r] = "failed"]
  /\ desc_lock' = IF r \in AsyncReqs THEN desc_lock ELSE None
  /\ UNCHANGED <<eng, work, irq_on, hw, pollVars>>

\* Faulty variant: the thread's waitq is signalled but schedule is not set.
Wakeup_NotScheduled(r) ==
  /\ r \in thread.wakers
  /\ thread' = [thread EXCEPT !.wakers = @ \ {r}]
  /\ UNCHANGED <<pc, tfer, desc_lock, eng, work, irq_on, hw, poll_mode, wb>>

\* With a completion thread the call wakes it once its transfer is queued,
\* or, for an asynchronous request, after its last one. The thread may have
\* found the transfer before.
Wakeup(r) ==
  /\ r \in thread.wakers
  /\ thread' = [thread EXCEPT !.wakers = @ \ {r}, !.schedule = TRUE]
  /\ UNCHANGED <<pc, tfer, desc_lock, eng, work, irq_on, hw, poll_mode, wb>>

\* Faulty variant: the error paths do not release desc_lock.
Proceed_LockKept(r, to) ==
  /\ pc' = [pc EXCEPT ![r] = to]
  /\ desc_lock' = IF to = "done" THEN None ELSE desc_lock

\* A synchronous request goes on after its wait; when it ends it releases
\* desc_lock, unmaps its buffer and frees itself.
Proceed(r, to) ==
  /\ pc' = [pc EXCEPT ![r] = to]
  /\ desc_lock' = IF to \in Over THEN None ELSE desc_lock

WaitCompleted(r) ==
  /\ pc[r] = "wait" /\ r \notin thread.wakers /\ LockFree
  /\ Xfer(Current(r)).state = "COMPLETED"
  /\ Proceed(r, IF Xfer(Current(r)).last_in_request THEN "done" ELSE "build")
  /\ UNCHANGED <<tfer, eng, work, irq_on, hw, pollVars>>

WaitFailed(r) ==
  /\ pc[r] = "wait" /\ r \notin thread.wakers /\ LockFree
  /\ Xfer(Current(r)).state = "FAILED"
  /\ Proceed(r, "failed")
  /\ UNCHANGED <<tfer, eng, work, irq_on, hw, pollVars>>

\* The wait ended with the transfer still submitted: transfer_abort takes it
\* off the queue, if it is the head, and the engine is stopped. The status is
\* read, not cleared.
WaitTimedOut(r) ==
  /\ Timeouts
  /\ pc[r] = "wait" /\ r \notin thread.wakers /\ LockFree
  /\ Xfer(Current(r)).state = "SUBMITTED"
  /\ tfer' = [tfer EXCEPT ![r][Len(tfer[r])].state = "ABORTED"]
  /\ eng' = LET list == eng.transfer_list
            IN  StoppedEngine([eng EXCEPT !.error = hw.error, !.transfer_list =
                  IF list # <<>> /\ Head(list) = Current(r)
                  THEN Tail(list) ELSE list])
  /\ hw' = StoppedHw(hw)
  /\ Proceed(r, "timedout")
  /\ UNCHANGED <<work, irq_on, pollVars>>
-----------------------------------------------------------------------------
(***************************************************************************)
(* The interrupt and engine_service.                                       *)
(***************************************************************************)

\* xdma_channel_irq masks the interrupt and schedules the work.
Irq ==
  /\ ~poll_mode /\ hw.event /\ irq_on
  /\ irq_on' = FALSE
  /\ work' = "pending"
  /\ UNCHANGED <<pc, tfer, desc_lock, eng, hw, pollVars>>

\* engine_service on an engine that is not running only clears the status.
ServiceIdle ==
  /\ work = "pending" /\ ~eng.running
  /\ hw' = [hw EXCEPT !.event = FALSE, !.error = FALSE]
  /\ eng' = [eng EXCEPT !.error = hw.error]
  /\ work' = "idle" /\ irq_on' = TRUE
  /\ UNCHANGED <<pc, tfer, desc_lock, pollVars>>

\* Otherwise it reads and clears the status and, when the device is no
\* longer busy, stops the engine.
ServiceStatus ==
  /\ work = "pending" /\ eng.running
  /\ hw' = [hw EXCEPT !.event = FALSE, !.error = FALSE]
  /\ eng' = [eng EXCEPT !.error = hw.error, !.running = hw.busy]
  /\ work' = "servicing"
  /\ UNCHANGED <<pc, tfer, desc_lock, irq_on, pollVars>>

\* No descriptor completed in this run: nothing is serviced.
ServiceNothing ==
  /\ work = "servicing" /\ hw.count = 0
  /\ work' = "idle" /\ irq_on' = TRUE
  /\ UNCHANGED <<pc, tfer, desc_lock, eng, hw, pollVars>>

\* Sum of f over the members of a sequence.
SumOver(s, f(_)) ==
  LET sum[k \in 0 .. Len(s)] == IF k = 0 THEN 0 ELSE sum[k - 1] + f(s[k])
  IN  sum[Len(s)]

\* Descriptors of the first k transfers of a queue.
QueuedDescs(list, k) ==
  SumOver(SubSeq(list, 1, k), LAMBDA t : Xfer(t).desc_num)

\* Faulty variant: >= instead of >.
Passed_AtLeast(list, desc_count) ==
  CHOOSE k \in 0 .. Len(list) :
    /\ \A i \in 1 .. k : desc_count >= QueuedDescs(list, i)
    /\ k = Len(list) \/ desc_count < QueuedDescs(list, k + 1)

\* engine_service_transfer_list completes the longest run of transfers that
\* leaves something of desc_count for the next (> and not >=).
Passed(list, desc_count) ==
  CHOOSE k \in 0 .. Len(list) :
    /\ \A i \in 1 .. k : desc_count > QueuedDescs(list, i)
    /\ k = Len(list) \/ desc_count <= QueuedDescs(list, k + 1)

\* Faulty variant: the number of completed descriptors is not checked.
Verdict_Unchecked(e, t, rest) == IF e.error THEN "FAILED" ELSE "COMPLETED"

\* engine_service_final_transfer on t with rest descriptors completed.
Verdict(e, t, rest) ==
  IF e.error \/ rest < Xfer(t).desc_num THEN "FAILED" ELSE "COMPLETED"

\* xdma_xfer_completion, called for the last transfer of a request: the
\* request is over, and complete when all its transfers are.
Completed(r, newTfer) ==
  IF \A k \in 1 .. Len(newTfer[r]) : newTfer[r][k].state = "COMPLETED"
  THEN "done" ELSE "failed"

\* Faulty variant: a stopped engine is not restarted.
Resume_NoRestart(e, h) ==
  IF e.running /\ e.transfer_list = <<>>
  THEN eng' = StoppedEngine(e) /\ hw' = StoppedHw(h)
  ELSE eng' = e /\ hw' = h

\* engine_service_resume on engine e with the device h.
Resume(e, h) ==
  \/ /\ ~e.running /\ e.transfer_list # <<>>
     /\ eng' = StartedEngine(e, h, e.transfer_list)
     /\ hw' = StartedHw(h, e.transfer_list)
  \/ /\ e.running /\ e.transfer_list = <<>>
     /\ eng' = StoppedEngine(e) /\ hw' = StoppedHw(h)
  \/ /\ e.running <=> e.transfer_list # <<>>
     /\ eng' = e /\ hw' = h

\* The part of engine_service that takes transfers off the queue and goes on
\* with the rest, on engine e and device h: the first ones, passed in number,
\* are complete, and the next, if there is one, is the final transfer, with
\* rest descriptors completed.
TakeTransfers(e, h, passed, rest) ==
  LET list    == e.transfer_list
      isFinal == passed < Len(list)
      final   == list[passed + 1]
      stopped == isFinal /\ e.error
      gone    == IF isFinal THEN passed + 1 ELSE passed
      NewState(t) ==
        IF \E i \in 1 .. passed : list[i] = t THEN "COMPLETED"
        ELSE IF isFinal /\ t = final THEN Verdict(e, final, rest) ELSE Xfer(t).state
      newTfer == [r \in Requests |-> [k \in 1 .. Len(tfer[r]) |->
                    [tfer[r][k] EXCEPT !.state = NewState(<<r, k>>)]]]
      ended   == {r \in AsyncReqs : \E i \in 1 .. gone :
                    list[i][1] = r /\ Xfer(list[i]).last_in_request}
  IN  /\ tfer' = newTfer
      /\ pc' = [r \in Requests |-> IF r \in ended THEN Completed(r, newTfer)
                                                  ELSE pc[r]]
      /\ Resume([e EXCEPT
                   !.transfer_list = SubSeq(list, gone + 1, Len(list)),
                   !.running = @ /\ ~stopped,
                   !.desc_dequeued =
                      @ + QueuedDescs(list, IF stopped THEN passed ELSE gone)],
                IF stopped THEN StoppedHw(h) ELSE h)

\* For a count read from the device or written back by it.
TakeCompleted(e, h, desc_count) ==
  LET descs  == (desc_count - e.desc_dequeued) % UINT
      passed == Passed(e.transfer_list, descs)
  IN  TakeTransfers(e, h, passed, descs - QueuedDescs(e.transfer_list, passed))

ServiceTransfers ==
  /\ work = "servicing" /\ hw.count # 0
  /\ TakeCompleted(eng, hw, hw.count)
  /\ work' = "idle" /\ irq_on' = TRUE
  /\ UNCHANGED <<desc_lock, pollVars>>
-----------------------------------------------------------------------------
(***************************************************************************)
(* Polled mode: xthread_main of the thread this engine is assigned to, and *)
(* engine_service_poll.                                                    *)
(***************************************************************************)
\* The thread goes to a step of its loop; its locals end with the iteration.
ThreadMoves(to) ==
  thread' = IF to = "check"
            THEN [thread EXCEPT !.pc = to, !.expected = 0, !.desc_wb = NoWb]
            ELSE [thread EXCEPT !.pc = to]
EngineUntouched == UNCHANGED <<pc, tfer, desc_lock, eng, work, irq_on, hw, poll_mode>>

\* Is anything queued? If not, the thread waits for schedule.
ThreadCheck ==
  /\ poll_mode /\ thread.pc = "check" /\ LockFree
  /\ thread' = IF eng.transfer_list # <<>>
               THEN [thread EXCEPT !.pc = "proc", !.schedule = FALSE]
               ELSE [thread EXCEPT !.pc = "sleep"]
  /\ EngineUntouched /\ UNCHANGED wb

ThreadWakes ==
  /\ thread.pc = "sleep" /\ thread.schedule
  /\ thread' = [thread EXCEPT !.pc = "proc", !.schedule = FALSE]
  /\ EngineUntouched /\ UNCHANGED wb

\* The number of descriptors to wait for is read from the head of the queue
\* without engine->lock. The test for an empty queue compares the container
\* pointer with NULL and never fails: of an empty queue the thread reads the
\* word of struct xdma_engine that lies where desc_cmpl_th would be. With
\* 64-bit addresses that is the free lock of shutdown_wq, which is 0.
Expected ==
  IF eng.transfer_list = <<>> THEN Strays
                              ELSE {Xfer(Head(eng.transfer_list)).desc_num}

ThreadProc ==
  /\ thread.pc = "proc"
  /\ \E n \in Expected :
       thread' = [thread EXCEPT !.pc = IF n = 0 THEN "check" ELSE "poll",
                                !.expected = n]
  /\ EngineUntouched /\ UNCHANGED wb

\* engine_service_wb_monitor finds a count or, after POLL_TIMEOUT_SECONDS
\* without one, gives up.
PollRead ==
  /\ thread.pc = "poll" /\ wb # NoWb
  /\ thread' = [thread EXCEPT !.pc = "clear", !.desc_wb = wb]
  /\ EngineUntouched /\ UNCHANGED wb

PollGivesUp ==
  /\ thread.pc = "poll" /\ wb = NoWb
  /\ ThreadMoves("check")
  /\ EngineUntouched /\ UNCHANGED wb

\* Faulty variant: the word is not cleared.
PollClear_Kept ==
  /\ thread.pc = "clear"
  /\ ThreadMoves(IF thread.desc_wb.err \/ thread.desc_wb.count >= thread.expected
                 THEN "service" ELSE "poll")
  /\ EngineUntouched /\ UNCHANGED wb

\* What was found is cleared in memory. A count short of the expected one is
\* dropped, unless the time is over.
PollClear ==
  /\ thread.pc = "clear"
  /\ wb' = NoWb
  /\ \E to \in IF thread.desc_wb.err \/ thread.desc_wb.count >= thread.expected
               THEN {"service"} ELSE {"poll", "service"} : ThreadMoves(to)
  /\ EngineUntouched

\* engine_service with a count from memory: the status is read only for an
\* error, and the engine is stopped.
PollService ==
  /\ thread.pc = "service" /\ LockFree
  /\ LET err   == thread.desc_wb.err
         h     == IF err \/ ~eng.running
                  THEN [hw EXCEPT !.event = FALSE, !.error = FALSE] ELSE hw
         e     == IF err \/ ~eng.running
                  THEN [eng EXCEPT !.error = hw.error] ELSE eng
         count == IF thread.desc_wb.count = 0 THEN hw.count
                                              ELSE thread.desc_wb.count
     IN  \/ ~eng.running /\ eng' = e /\ hw' = h /\ UNCHANGED <<tfer, pc>>
         \/ /\ eng.running /\ count = 0
            /\ eng' = StoppedEngine(e) /\ hw' = StoppedHw(h)
            /\ UNCHANGED <<tfer, pc>>
         \/ /\ eng.running /\ count # 0
            /\ TakeCompleted(StoppedEngine(e), StoppedHw(h), count)
  /\ ThreadMoves("check")
  /\ UNCHANGED <<desc_lock, work, irq_on, poll_mode, wb>>
-----------------------------------------------------------------------------
(***************************************************************************)
(* The device (external): it executes the descriptors of the transfer it   *)
(* was started with, counts them, and goes idle with an event after the    *)
(* last, whose descriptor says STOPPED and COMPLETED, or on an error. In   *)
(* polled mode it then writes its count to memory.                         *)
(***************************************************************************)
HwMove ==
  /\ hw.busy
  /\ LET last == hw.count + 1 = Xfer(hw.xfer).desc_num
     IN  /\ hw' = [hw EXCEPT !.count = @ + 1, !.busy = ~last,
                             !.event = @ \/ last]
         /\ wb' = IF poll_mode /\ last THEN [count |-> hw.count + 1, err |-> FALSE]
                                       ELSE wb
  /\ tfer' = [tfer EXCEPT ![hw.xfer[1]][hw.xfer[2]].moved = @ + 1]
  /\ UNCHANGED <<pc, desc_lock, eng, work, irq_on, poll_mode, thread>>

HwError ==
  /\ HwErrors
  /\ hw.busy
  /\ hw' = [hw EXCEPT !.busy = FALSE, !.event = TRUE, !.error = TRUE]
  /\ wb' = IF poll_mode THEN [count |-> hw.count, err |-> TRUE] ELSE wb
  /\ tfer' = [tfer EXCEPT ![hw.xfer[1]][hw.xfer[2]].erred = TRUE]
  /\ UNCHANGED <<pc, desc_lock, eng, work, irq_on, poll_mode, thread>>
-----------------------------------------------------------------------------
Submitter(r) ==
  \/ SubmitSync(r) \/ SubmitNowait(r) \/ TransferInit(r) \/ TransferQueue(r)
  \/ Wakeup(r) \/ WaitCompleted(r) \/ WaitFailed(r)

BottomHalf == ServiceIdle \/ ServiceStatus \/ ServiceNothing \/ ServiceTransfers

CompletionThread ==
  \/ ThreadCheck \/ ThreadWakes \/ ThreadProc
  \/ PollRead \/ PollClear \/ PollService

AllOver == (\A r \in Requests : pc[r] \in Over) /\ UNCHANGED engineVars

Next ==
  \/ \E r \in Requests : Submitter(r) \/ WaitTimedOut(r) \/ TransferRefused(r)
  \/ Irq \/ BottomHalf \/ CompletionThread \/ PollGivesUp
  \/ HwMove \/ HwError
  \/ AllOver

\* Callers, the interrupt, the work queue, the completion thread and the
\* device make progress; a wait with a timeout ends.
Spec ==
  /\ Init /\ [][Next]_engineVars
  /\ \A r \in Requests : WF_engineVars(Submitter(r)) /\ WF_engineVars(WaitTimedOut(r))
  /\ WF_engineVars(Irq) /\ WF_engineVars(BottomHalf) /\ WF_engineVars(CompletionThread)
  /\ WF_engineVars(HwMove)
-----------------------------------------------------------------------------
(***************************************************************************)
(* A transfer marked COMPLETED was moved in full by the device, and of a   *)
(* request reported done every descriptor was moved, for exactly one of    *)
(* its transfers, and nothing beyond them: no count of another run or      *)
(* another transfer is credited to it.                                     *)
(***************************************************************************)
DoneMeansMoved ==
  /\ \A t \in Transfers : Xfer(t).state = "COMPLETED" => Xfer(t).moved = Xfer(t).desc_num
  /\ \A r \in Requests : pc[r] = "done" =>
       /\ \A d \in 0 .. Size[r] - 1 : \E k \in 1 .. Len(tfer[r]) :
            \A j \in 1 .. Len(tfer[r]) : d \in MovedDescs(<<r, j>>) <=> j = k
       /\ \A k \in 1 .. Len(tfer[r]) : MovedDescs(<<r, k>>) \subseteq 0 .. Size[r] - 1

(***************************************************************************)
(* engine_service_final_transfer marks a transfer FAILED because "the      *)
(* engine stopped on current transfer": only then, that is, only after the *)
(* device reported an error on it.                                         *)
(***************************************************************************)
FailedMeansError ==
  \A t \in Transfers : Xfer(t).state = "FAILED" => Xfer(t).erred

(***************************************************************************)
(* engine_start: "The engine will run and process all transfers that are   *)
(* queued using transfer_queue()". Whenever engine->lock is free, a        *)
(* non-empty queue belongs to a running engine.                            *)
(***************************************************************************)
QueueServed == LockFree /\ eng.transfer_list # <<>> => eng.running

(***************************************************************************)
(* The device never works on, and the queue never refers to, a transfer of *)
(* a request that is over: its buffer is unmapped and its memory freed.    *)
(***************************************************************************)
NoDanglingTransfer ==
  /\ hw.busy => pc[hw.xfer[1]] \notin Over
  /\ \A i \in 1 .. Len(eng.transfer_list) : pc[eng.transfer_list[i][1]] \notin Over

(***************************************************************************)
(* Two transfers that are built and not yet executed never share a         *)
(* descriptor of the ring. transfer_init does not enforce this ("Need to   *)
(* handle desc_used >= engine->desc_max"): it holds for requests that fit  *)
(* the ring together, in whatever order they are built, queued and served. *)
(***************************************************************************)
Occupied(t) ==
  IF Xfer(t).state \in {"INIT", "SUBMITTED"}
  THEN Xfer(t).desc_index .. Xfer(t).desc_index + Xfer(t).desc_num - 1 ELSE {}
RingExclusive ==
  \A t, u \in Transfers : t # u => Occupied(t) \cap Occupied(u) = {}

(***************************************************************************)
(* Every request is answered, the ones waiting for desc_lock included: no  *)
(* wake-up, interrupt, restart of the engine or unlock is lost.            *)
(***************************************************************************)
EveryRequestEnds == \A r \in Requests : <>(pc[r] \in Over)
=============================================================================
