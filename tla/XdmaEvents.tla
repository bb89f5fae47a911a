----------------------------- MODULE XdmaEvents -----------------------------
(***************************************************************************)
(* Interrupts of an xdma device and the event files (libxdma.c,            *)
(* cdev_events.c). User interrupts set events_irq of their line and wake   *)
(* the readers and pollers of its file; channel interrupts are masked and  *)
(* schedule the work of their engine, which unmasks them. With MSI-X each  *)
(* interrupt has a handler of its own; otherwise xdma_isr serves them all, *)
(* reading first the channel and then the user requests.                   *)
(*                                                                         *)
(* A user request of the device is level until a handler has taken it; the *)
(* status behind a channel request is cleared by engine_service.           *)
(***************************************************************************)
EXTENDS Naturals

CONSTANTS
  Users,     \* user interrupt lines
  Channels,  \* channels, each with its engine
  Readers,   \* processes with an event file open
  Line,      \* Line[p]: the user interrupt of the file of p
  Modes      \* interrupt modes: "msix", "shared" (MSI or the PCI line)

ASSUME EventsAssumption ==
  /\ Line \in [Readers -> Users]
  /\ Modes \subseteq {"msix", "shared"}

VARIABLES
  mode,        \* the interrupt mode
  user_req,    \* user interrupts requested by the device
  chan_req,    \* channels with a status to service
  chan_on,     \* channels whose interrupt is enabled
  isr,         \* xdma_isr: is it running, and the channels it found
  work,        \* engines whose work is scheduled
  events_irq,  \* events_irq[u]
  proc         \* proc[p]: where the read or poll call of p is

vars == <<mode, user_req, chan_req, chan_on, isr, work, events_irq, proc>>

TypeOK ==
  /\ mode \in Modes /\ user_req \subseteq Users
  /\ chan_req \cup chan_on \cup work \subseteq Channels
  /\ isr \in [on : BOOLEAN, ch_irq : SUBSET Channels]
  /\ events_irq \in [Users -> BOOLEAN]
  /\ proc \in [Readers -> {"out", "read", "poll", "asleep_read", "asleep_poll", "taking"}]

Idle == [on |-> FALSE, ch_irq |-> {}]

Init ==
  /\ mode \in Modes
  /\ user_req = {} /\ chan_req = {} /\ chan_on = Channels
  /\ isr = Idle /\ work = {}
  /\ events_irq = [u \in Users |-> FALSE]
  /\ proc = [p \in Readers |-> "out"]
-----------------------------------------------------------------------------
(***************************************************************************)
(* The device (external).                                                  *)
(***************************************************************************)
UserRequest(u) ==
  /\ u \notin user_req
  /\ user_req' = user_req \cup {u}
  /\ UNCHANGED <<mode, chan_req, chan_on, isr, work, events_irq, proc>>

ChannelRequest(c) ==
  /\ c \notin chan_req
  /\ chan_req' = chan_req \cup {c}
  /\ UNCHANGED <<mode, user_req, chan_on, isr, work, events_irq, proc>>
-----------------------------------------------------------------------------
(***************************************************************************)
(* Interrupt handlers.                                                     *)
(***************************************************************************)

\* wake_up_interruptible on events_wq: the sleepers test events_irq again.
Woken(p) ==
  CASE proc[p] = "asleep_read" -> "read"
    [] proc[p] = "asleep_poll" -> "poll"
    [] OTHER -> proc[p]

\* Faulty variant: the event is recorded without a wake-up.
UserIrqService_NoWakeup(lines) ==
  /\ events_irq' = [u \in Users |-> u \in lines \/ events_irq[u]]
  /\ UNCHANGED proc

\* user_irq_service for each of the lines: readers are woken when the event
\* is new.
UserIrqService(lines) ==
  /\ events_irq' = [u \in Users |-> u \in lines \/ events_irq[u]]
  /\ proc' = [p \in Readers |->
                IF Line[p] \in lines /\ ~events_irq[Line[p]] THEN Woken(p)
                                                            ELSE proc[p]]

\* xdma_user_irq (MSI-X).
UserIrq(u) ==
  /\ mode = "msix" /\ u \in user_req
  /\ user_req' = user_req \ {u}
  /\ UserIrqService({u})
  /\ UNCHANGED <<mode, chan_req, chan_on, isr, work>>

\* xdma_channel_irq (MSI-X): mask, then schedule the bottom half.
ChannelIrq(c) ==
  /\ mode = "msix" /\ c \in chan_req \cap chan_on
  /\ chan_on' = chan_on \ {c}
  /\ work' = work \cup {c}
  /\ UNCHANGED <<mode, user_req, chan_req, isr, events_irq, proc>>

\* xdma_isr: "disable all interrupts that fired".
IsrChannels ==
  /\ mode = "shared" /\ ~isr.on
  /\ user_req # {} \/ chan_req \cap chan_on # {}
  /\ isr' = [on |-> TRUE, ch_irq |-> chan_req \cap chan_on]
  /\ chan_on' = chan_on \ chan_req
  /\ UNCHANGED <<mode, user_req, chan_req, work, events_irq, proc>>

\* Faulty variant: only one engine is scheduled.
IsrRest_OneEngine ==
  /\ isr.on
  /\ user_req' = {}
  /\ UserIrqService(user_req)
  /\ work' = work \cup (IF isr.ch_irq = {} THEN {} ELSE {CHOOSE c \in isr.ch_irq : TRUE})
  /\ isr' = Idle
  /\ UNCHANGED <<mode, chan_req, chan_on>>

\* The rest of xdma_isr: the user interrupts, then the work of each engine
\* whose interrupt fired, first H2C, then C2H.
IsrRest ==
  /\ isr.on
  /\ user_req' = {}
  /\ UserIrqService(user_req)
  /\ work' = work \cup isr.ch_irq
  /\ isr' = Idle
  /\ UNCHANGED <<mode, chan_req, chan_on>>

\* engine_service_work: the status is read and cleared and the interrupt
\* enabled again.
EngineWork(c) ==
  /\ c \in work
  /\ work' = work \ {c}
  /\ chan_req' = chan_req \ {c}
  /\ chan_on' = chan_on \cup {c}
  /\ UNCHANGED <<mode, user_req, isr, events_irq, proc>>
-----------------------------------------------------------------------------
(***************************************************************************)
(* The event files.                                                        *)
(***************************************************************************)
CallRead(p) ==
  /\ proc[p] = "out"
  /\ proc' = [proc EXCEPT ![p] = "read"]
  /\ UNCHANGED <<mode, user_req, chan_req, chan_on, isr, work, events_irq>>

CallPoll(p) ==
  /\ proc[p] = "out"
  /\ proc' = [proc EXCEPT ![p] = "poll"]
  /\ UNCHANGED <<mode, user_req, chan_req, chan_on, isr, work, events_irq>>

\* wait_event_interruptible tests events_irq, on the wait queue already, and
\* sleeps if it is clear; the lock is not held between this test and the next
\* step. The poll call returns "readable" and the process reads.
TestEvent(p) ==
  /\ proc[p] \in {"read", "poll"}
  /\ proc' = [proc EXCEPT ![p] =
                CASE events_irq[Line[p]] -> IF @ = "read" THEN "taking" ELSE "read"
                  [] OTHER -> IF @ = "read" THEN "asleep_read" ELSE "asleep_poll"]
  /\ UNCHANGED <<mode, user_req, chan_req, chan_on, isr, work, events_irq>>

\* A signal ends the wait with ERESTARTSYS.
Signal(p) ==
  /\ proc[p] \in {"asleep_read", "asleep_poll"}
  /\ proc' = [proc EXCEPT ![p] = "out"]
  /\ UNCHANGED <<mode, user_req, chan_req, chan_on, isr, work, events_irq>>

\* Under events_lock events_irq is handed over and cleared. With several
\* readers of one file it may be clear already, and the read returns 0.
TakeEvent(p) ==
  /\ proc[p] = "taking"
  /\ events_irq' = [events_irq EXCEPT ![Line[p]] = FALSE]
  /\ proc' = [proc EXCEPT ![p] = "out"]
  /\ UNCHANGED <<mode, user_req, chan_req, chan_on, isr, work>>
-----------------------------------------------------------------------------
Handlers ==
  \/ \E u \in Users : UserIrq(u)
  \/ IsrChannels \/ IsrRest

Next ==
  \/ \E u \in Users : UserRequest(u)
  \/ \E c \in Channels : ChannelRequest(c) \/ ChannelIrq(c) \/ EngineWork(c)
  \/ Handlers
  \/ \E p \in Readers : CallRead(p) \/ CallPoll(p) \/ TestEvent(p)
                        \/ Signal(p) \/ TakeEvent(p)

\* Handlers and works run, and processes in a call make progress. Nobody has
\* to call.
Spec ==
  /\ Init /\ [][Next]_vars
  /\ \A u \in Users : WF_vars(UserIrq(u))
  /\ WF_vars(IsrChannels) /\ WF_vars(IsrRest)
  /\ \A c \in Channels : WF_vars(ChannelIrq(c)) /\ WF_vars(EngineWork(c))
  /\ \A p \in Readers : WF_vars(TestEvent(p)) /\ WF_vars(TakeEvent(p))
-----------------------------------------------------------------------------
(***************************************************************************)
(* Nobody sleeps through an event: a process asleep in read or poll of an  *)
(* event file means that events_irq of its line is clear, in spite of the  *)
(* wake-up being left out when the event was set before.                   *)
(***************************************************************************)
NobodySleepsThrough ==
  \A p \in Readers :
    proc[p] \in {"asleep_read", "asleep_poll"} => ~events_irq[Line[p]]

(***************************************************************************)
(* No interrupt is lost: a request of a channel is serviced, whichever     *)
(* handler was running when it came, and a user interrupt reaches every    *)
(* process that is waiting for it: it leaves its wait.                     *)
(***************************************************************************)
EveryInterruptServed ==
  /\ \A c \in Channels : c \in chan_req ~> c \notin chan_req
  /\ \A p \in Readers :
       (Line[p] \in user_req /\ proc[p] \in {"asleep_read", "asleep_poll"})
         ~> proc[p] \notin {"asleep_read", "asleep_poll"}
=============================================================================
