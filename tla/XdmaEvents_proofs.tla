-------------------------- MODULE XdmaEvents_proofs --------------------------
(***************************************************************************)
(* Proofs about XdmaEvents, for every set of lines, channels and readers   *)
(* and for both interrupt modes.                                           *)
(***************************************************************************)
EXTENDS XdmaEvents, TLAPS

(***************************************************************************)
(* What the wake-up of user_irq_service leaves behind, wherever a reader   *)
(* was: the types are kept, and a reader that still sleeps afterwards was  *)
(* asleep before, on a line that was not interrupted or whose event had    *)
(* been set already.                                                       *)
(***************************************************************************)
LEMMA ServiceWakes ==
  ASSUME TypeOK, NEW lines \in SUBSET Users, UserIrqService(lines)
  PROVE  /\ events_irq' \in [Users -> BOOLEAN]
         /\ proc' \in [Readers -> {"out", "read", "poll", "asleep_read",
                                   "asleep_poll", "taking"}]
         /\ \A p \in Readers :
              proc'[p] \in {"asleep_read", "asleep_poll"} =>
                /\ proc[p] \in {"asleep_read", "asleep_poll"}
                /\ Line[p] \notin lines \/ events_irq[Line[p]]
<1>1. events_irq' \in [Users -> BOOLEAN]
  BY DEF UserIrqService, TypeOK
<1>2. \A p \in Readers :
        Woken(p) \in {"out", "read", "poll", "taking"}
  BY DEF Woken, TypeOK
<1>3. proc' \in [Readers -> {"out", "read", "poll", "asleep_read",
                             "asleep_poll", "taking"}]
  BY <1>2 DEF UserIrqService, TypeOK
<1>4. ASSUME NEW p \in Readers, proc'[p] \in {"asleep_read", "asleep_poll"}
      PROVE  /\ proc[p] \in {"asleep_read", "asleep_poll"}
             /\ Line[p] \notin lines \/ events_irq[Line[p]]
  BY <1>2, <1>4 DEF UserIrqService, TypeOK
<1> QED
  BY <1>1, <1>3, <1>4

(***************************************************************************)
(* The interrupt handlers and event files keep their types.                *)
(***************************************************************************)
LEMMA TypeStep == TypeOK /\ [Next]_vars => TypeOK'
<1> SUFFICES ASSUME TypeOK, [Next]_vars PROVE TypeOK'
  OBVIOUS
<1> USE EventsAssumption
<1>1. ASSUME NEW u \in Users, UserRequest(u) PROVE TypeOK'
  BY <1>1 DEF UserRequest, TypeOK
<1>2. ASSUME NEW c \in Channels, ChannelRequest(c) PROVE TypeOK'
  BY <1>2 DEF ChannelRequest, TypeOK
<1>3. ASSUME NEW u \in Users, UserIrq(u) PROVE TypeOK'
  <2>1. {u} \in SUBSET Users
    OBVIOUS
  <2>2. UserIrqService({u})
    BY <1>3 DEF UserIrq
  <2> QED
    BY <1>3, <2>1, <2>2, ServiceWakes DEF UserIrq, TypeOK
<1>4. ASSUME NEW c \in Channels, ChannelIrq(c) PROVE TypeOK'
  BY <1>4 DEF ChannelIrq, TypeOK
<1>5. CASE IsrChannels
  BY <1>5 DEF IsrChannels, TypeOK
<1>6. CASE IsrRest
  <2>1. user_req \in SUBSET Users /\ UserIrqService(user_req)
    BY <1>6 DEF IsrRest, TypeOK
  <2> QED
    BY <1>6, <2>1, ServiceWakes DEF IsrRest, Idle, TypeOK
<1>7. ASSUME NEW c \in Channels, EngineWork(c) PROVE TypeOK'
  BY <1>7 DEF EngineWork, TypeOK
<1>8. ASSUME NEW p \in Readers, CallRead(p) \/ CallPoll(p) PROVE TypeOK'
  BY <1>8 DEF CallRead, CallPoll, TypeOK
<1>9. ASSUME NEW p \in Readers, TestEvent(p) PROVE TypeOK'
  BY <1>9 DEF TestEvent, TypeOK
<1>10. ASSUME NEW p \in Readers, Signal(p) \/ TakeEvent(p) PROVE TypeOK'
  BY <1>10 DEF Signal, TakeEvent, TypeOK
<1>11. CASE UNCHANGED vars
  BY <1>11 DEF vars, TypeOK
<1> QED
  BY <1>1, <1>2, <1>3, <1>4, <1>5, <1>6, <1>7, <1>8, <1>9, <1>10, <1>11
     DEF Next, Handlers

(***************************************************************************)
(* A step keeps NobodySleepsThrough. Only the handlers set events_irq, and *)
(* they wake the sleepers of a line whose event is new; a line whose event *)
(* was set already has no sleepers. Only TestEvent lets a process sleep,   *)
(* after it has found the event clear.                                     *)
(***************************************************************************)
LEMMA SleepStep ==
  TypeOK /\ NobodySleepsThrough /\ [Next]_vars => NobodySleepsThrough'
<1> SUFFICES ASSUME TypeOK, NobodySleepsThrough, [Next]_vars,
                    NEW q \in Readers,
                    proc'[q] \in {"asleep_read", "asleep_poll"}
             PROVE  ~events_irq'[Line[q]]
  BY DEF NobodySleepsThrough
<1> USE EventsAssumption
<1> Line[q] \in Users
  OBVIOUS
<1>1. ASSUME NEW lines \in SUBSET Users, UserIrqService(lines)
      PROVE  ~events_irq'[Line[q]]
  <2>1. /\ proc[q] \in {"asleep_read", "asleep_poll"}
        /\ Line[q] \notin lines \/ events_irq[Line[q]]
    BY <1>1, ServiceWakes
  <2>2. ~events_irq[Line[q]] /\ Line[q] \notin lines
    BY <2>1 DEF NobodySleepsThrough
  <2> QED
    BY <1>1, <2>2 DEF UserIrqService
<1>2. ASSUME NEW u \in Users, UserIrq(u) PROVE ~events_irq'[Line[q]]
  <2>1. {u} \in SUBSET Users /\ UserIrqService({u})
    BY <1>2 DEF UserIrq
  <2> QED
    BY <1>1, <2>1
<1>3. CASE IsrRest
  <2>1. user_req \in SUBSET Users /\ UserIrqService(user_req)
    BY <1>3 DEF IsrRest, TypeOK
  <2> QED
    BY <1>1, <2>1
<1>4. ASSUME NEW p \in Readers, TestEvent(p) PROVE ~events_irq'[Line[q]]
  <2>1. CASE p = q
    BY <1>4, <2>1 DEF TestEvent, TypeOK
  <2>2. CASE p # q
    BY <1>4, <2>2 DEF TestEvent, TypeOK, NobodySleepsThrough
  <2> QED
    BY <2>1, <2>2
<1>5. ASSUME NEW p \in Readers, TakeEvent(p) PROVE ~events_irq'[Line[q]]
  BY <1>5 DEF TakeEvent, TypeOK, NobodySleepsThrough
<1>6. ASSUME NEW p \in Readers, CallRead(p) \/ CallPoll(p) \/ Signal(p)
      PROVE  ~events_irq'[Line[q]]
  BY <1>6 DEF CallRead, CallPoll, Signal, TypeOK, NobodySleepsThrough
<1>7. ASSUME UNCHANGED <<events_irq, proc>> PROVE ~events_irq'[Line[q]]
  BY <1>7 DEF NobodySleepsThrough
<1>8. ASSUME NEW u \in Users, UserRequest(u) PROVE ~events_irq'[Line[q]]
  BY <1>7, <1>8 DEF UserRequest
<1>9. ASSUME NEW c \in Channels, ChannelRequest(c) \/ ChannelIrq(c) \/ EngineWork(c)
      PROVE  ~events_irq'[Line[q]]
  BY <1>7, <1>9 DEF ChannelRequest, ChannelIrq, EngineWork
<1>10. CASE IsrChannels
  BY <1>7, <1>10 DEF IsrChannels
<1>11. CASE UNCHANGED vars
  BY <1>7, <1>11 DEF vars
<1> QED
  BY <1>2, <1>3, <1>4, <1>5, <1>6, <1>8, <1>9, <1>10, <1>11 DEF Next, Handlers

(***************************************************************************)
(* No process ever sleeps in read or poll of an event file whose event is  *)
(* set, although user_irq_service wakes nobody for an event that was set   *)
(* before and although readers test outside events_lock: for any number of *)
(* lines, readers of one file and channels, with MSI-X and without.        *)
(***************************************************************************)
THEOREM NoLostWakeup == Spec => [](TypeOK /\ NobodySleepsThrough)
<1>1. Init => TypeOK /\ NobodySleepsThrough
  BY EventsAssumption DEF Init, Idle, TypeOK, NobodySleepsThrough
<1>2. TypeOK /\ NobodySleepsThrough /\ [Next]_vars
        => (TypeOK /\ NobodySleepsThrough)'
  BY TypeStep, SleepStep
<1> QED
  BY <1>1, <1>2, PTL DEF Spec
=============================================================================
