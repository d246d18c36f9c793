--------------------------- MODULE TaskMgrProofs ---------------------------
(***************************************************************************)
(* Proofs about the scheduler for every table size, every set of periods   *)
(* and priorities and any number of calls.  The timing of the tick is      *)
(* proved whatever the ticks do; what run_once promises of its snapshot is *)
(* proved in the regime where no tick finds a task due that the snapshot   *)
(* in progress has noted already.                                          *)
(***************************************************************************)
EXTENDS TaskMgr, TLAPS, FiniteSetTheorems, SequenceTheorems

Regime == ~TickRearms

TypedTable ==
  /\ used \in [Slots -> BOOLEAN] /\ enabled \in [Slots -> BOOLEAN]
  /\ ready \in [Slots -> BOOLEAN] /\ fn \in [Slots -> BOOLEAN]
  /\ period \in [Slots -> 0 .. UINT16_MAX]
  /\ countdown \in [Slots -> 0 .. UINT16_MAX - 1]
  /\ prio \in [Slots -> 0 .. 255]
TypedControl ==
  /\ pc \in {"idle", "publish", "scan", "run", "body", "after"}
  /\ back \in {"idle", "body"} /\ id \in Slots
  /\ i \in 0 .. MaxTasks /\ best \in Slots \cup {NoPick}
  /\ order \in Seq(Slots) /\ k \in 0 .. Len(order) + 1
  /\ calls \in 0 .. MaxCalls
TypedHistory ==
  /\ age \in [Slots -> Nat] /\ armed \in [Slots -> Nat]
  /\ due \in [Slots -> BOOLEAN] /\ start \subseteq Slots
Typed == TypedTable /\ TypedControl /\ TypedHistory

(* A round: between rounds the snapshot is empty, while it is taken k is 0 *)
(* and while its tasks are called k is the one that runs or runs next.     *)
Inside == pc \in {"body", "after"} \/ (pc = "publish" /\ back = "body")
Outside == pc = "idle" \/ (pc = "publish" /\ back = "idle")

Phases ==
  /\ Outside => order = << >> /\ k = 0 /\ start = {}
  /\ pc = "scan" => k = 0
  /\ pc = "run" => k >= 1
  /\ Inside => k \in 1 .. Len(order)

(* The table: flags are set only on slots in use, and those have a task.   *)
(* A slot that spawn is filling is still free, and armed.                  *)
Table ==
  /\ \A s \in Slots : ready[s] => enabled[s]
  /\ \A s \in Slots : enabled[s] => used[s]
  /\ \A s \in Slots : used[s] => fn[s]
  /\ pc = "publish" => /\ ~used[id] /\ fn[id]
                       /\ countdown[id] = ArmCountdown(period[id])

(* An active task falls due when its age reaches what it was armed with;   *)
(* a one-shot on the first tick.                                           *)
Timing ==
  \A s \in Slots : Active(s) =>
    IF armed[s] = 0 THEN age[s] = 0 /\ countdown[s] = 0
    ELSE age[s] + countdown[s] + 1 = armed[s]

TInv == Typed /\ Phases /\ Table /\ Timing

(* The snapshot: a slot that is noted stays in use, with its task, until   *)
(* it has been called; in the regime it is not noted again.                *)
Noting ==
  /\ pc = "scan" => \A j \in 1 .. Len(order) :
       /\ used[order[j]] /\ enabled[order[j]] /\ ~ready[order[j]]
       /\ prio[order[j]] < 255
  /\ pc = "run" => \A j \in k .. Len(order) : used[order[j]]
  /\ Inside => \A j \in k + 1 .. Len(order) : used[order[j]]

(* The scan: the pick so far is ready, of priority below 255, and not      *)
(* behind any slot it has passed that was ready when the round began.      *)
Before(r, s) == prio[r] < prio[s] \/ (prio[r] = prio[s] /\ r < s)
Waiting == {s \in start : s \notin Entries /\ prio[s] < 255}

Picking ==
  pc = "scan" =>
    /\ best # NoPick => best < i /\ ready[best] /\ prio[best] < 255
    /\ \A s \in start : s \in Entries \/ ready[s]
    /\ \A s \in Waiting : s < i => best # NoPick /\ (best = s \/ Before(best, s))
    /\ \A a \in 1 .. Len(order), s \in Waiting : Before(order[a], s)

NoneTwice == \A a, b \in 1 .. Len(order) : a # b => order[a] # order[b]

IInv == TInv /\ Noting /\ NoneTwice /\ Picking /\ PriorityOrder

(* Every task has a priority it was given; if none was given 255, the      *)
(* value run_once starts its search with, no ready task is left behind.    *)
Given ==
  /\ \A s \in Slots : used[s] => prio[s] \in Priorities
  /\ pc = "publish" => prio[id] \in Priorities

Taking == pc = "run" \/ Inside => start \subseteq Entries

-----------------------------------------------------------------------------
LEMMA Sizes ==
  /\ MaxTasks \in Nat /\ MaxTasks > 0 /\ NoPick = MaxTasks /\ NoPick \notin Slots
  /\ MaxCalls \in Nat /\ UINT16_MAX \in Nat /\ UINT16_MAX > 0
  /\ Periods \subseteq 0 .. UINT16_MAX /\ Priorities \subseteq 0 .. 255
  /\ \A s \in Slots : s \in Nat /\ s < MaxTasks
<1>1. UINT16_MAX \in Nat /\ UINT16_MAX > 0
  BY DEF UINT16_MAX
<1> QED BY <1>1, TaskMgrAssumption DEF Slots, NoPick

LEMMA Armed ==
  ASSUME NEW p \in 0 .. UINT16_MAX
  PROVE  /\ ArmCountdown(p) \in 0 .. UINT16_MAX - 1
         /\ IF p = 0 THEN ArmCountdown(p) = 0 ELSE ArmCountdown(p) + 1 = p
BY Sizes DEF ArmCountdown

-----------------------------------------------------------------------------
(* The tables, the phases and the timing: every action keeps TInv.         *)
LEMMA SpawnPublishBasics ==
  ASSUME TInv, SpawnPublish
  PROVE  TInv'
<1> USE Sizes DEF SpawnPublish, flags, fields, scan, history, Keep
<1>1. TypedTable'
  BY Armed DEF TInv, Typed, TypedTable
<1>2. TypedControl'
  BY DEF TInv, Typed, TypedControl
<1>3. TypedHistory'
  <2>1. id \in Slots /\ calls \in 0 .. MaxCalls /\ period[id] \in Nat
    BY DEF TInv, Typed, TypedTable, TypedControl
  <2> QED BY <2>1 DEF TInv, Typed, TypedHistory
<1>4. Phases'
  BY DEF TInv, Typed, TypedControl, Phases, Outside, Inside
<1>5. Table'
  BY DEF TInv, Typed, TypedTable, TypedControl, Table
<1>6. Timing'
  BY Armed DEF TInv, Typed, TypedTable, TypedHistory, Table, Timing, Active
<1> QED BY <1>1, <1>2, <1>3, <1>4, <1>5, <1>6 DEF TInv, Typed

LEMMA RoundBasics ==
  ASSUME TInv, Round
  PROVE  TInv'
<1> USE Sizes DEF Round, flags, fields, scan, history
<1>1. TypedTable'
  BY Armed DEF TInv, Typed, TypedTable
<1>2. TypedControl'
  BY DEF TInv, Typed, TypedControl
<1>3. TypedHistory'
  BY DEF TInv, Typed, TypedHistory
<1>4. Phases'
  BY DEF TInv, Phases, Outside, Inside
<1>5. Table'
  BY DEF TInv, Table
<1>6. Timing'
  BY Armed DEF TInv, Timing, Active
<1> QED BY <1>1, <1>2, <1>3, <1>4, <1>5, <1>6 DEF TInv, Typed

LEMMA ScanSlotBasics ==
  ASSUME TInv, ScanSlot
  PROVE  TInv'
<1> USE Sizes DEF ScanSlot, flags, fields, scan, history
<1>1. TypedTable'
  BY Armed DEF TInv, Typed, TypedTable
<1>2. TypedControl'
  <2>1. i \in Slots
    BY DEF TInv, Typed, TypedControl, Slots
  <2> QED BY <2>1 DEF TInv, Typed, TypedControl
<1>3. TypedHistory'
  BY DEF TInv, Typed, TypedHistory
<1>4. Phases'
  BY DEF TInv, Phases, Outside, Inside
<1>5. Table'
  BY DEF TInv, Table
<1>6. Timing'
  BY Armed DEF TInv, Timing, Active
<1> QED BY <1>1, <1>2, <1>3, <1>4, <1>5, <1>6 DEF TInv, Typed

LEMMA ScanPickBasics ==
  ASSUME TInv, ScanPick
  PROVE  TInv'
<1> USE Sizes DEF ScanPick, flags, fields, scan, history
<1>1. TypedTable'
  BY Armed DEF TInv, Typed, TypedTable
<1>2. TypedControl'
  BY DEF TInv, Typed, TypedControl
<1>3. TypedHistory'
  BY DEF TInv, Typed, TypedHistory
<1>4. Phases'
  BY DEF TInv, Phases, Outside, Inside
<1>5. Table'
  BY DEF TInv, Table
<1>6. Timing'
  BY Armed DEF TInv, Timing, Active
<1> QED BY <1>1, <1>2, <1>3, <1>4, <1>5, <1>6 DEF TInv, Typed

LEMMA ScanDoneBasics ==
  ASSUME TInv, ScanDone
  PROVE  TInv'
<1> USE Sizes DEF ScanDone, flags, fields, scan, history
<1>1. TypedTable'
  BY Armed DEF TInv, Typed, TypedTable
<1>2. TypedControl'
  BY DEF TInv, Typed, TypedControl
<1>3. TypedHistory'
  BY DEF TInv, Typed, TypedHistory
<1>4. Phases'
  BY DEF Phases, Outside, Inside
<1>5. Table'
  BY DEF TInv, Table
<1>6. Timing'
  BY Armed DEF TInv, Timing, Active
<1> QED BY <1>1, <1>2, <1>3, <1>4, <1>5, <1>6 DEF TInv, Typed

LEMMA RunTaskBasics ==
  ASSUME TInv, RunTask
  PROVE  TInv'
<1> USE Sizes DEF RunTask, flags, fields, scan, history
<1>1. TypedTable'
  BY Armed DEF TInv, Typed, TypedTable
<1>2. TypedControl'
  BY DEF TInv, Typed, TypedControl
<1>3. TypedHistory'
  BY DEF TInv, Typed, TypedTable, TypedHistory
<1>4. Phases'
  BY DEF TInv, Typed, TypedControl, Phases, Outside
<1>5. Table'
  BY DEF TInv, Table
<1>6. Timing'
  BY Armed DEF TInv, Timing, Active
<1> QED BY <1>1, <1>2, <1>3, <1>4, <1>5, <1>6 DEF TInv, Typed

LEMMA ReturnBasics ==
  ASSUME TInv, Return
  PROVE  TInv'
<1> USE Sizes DEF Return, flags, fields, scan, history, Keep
<1>1. TypedTable'
  BY Armed DEF TInv, Typed, TypedTable
<1>2. TypedControl'
  BY DEF TInv, Typed, TypedControl
<1>3. TypedHistory'
  BY DEF TInv, Typed, TypedHistory
<1>4. Phases'
  BY DEF TInv, Phases, Outside, Inside
<1>5. Table'
  BY DEF TInv, Table
<1>6. Timing'
  BY Armed DEF TInv, Timing, Active
<1> QED BY <1>1, <1>2, <1>3, <1>4, <1>5, <1>6 DEF TInv, Typed

LEMMA AfterTaskBasics ==
  ASSUME TInv, AfterTask
  PROVE  TInv'
<1> USE Sizes DEF AfterTask, flags, fields, scan, history
<1>1. TypedTable'
  BY Armed DEF TInv, Typed, TypedTable
<1>2. TypedControl'
  <2>1. k \in 1 .. Len(order)
    BY DEF TInv, Phases, Inside
  <2> QED BY <2>1 DEF TInv, Typed, TypedControl
<1>3. TypedHistory'
  BY DEF TInv, Typed, TypedHistory
<1>4. Phases'
  BY DEF TInv, Phases, Outside, Inside
<1>5. Table'
  <2>1. /\ used \in [Slots -> BOOLEAN] /\ enabled \in [Slots -> BOOLEAN]
        /\ ready \in [Slots -> BOOLEAN] /\ fn \in [Slots -> BOOLEAN]
        /\ pc' = "run"
    BY DEF TInv, Typed, TypedTable
  <2>2. CASE UNCHANGED <<flags, fn>>
    BY <2>1, <2>2 DEF TInv, Table
  <2>3. CASE period[order[k]] = 0
    BY <2>1, <2>3 DEF TInv, Table
  <2> QED BY <2>2, <2>3
<1>6. Timing'
  BY Armed DEF TInv, Typed, TypedTable, Timing, Active
<1> QED BY <1>1, <1>2, <1>3, <1>4, <1>5, <1>6 DEF TInv, Typed

LEMMA RoundDoneBasics ==
  ASSUME TInv, RoundDone
  PROVE  TInv'
<1> USE Sizes DEF RoundDone, flags, fields, scan, history
<1>1. TypedTable'
  BY Armed DEF TInv, Typed, TypedTable
<1>2. TypedControl'
  BY DEF TInv, Typed, TypedControl
<1>3. TypedHistory'
  BY DEF TInv, Typed, TypedHistory
<1>4. Phases'
  BY DEF Phases, Inside
<1>5. Table'
  BY DEF TInv, Table
<1>6. Timing'
  BY Armed DEF TInv, Timing, Active
<1> QED BY <1>1, <1>2, <1>3, <1>4, <1>5, <1>6 DEF TInv, Typed

LEMMA SpawnFillBasics ==
  ASSUME NEW p \in Periods, NEW pr \in Priorities, TInv, SpawnFill(p, pr)
  PROVE  TInv'
<1> USE Sizes DEF SpawnFill, flags, fields, scan, history, CanCall
<1>1. TypedTable'
  BY Armed DEF TInv, Typed, TypedTable
<1>2. TypedControl'
  BY DEF TInv, Typed, TypedControl
<1>3. TypedHistory'
  BY DEF TInv, Typed, TypedHistory
<1>4. Phases'
  BY DEF TInv, Phases, Outside, Inside
<1>5. Table'
  BY DEF TInv, Typed, TypedTable, Table
<1>6. Timing'
  BY Armed DEF TInv, Timing, Active
<1> QED BY <1>1, <1>2, <1>3, <1>4, <1>5, <1>6 DEF TInv, Typed

LEMMA RearmBasics ==
  ASSUME NEW r \in Slots, TInv, Rearm(r)
  PROVE  TInv'
<1> USE Sizes DEF Rearm, flags, fields, scan, history, CanCall, Keep
<1>1. TypedTable'
  BY Armed DEF TInv, Typed, TypedTable
<1>2. TypedControl'
  BY DEF TInv, Typed, TypedControl
<1>3. TypedHistory'
  BY DEF TInv, Typed, TypedTable, TypedHistory
<1>4. Phases'
  BY DEF TInv, Phases, Outside, Inside
<1>5. Table'
  BY DEF TInv, Table
<1>6. Timing'
  BY Armed DEF TInv, Typed, TypedTable, TypedHistory, Timing, Active
<1> QED BY <1>1, <1>2, <1>3, <1>4, <1>5, <1>6 DEF TInv, Typed

LEMMA StopBasics ==
  ASSUME NEW r \in Slots, TInv, Stop(r)
  PROVE  TInv'
<1> USE Sizes DEF Stop, flags, fields, scan, history, CanCall, Keep
<1>1. TypedTable'
  BY Armed DEF TInv, Typed, TypedTable
<1>2. TypedControl'
  BY DEF TInv, Typed, TypedControl
<1>3. TypedHistory'
  BY DEF TInv, Typed, TypedHistory
<1>4. Phases'
  BY DEF TInv, Phases, Outside, Inside
<1>5. Table'
  BY DEF TInv, Typed, TypedTable, Table
<1>6. Timing'
  BY Armed DEF TInv, Timing, Active
<1> QED BY <1>1, <1>2, <1>3, <1>4, <1>5, <1>6 DEF TInv, Typed

LEMMA SetPeriodBasics ==
  ASSUME NEW r \in Slots, NEW p \in Periods, TInv, SetPeriod(r, p)
  PROVE  TInv'
<1> USE Sizes DEF SetPeriod, flags, fields, scan, history, CanCall, Keep
<1>1. TypedTable'
  BY Armed DEF TInv, Typed, TypedTable
<1>2. TypedControl'
  BY DEF TInv, Typed, TypedControl
<1>3. TypedHistory'
  BY DEF TInv, Typed, TypedHistory
<1>4. Phases'
  BY DEF TInv, Typed, TypedControl, Phases, Outside, Inside
<1>5. Table'
  BY DEF TInv, Table
<1>6. Timing'
  BY Armed DEF TInv, Timing, Active
<1> QED BY <1>1, <1>2, <1>3, <1>4, <1>5, <1>6 DEF TInv, Typed

LEMMA TickBasics ==
  ASSUME TInv, Tick
  PROVE  TInv'
<1> USE Sizes DEF Tick, flags, fields, scan, history
<1>1. TypedTable'
  <2>1. ASSUME NEW s \in Slots
        PROVE  countdown'[s] \in 0 .. UINT16_MAX - 1
    <3>1. /\ countdown[s] \in 0 .. UINT16_MAX - 1 /\ period[s] \in 0 .. UINT16_MAX
          /\ countdown'[s] = IF Due(s) THEN Reload(s)
                             ELSE IF Active(s) THEN countdown[s] - 1 ELSE countdown[s]
      BY DEF TInv, Typed, TypedTable
    <3>2. Reload(s) \in 0 .. UINT16_MAX - 1
      BY <3>1, Armed DEF Reload
    <3>3. Active(s) /\ ~Due(s) => countdown[s] - 1 \in 0 .. UINT16_MAX - 1
      BY <3>1 DEF Due
    <3> QED BY <3>1, <3>2, <3>3
  <2>2. countdown' \in [Slots -> 0 .. UINT16_MAX - 1]
    BY <2>1
  <2>3. ready' \in [Slots -> BOOLEAN]
    BY DEF TInv, Typed, TypedTable, Due, Active
  <2> QED BY <2>2, <2>3 DEF TInv, Typed, TypedTable
<1>2. TypedControl'
  BY DEF TInv, Typed, TypedControl
<1>3. TypedHistory'
  BY DEF TInv, Typed, TypedTable, TypedHistory
<1>4. Phases'
  BY DEF TInv, Typed, TypedControl, Phases, Outside, Inside
<1>5. Table'
  BY DEF TInv, Typed, TypedControl, Table, Active, Due
<1>6. Timing'
  BY Armed DEF TInv, Typed, TypedTable, TypedHistory, Timing, Active, Due,
         Reload
<1> QED BY <1>1, <1>2, <1>3, <1>4, <1>5, <1>6 DEF TInv, Typed

-----------------------------------------------------------------------------
(* The snapshot and the scan: every action keeps them, given TInv; for the *)
(* tick that takes the regime.                                             *)
LEMMA RoundRound ==
  ASSUME IInv, Round
  PROVE  Noting' /\ NoneTwice' /\ Picking' /\ PriorityOrder'
<1> USE DEF Round, flags, fields, scan, history
<1>1. Noting'
  BY Sizes DEF IInv, TInv, Phases, Outside, Noting
<1>2. NoneTwice'
  BY DEF IInv, NoneTwice
<1>3. Picking'
  BY Sizes DEF IInv, TInv, Phases, Outside, Picking, Waiting
<1>4. PriorityOrder'
  BY DEF IInv, TInv, Phases, Outside, PriorityOrder
<1> QED BY <1>1, <1>2, <1>3, <1>4

LEMMA ScanDoneRound ==
  ASSUME IInv, ScanDone
  PROVE  Noting' /\ NoneTwice' /\ Picking' /\ PriorityOrder'
<1> USE DEF ScanDone, flags, fields, scan, history
<1>1. Noting'
  BY Sizes DEF IInv, Noting
<1>2. NoneTwice'
  BY DEF IInv, NoneTwice
<1>3. Picking'
  BY Sizes DEF Picking
<1>4. PriorityOrder'
  BY DEF IInv, TInv, Phases, Outside, PriorityOrder
<1> QED BY <1>1, <1>2, <1>3, <1>4

LEMMA RunTaskRound ==
  ASSUME IInv, RunTask
  PROVE  Noting' /\ NoneTwice' /\ Picking' /\ PriorityOrder'
<1> USE DEF RunTask, flags, fields, scan, history
<1>1. Noting'
  BY Sizes DEF IInv, TInv, Typed, TypedControl, Noting
<1>2. NoneTwice'
  BY DEF IInv, NoneTwice
<1>3. Picking'
  BY Sizes DEF Picking
<1>4. PriorityOrder'
  BY DEF IInv, TInv, Phases, Outside, PriorityOrder
<1> QED BY <1>1, <1>2, <1>3, <1>4

LEMMA ReturnRound ==
  ASSUME IInv, Return
  PROVE  Noting' /\ NoneTwice' /\ Picking' /\ PriorityOrder'
<1> USE DEF Return, Keep, flags, fields, scan, history
<1>1. Noting'
  BY Sizes DEF IInv, Inside, Noting
<1>2. NoneTwice'
  BY DEF IInv, NoneTwice
<1>3. Picking'
  BY Sizes DEF Picking
<1>4. PriorityOrder'
  BY DEF IInv, TInv, Phases, Outside, PriorityOrder
<1> QED BY <1>1, <1>2, <1>3, <1>4

LEMMA RoundDoneRound ==
  ASSUME IInv, RoundDone
  PROVE  Noting' /\ NoneTwice' /\ Picking' /\ PriorityOrder'
<1> USE DEF RoundDone, flags, fields, scan, history
<1>1. Noting'
  BY Sizes DEF Noting
<1>2. NoneTwice'
  BY DEF IInv, NoneTwice
<1>3. Picking'
  BY Sizes DEF Picking
<1>4. PriorityOrder'
  BY DEF IInv, TInv, Phases, Outside, PriorityOrder
<1> QED BY <1>1, <1>2, <1>3, <1>4

LEMMA SpawnPublishRound ==
  ASSUME IInv, SpawnPublish
  PROVE  Noting' /\ NoneTwice' /\ Picking' /\ PriorityOrder'
<1> USE DEF SpawnPublish, Keep, flags, fields, scan, history
<1>1. Noting'
  BY Sizes DEF IInv, TInv, Typed, TypedControl, Inside, Noting
<1>2. NoneTwice'
  BY DEF IInv, NoneTwice
<1>3. Picking'
  BY Sizes DEF IInv, TInv, Typed, TypedControl, Picking
<1>4. PriorityOrder'
  BY DEF IInv, TInv, Typed, TypedControl, PriorityOrder
<1> QED BY <1>1, <1>2, <1>3, <1>4

LEMMA AfterTaskRound ==
  ASSUME IInv, AfterTask
  PROVE  Noting' /\ NoneTwice' /\ Picking' /\ PriorityOrder'
<1> USE DEF AfterTask, flags, fields, scan, history
<1>1. Noting'
  <2>1. k \in 1 .. Len(order) /\ Len(order) \in Nat /\ pc' = "run" /\ k' = k + 1
    BY DEF IInv, TInv, Typed, TypedControl, Phases, Inside
  <2>2. ASSUME NEW j \in k + 1 .. Len(order)
        PROVE  used'[order[j]]
    <3>1. j \in 1 .. Len(order) /\ j # k
      BY <2>1
    <3>2. order[j] \in Slots /\ order[j] # order[k] /\ used[order[j]]
      BY <2>1, <3>1 DEF IInv, TInv, Typed, TypedControl, Noting, NoneTwice,
             Inside
    <3> QED BY <3>2 DEF IInv, TInv, Typed, TypedTable
  <2> QED BY <2>1, <2>2 DEF Noting, Inside
<1>2. NoneTwice'
  BY DEF IInv, NoneTwice
<1>3. Picking'
  BY Sizes DEF Picking
<1>4. PriorityOrder'
  BY DEF IInv, TInv, Phases, Outside, PriorityOrder
<1> QED BY <1>1, <1>2, <1>3, <1>4

LEMMA SpawnFillRound ==
  ASSUME NEW p \in Periods, NEW pr \in Priorities, IInv, SpawnFill(p, pr)
  PROVE  Noting' /\ NoneTwice' /\ Picking' /\ PriorityOrder'
<1> USE DEF SpawnFill, CanCall, flags, fields, scan, history
<1>1. Noting'
  BY Sizes DEF IInv, Inside, Noting
<1>2. NoneTwice'
  BY DEF IInv, NoneTwice
<1>3. Picking'
  BY Sizes DEF Picking
<1>4. PriorityOrder'
  BY DEF IInv, TInv, Phases, Outside, PriorityOrder
<1> QED BY <1>1, <1>2, <1>3, <1>4

LEMMA RearmRound ==
  ASSUME NEW r \in Slots, IInv, Rearm(r)
  PROVE  Noting' /\ NoneTwice' /\ Picking' /\ PriorityOrder'
<1> USE DEF Rearm, CanCall, Keep, flags, fields, scan, history
<1>1. Noting'
  BY Sizes DEF IInv, Inside, Noting
<1>2. NoneTwice'
  BY DEF IInv, NoneTwice
<1>3. Picking'
  BY Sizes DEF Picking
<1>4. PriorityOrder'
  BY DEF IInv, TInv, Phases, Outside, PriorityOrder
<1> QED BY <1>1, <1>2, <1>3, <1>4

LEMMA StopRound ==
  ASSUME NEW r \in Slots, IInv, Stop(r)
  PROVE  Noting' /\ NoneTwice' /\ Picking' /\ PriorityOrder'
<1> USE DEF Stop, CanCall, Keep, flags, fields, scan, history
<1>1. Noting'
  BY Sizes DEF IInv, Inside, Noting
<1>2. NoneTwice'
  BY DEF IInv, NoneTwice
<1>3. Picking'
  BY Sizes DEF Picking
<1>4. PriorityOrder'
  BY DEF IInv, TInv, Phases, Outside, PriorityOrder
<1> QED BY <1>1, <1>2, <1>3, <1>4

LEMMA SetPeriodRound ==
  ASSUME NEW r \in Slots, NEW p \in Periods, IInv, SetPeriod(r, p)
  PROVE  Noting' /\ NoneTwice' /\ Picking' /\ PriorityOrder'
<1> USE DEF SetPeriod, CanCall, Keep, flags, fields, scan, history
<1>1. Noting'
  BY Sizes DEF IInv, Inside, Noting
<1>2. NoneTwice'
  BY DEF IInv, NoneTwice
<1>3. Picking'
  BY Sizes DEF Picking
<1>4. PriorityOrder'
  BY DEF IInv, TInv, Phases, Outside, PriorityOrder
<1> QED BY <1>1, <1>2, <1>3, <1>4

LEMMA TickRound ==
  ASSUME Regime, IInv, Tick
  PROVE  Noting' /\ NoneTwice' /\ Picking' /\ PriorityOrder'
<1> USE DEF Tick, flags, fields, scan, history
<1>1. Noting'
  BY Sizes DEF IInv, TInv, Typed, TypedTable, TypedControl, Inside, Noting,
         Regime, Entries
<1>2. NoneTwice'
  BY DEF IInv, NoneTwice
<1>3. Picking'
  <2> SUFFICES ASSUME pc = "scan"
               PROVE  Picking'
    BY DEF Picking
  <2>1. \A s \in Slots : ready[s] => ready'[s]
    OBVIOUS
  <2>2. Entries' = Entries /\ Waiting' = Waiting /\ \A r, s : Before(r, s)' = Before(r, s)
    BY DEF Entries, Waiting, Before
  <2>3. best \in Slots \cup {NoPick} /\ start \subseteq Slots
    BY DEF IInv, TInv, Typed, TypedControl, TypedHistory
  <2> QED BY <2>1, <2>2, <2>3 DEF IInv, Picking
<1>4. PriorityOrder'
  BY DEF IInv, TInv, Phases, Outside, PriorityOrder
<1> QED BY <1>1, <1>2, <1>3, <1>4

(* One more slot looked at.                                                *)
LEMMA ScanSlotRound ==
  ASSUME IInv, ScanSlot
  PROVE  Noting' /\ NoneTwice' /\ Picking' /\ PriorityOrder'
<1> USE DEF ScanSlot, flags, fields, history
<1>1. Noting'
  BY DEF IInv, TInv, Phases, Inside, Noting
<1>2. NoneTwice' /\ PriorityOrder'
  BY DEF IInv, NoneTwice, PriorityOrder
<1>3. Picking'
  <2>1. /\ i \in Slots /\ i \in Nat /\ i' = i + 1 /\ best \in Slots \cup {NoPick}
        /\ \A s \in Slots : s \in Nat /\ prio[s] \in Nat /\ prio[s] <= 255
        /\ start \subseteq Slots /\ NoPick \notin Slots
    <3>1. \A s \in Slots : prio[s] \in 0 .. 255
      BY DEF IInv, TInv, Typed, TypedTable
    <3>2. \A s \in Slots : prio[s] \in Nat /\ prio[s] <= 255
      BY <3>1
    <3>3. i \in Slots
      BY Sizes DEF IInv, TInv, Typed, TypedControl, Slots
    <3> QED BY <3>2, <3>3, Sizes DEF IInv, TInv, Typed, TypedControl, TypedHistory
  <2>2. Entries' = Entries /\ Waiting' = Waiting /\ \A r, s : Before(r, s)' = Before(r, s)
    BY DEF Entries, Waiting, Before
  <2>3. /\ best # NoPick => best < i /\ ready[best] /\ prio[best] < 255
        /\ \A s \in start : s \in Entries \/ ready[s]
        /\ \A s \in Waiting : s < i => best # NoPick /\ (best = s \/ Before(best, s))
        /\ \A a \in 1 .. Len(order), s \in Waiting : Before(order[a], s)
    BY DEF IInv, Picking
  <2>4. \A s \in Waiting : s \in Slots /\ ready[s] /\ prio[s] < 255
    BY <2>1, <2>3 DEF Waiting
  <2>5. \A s \in Slots : ready[s] => Active(s)
    BY DEF IInv, TInv, Table, Active
  <2>8. /\ best # NoPick => best \in Slots /\ BestPrio = prio[best] /\ BestPrio < 255
        /\ best = NoPick => BestPrio = 255
    BY <2>1, <2>3 DEF BestPrio
  <2>6. CASE Better(i)
    <3>1. best' = i /\ ready[i] /\ prio[i] < 255
      <4>1. best' = i /\ ready[i] /\ prio[i] < BestPrio
        BY <2>6 DEF Better
      <4>2. prio[i] \in Nat
        BY <2>1
      <4>3. CASE best = NoPick
        BY <2>8, <4>1, <4>3
      <4>4. CASE best # NoPick
        <5>1. BestPrio \in Nat /\ BestPrio < 255
          BY <2>1, <2>8, <4>4
        <5> QED BY <4>1, <4>2, <5>1
      <4> QED BY <4>3, <4>4
    <3>2. ASSUME NEW s \in Waiting, s < i + 1
          PROVE  i = s \/ Before(i, s)
      <4>1. CASE s = i
        BY <4>1
      <4>2. CASE s < i
        <5>1. best # NoPick /\ best \in Slots /\ (best = s \/ Before(best, s))
          BY <2>1, <2>3, <4>2
        <5>2. prio[i] < prio[best]
          BY <2>6, <2>8, <5>1 DEF Better
        <5>3. prio[i] \in Nat /\ prio[best] \in Nat /\ prio[s] \in Nat
          BY <2>1, <2>4, <5>1
        <5>4. prio[best] < prio[s] \/ prio[best] = prio[s]
          BY <5>1 DEF Before
        <5>5. prio[i] < prio[s]
          BY <5>2, <5>3, <5>4
        <5> QED BY <5>5 DEF Before
      <4>3. s \in Nat
        BY <2>1, <2>4
      <4>4. s = i \/ s < i
        BY <2>1, <3>2, <4>3
      <4> QED BY <4>1, <4>2, <4>4
    <3> QED BY <2>1, <2>2, <2>3, <3>1, <3>2 DEF Picking
  <2>7. CASE ~Better(i)
    <3>1. best' = best
      BY <2>7
    <3>2. ASSUME NEW s \in Waiting, s < i + 1
          PROVE  best # NoPick /\ (best = s \/ Before(best, s))
      <4>1. CASE s = i
        <5>1. ~(prio[i] < BestPrio) /\ prio[i] \in Nat /\ prio[i] < 255
          BY <2>1, <2>4, <2>5, <2>7, <4>1 DEF Better
        <5>2. best # NoPick /\ best \in Slots
          BY <2>8, <5>1
        <5>3. prio[best] \in Nat /\ ~(prio[i] < prio[best]) /\ best < i
          BY <2>1, <2>3, <2>8, <5>1, <5>2
        <5>4. prio[best] < prio[i] \/ prio[best] = prio[i]
          BY <5>1, <5>3
        <5> QED BY <4>1, <5>2, <5>3, <5>4 DEF Before
      <4>2. CASE s < i
        BY <2>3, <4>2
      <4>3. s \in Nat
        BY <2>1, <2>4
      <4>4. s = i \/ s < i
        BY <2>1, <3>2, <4>3
      <4> QED BY <4>1, <4>2, <4>4
    <3> QED BY <2>1, <2>2, <2>3, <3>1, <3>2 DEF Picking
  <2> QED BY <2>6, <2>7
<1> QED BY <1>1, <1>2, <1>3

(* The pick is noted.                                                      *)
LEMMA ScanPickRound ==
  ASSUME IInv, ScanPick
  PROVE  Noting' /\ NoneTwice' /\ Picking' /\ PriorityOrder'
<1> USE DEF ScanPick, flags, fields, history
<1> DEFINE n == Len(order)
<1>1. /\ order \in Seq(Slots) /\ n \in Nat /\ best \in Slots /\ start \subseteq Slots
      /\ \A s \in Slots : s < i /\ s \in Nat
      /\ ready \in [Slots -> BOOLEAN]
  BY Sizes DEF IInv, TInv, Typed, TypedTable, TypedControl, TypedHistory
<1>2. /\ Len(order') = n + 1 /\ order'[n + 1] = best
      /\ \A j \in 1 .. n : order'[j] = order[j] /\ order[j] \in Slots
  BY <1>1
<1>3. /\ ready[best] /\ prio[best] < 255
      /\ \A s \in start : s \in Entries \/ ready[s]
      /\ \A s \in Waiting : best = s \/ Before(best, s)
      /\ \A a \in 1 .. n, s \in Waiting : Before(order[a], s)
  <2>1. \A s \in Waiting : s < i
    BY <1>1 DEF Waiting
  <2> QED BY <2>1 DEF IInv, Picking
<1>4. \A j \in 1 .. n : /\ used[order[j]] /\ enabled[order[j]] /\ ~ready[order[j]]
                        /\ prio[order[j]] < 255 /\ order[j] # best
  BY <1>3 DEF IInv, Noting
<1>5. used[best] /\ enabled[best] /\ ~ready'[best]
      /\ \A s \in Slots : s # best => ready'[s] = ready[s]
  BY <1>1, <1>3 DEF IInv, TInv, Table
<1> HIDE DEF n
<1>6. Entries' = Entries \cup {best}
  BY <1>1, <1>2 DEF Entries, n
<1>7. Waiting' = Waiting \ {best}
  BY <1>6 DEF Waiting
<1>8. Noting'
  BY <1>1, <1>2, <1>3, <1>4, <1>5 DEF Noting, Inside
<1>9. NoneTwice'
  BY <1>1, <1>2, <1>4 DEF IInv, NoneTwice, n
<1>10. Picking'
  <2>1. \A s \in start : s \in Entries' \/ ready'[s]
    BY <1>1, <1>3, <1>5, <1>6
  <2>2. \A a \in 1 .. n + 1, s \in Waiting' : Before(order'[a], s)
    BY <1>1, <1>2, <1>3, <1>7
  <2>3. \A r, s : Before(r, s)' = Before(r, s)
    BY DEF Before
  <2>4. \A s \in Waiting' : ~(s < 0)
    BY <1>1, <1>7 DEF Waiting
  <2> QED BY <1>2, <2>1, <2>2, <2>3, <2>4 DEF Picking
<1>11. PriorityOrder'
  <2> SUFFICES ASSUME NEW b \in 1 .. n + 1, NEW a \in 1 .. n + 1, a < b, order'[b] \in start
               PROVE  Before(order'[a], order'[b])
    BY <1>2 DEF PriorityOrder, Before
  <2>1. CASE b = n + 1
    <3>1. best \in Waiting
      BY <1>1, <1>2, <1>3, <1>4, <2>1 DEF Waiting, Entries, n
    <3> QED BY <1>1, <1>2, <1>3, <2>1, <3>1
  <2>2. CASE b # n + 1
    <3>1. a \in 1 .. n /\ b \in 1 .. n
      BY <1>1, <2>2
    <3>2. order'[a] = order[a] /\ order'[b] = order[b]
      BY <1>2, <3>1
    <3> QED BY <3>1, <3>2 DEF IInv, PriorityOrder, Before, n
  <2> QED BY <2>1, <2>2
<1> QED BY <1>8, <1>9, <1>10, <1>11

-----------------------------------------------------------------------------
(* The tables and the control state of every run, whatever the ticks do.   *)
LEMMA BasicsInit == Init => TInv
<1> SUFFICES ASSUME Init
             PROVE  TInv
  OBVIOUS
<1> USE Sizes DEF Init
<1>1. 0 \in Slots
  BY DEF Slots
<1>2. TypedTable
  BY DEF TypedTable
<1>3. TypedControl
  BY <1>1 DEF TypedControl
<1>4. TypedHistory
  BY DEF TypedHistory
<1>5. Phases /\ Table /\ Timing
  BY DEF Phases, Table, Timing, Active, Outside, Inside
<1> QED BY <1>2, <1>3, <1>4, <1>5 DEF TInv, Typed

LEMMA BasicsStutter == TInv /\ UNCHANGED vars => TInv'
<1> SUFFICES ASSUME TInv, UNCHANGED vars
             PROVE  TInv'
  OBVIOUS
<1> USE DEF vars, flags, fields, scan, history
<1>1. TypedTable' /\ TypedControl' /\ TypedHistory'
  BY DEF TInv, Typed, TypedTable, TypedControl, TypedHistory
<1>2. Phases' /\ Table'
  BY DEF TInv, Phases, Outside, Inside, Table
<1>3. Timing'
  BY DEF TInv, Timing, Active
<1> QED BY <1>1, <1>2, <1>3 DEF TInv, Typed

LEMMA Basics == Spec => []TInv
<1>1. TInv /\ [Next]_vars => TInv'
  <2> SUFFICES ASSUME TInv, [Next]_vars
               PROVE  TInv'
    OBVIOUS
  <2>1. CASE Scheduler
    BY <2>1, SpawnPublishBasics, RoundBasics, ScanSlotBasics, ScanPickBasics,
       ScanDoneBasics, RunTaskBasics, ReturnBasics, AfterTaskBasics, RoundDoneBasics
       DEF Scheduler
  <2>2. CASE Call
    BY <2>2, SpawnFillBasics, RearmBasics, StopBasics, SetPeriodBasics DEF Call
  <2>3. CASE Tick
    BY <2>3, TickBasics
  <2>4. CASE UNCHANGED vars
    BY <2>4, BasicsStutter
  <2> QED BY <2>1, <2>2, <2>3, <2>4 DEF Next
<1> QED BY <1>1, BasicsInit, PTL DEF Spec

(* FiresOnTime for every table and every period: a tick marks a task that  *)
(* is not marked yet exactly when its armed period has passed.             *)
THEOREM TaskMgrFiresOnTime == Spec => FiresOnTime
<1>1. ASSUME TInv, Tick, NEW s \in Slots, Active(s), ~ready[s]
      PROVE  ready'[s] <=> age[s] + 1 >= armed[s]
  <2>1. ready'[s] <=> countdown[s] = 0
    BY <1>1 DEF Tick, Due
  <2>2. age[s] \in Nat /\ armed[s] \in Nat /\ countdown[s] \in Nat
    BY <1>1, Sizes DEF TInv, Typed, TypedTable, TypedHistory
  <2>3. IF armed[s] = 0 THEN age[s] = 0 /\ countdown[s] = 0
        ELSE age[s] + countdown[s] + 1 = armed[s]
    BY <1>1 DEF TInv, Timing
  <2> QED BY <2>1, <2>2, <2>3
<1>2. TInv => [Tick => \A s \in Slots : Active(s) /\ ~ready[s] =>
                 (ready'[s] <=> age[s] + 1 >= armed[s])]_vars
  BY <1>1
<1> QED BY <1>2, Basics, PTL DEF Spec, FiresOnTime

-----------------------------------------------------------------------------
(* The rounds, in the regime.                                              *)
LEMMA RoundsInit == Init => IInv
<1>1. Init => Noting /\ NoneTwice /\ Picking /\ PriorityOrder
  BY DEF Init, Noting, Inside, NoneTwice, Picking, PriorityOrder
<1> QED BY <1>1, BasicsInit DEF IInv

LEMMA RoundsStutter ==
  ASSUME IInv, UNCHANGED vars
  PROVE  Noting' /\ NoneTwice' /\ Picking' /\ PriorityOrder'
<1> USE DEF vars, flags, fields, scan, history
<1>1. Noting' /\ NoneTwice' /\ PriorityOrder'
  BY DEF IInv, Noting, Inside, NoneTwice, PriorityOrder
<1>2. Picking'
  BY DEF IInv, Picking, Waiting, Before, Entries
<1> QED BY <1>1, <1>2

LEMMA Rounds == ASSUME Regime PROVE Spec => []IInv
<1>1. IInv /\ TInv' /\ [Next]_vars => IInv'
  <2> SUFFICES ASSUME IInv, TInv', [Next]_vars
               PROVE  Noting' /\ NoneTwice' /\ Picking' /\ PriorityOrder'
    BY DEF IInv
  <2>1. CASE Scheduler
    BY <2>1, SpawnPublishRound, RoundRound, ScanSlotRound, ScanPickRound,
       ScanDoneRound, RunTaskRound, ReturnRound, AfterTaskRound, RoundDoneRound
       DEF Scheduler
  <2>2. CASE Call
    BY <2>2, SpawnFillRound, RearmRound, StopRound, SetPeriodRound DEF Call
  <2>3. CASE Tick
    BY <2>3, TickRound
  <2>4. CASE UNCHANGED vars
    BY <2>4, RoundsStutter
  <2> QED BY <2>1, <2>2, <2>3, <2>4 DEF Next
<1> QED BY <1>1, RoundsInit, Basics, PTL DEF Spec

(* A snapshot without repetitions fits in s_order.                         *)
LEMMA Fits ==
  ASSUME NEW s \in Seq(Slots),
         \A a, b \in 1 .. Len(s) : a # b => s[a] # s[b]
  PROVE  Len(s) <= MaxTasks
<1> SUFFICES ASSUME Len(s) > MaxTasks
             PROVE  FALSE
  BY Sizes
<1>1. Len(s) \in Nat /\ s \in [1 .. Len(s) -> Slots]
  OBVIOUS
<1>2. IsFiniteSet(1 .. Len(s)) /\ Cardinality(1 .. Len(s)) = Len(s)
  BY <1>1, Sizes, FS_Interval
<1>3. IsFiniteSet(Slots) /\ Cardinality(Slots) = MaxTasks
  BY Sizes, FS_Interval DEF Slots
<1>4. \E x, y \in 1 .. Len(s) : x # y /\ s[x] = s[y]
  BY <1>1, <1>2, <1>3, Sizes, FS_PigeonHole
<1> QED BY <1>4

(* The scheduler's state is well formed; in particular the snapshot never  *)
(* runs past its MaxTasks entries, however often ticks mark tasks ready.   *)
THEOREM TaskMgrTypes == ASSUME Regime PROVE Spec => []TypeOK
<1>1. ASSUME IInv
      PROVE  TypeOK
  <2>1. Len(order) <= MaxTasks
    BY <1>1, Fits DEF IInv, TInv, Typed, TypedControl, NoneTwice
  <2>2. period \in [Slots -> Nat]
    BY <1>1, Sizes DEF IInv, TInv, Typed, TypedTable
  <2> QED BY <1>1, <2>1, <2>2
          DEF TypeOK, IInv, TInv, Typed, TypedTable, TypedControl, TypedHistory
<1> QED BY <1>1, Rounds, PTL

(* run_once calls through a pointer only if its task is registered.        *)
THEOREM TaskMgrCallsLiveTask == ASSUME Regime PROVE Spec => []CallsLiveTask
<1>1. ASSUME IInv, pc = "run", k <= Len(order)
      PROVE  used[order[k]] /\ fn[order[k]]
  <2>1. k \in 1 .. Len(order) /\ Len(order) \in Nat /\ order \in Seq(Slots)
    BY <1>1 DEF IInv, TInv, Typed, TypedControl, Phases
  <2>2. used[order[k]]
    BY <1>1, <2>1 DEF IInv, Noting
  <2>3. order[k] \in Slots
    BY <2>1
  <2> QED BY <1>1, <2>2, <2>3 DEF IInv, TInv, Table
<1>2. IInv => CallsLiveTask
  BY <1>1 DEF CallsLiveTask
<1> QED BY <1>2, Rounds, PTL

(* The snapshot is in priority order, ties in order of slots, for the      *)
(* tasks that were ready when run_once was called.  (That is not the order *)
(* in which they were spawned once a slot has been used again.)            *)
THEOREM TaskMgrPriorityOrder == ASSUME Regime PROVE Spec => []PriorityOrder
<1>1. IInv => PriorityOrder
  BY DEF IInv
<1> QED BY <1>1, Rounds, PTL

-----------------------------------------------------------------------------
(* What a round takes.                                                     *)
LEMMA PriorityGiven == Spec => []Given
<1>1. Init => Given
  BY DEF Init, Given
<1>2. TInv /\ Given /\ [Next]_vars => Given'
  <2> SUFFICES ASSUME TInv, Given, [Next]_vars
               PROVE  Given'
    OBVIOUS
  <2> USE DEF Given, flags, fields, scan, history
  <2>1. used \in [Slots -> BOOLEAN] /\ id \in Slots /\ prio \in [Slots -> 0 .. 255]
    BY DEF TInv, Typed, TypedTable, TypedControl
  <2>2. CASE SpawnPublish
    BY <2>1, <2>2 DEF SpawnPublish, Keep
  <2>3. CASE Round \/ ScanSlot \/ ScanPick \/ ScanDone
    BY <2>3 DEF Round, ScanSlot, ScanPick, ScanDone
  <2>4. CASE RunTask \/ Return \/ RoundDone
    BY <2>4 DEF RunTask, Return, RoundDone, Keep
  <2>5. CASE AfterTask
    BY <2>1, <2>5 DEF AfterTask
  <2>6. CASE Call
    <3>1. ASSUME NEW p \in Periods, NEW pr \in Priorities, SpawnFill(p, pr)
          PROVE  Given'
      BY <2>1, <3>1 DEF SpawnFill, CanCall
    <3>2. ASSUME NEW s \in Slots, Rearm(s) \/ Stop(s)
          PROVE  Given'
      BY <3>2 DEF Rearm, Stop, CanCall, Keep
    <3>3. ASSUME NEW s \in Slots, NEW p \in Periods, SetPeriod(s, p)
          PROVE  Given'
      BY <3>3 DEF SetPeriod, CanCall, Keep
    <3> QED BY <2>6, <3>1, <3>2, <3>3 DEF Call
  <2>7. CASE Tick
    BY <2>7 DEF Tick
  <2>8. CASE UNCHANGED vars
    BY <2>8 DEF vars
  <2> QED BY <2>2, <2>3, <2>4, <2>5, <2>6, <2>7, <2>8 DEF Next, Scheduler
<1> QED BY <1>1, <1>2, Basics, PTL DEF Spec

LEMMA TakesAll ==
  ASSUME 255 \notin Priorities, IInv, Given, Taking, [Next]_vars
  PROVE  Taking'
<1> USE DEF Taking, Inside, flags, fields, scan, history
<1>1. CASE ScanDone
  <2>1. pc = "scan" /\ i = MaxTasks /\ best = NoPick /\ UNCHANGED <<start, order>>
    BY <1>1 DEF ScanDone
  <2>2. ASSUME NEW s \in start, s \notin Entries
        PROVE  FALSE
    <3>1. s \in Slots /\ ready[s]
      BY <2>1, <2>2 DEF IInv, TInv, Typed, TypedHistory, Picking
    <3>2. used[s] /\ prio[s] \in 0 .. 255 /\ s < MaxTasks
      BY <3>1, Sizes DEF IInv, TInv, Typed, TypedTable, Table
    <3>3. prio[s] < 255
      BY <3>1, <3>2 DEF Given
    <3>4. s \in Waiting
      BY <2>2, <3>3 DEF Waiting
    <3> QED BY <2>1, <3>2, <3>4 DEF IInv, Picking
  <2>3. Entries' = Entries
    BY <2>1 DEF Entries
  <2> QED BY <2>1, <2>2, <2>3
<1>2. CASE Round \/ ScanSlot \/ ScanPick \/ RoundDone
  BY <1>2 DEF Round, ScanSlot, ScanPick, RoundDone
<1>3. CASE RunTask \/ Return \/ SpawnPublish
  BY <1>3 DEF RunTask, Return, SpawnPublish, Keep, Entries, IInv, TInv, Typed,
         TypedControl
<1>4. CASE AfterTask
  BY <1>4 DEF AfterTask, Entries
<1>5. CASE Call
  <2>1. ASSUME NEW p \in Periods, NEW pr \in Priorities, SpawnFill(p, pr)
        PROVE  Taking'
    BY <2>1 DEF SpawnFill, CanCall, Entries
  <2>2. ASSUME NEW s \in Slots, Rearm(s) \/ Stop(s)
        PROVE  Taking'
    BY <2>2 DEF Rearm, Stop, CanCall, Keep, Entries
  <2>3. ASSUME NEW s \in Slots, NEW p \in Periods, SetPeriod(s, p)
        PROVE  Taking'
    BY <2>3 DEF SetPeriod, CanCall, Keep, Entries
  <2> QED BY <1>5, <2>1, <2>2, <2>3 DEF Call
<1>6. CASE Tick
  BY <1>6 DEF Tick, Entries
<1>7. CASE UNCHANGED vars
  BY <1>7 DEF vars, Entries
<1> QED BY <1>1, <1>2, <1>3, <1>4, <1>5, <1>6, <1>7 DEF Next, Scheduler

(* run_once takes every task that was ready when it was called, provided   *)
(* no task was given priority 255: see TaskMgrPassesOver255.               *)
THEOREM TaskMgrRoundTakesAll ==
  ASSUME Regime, 255 \notin Priorities
  PROVE  Spec => []RoundTakesAll
<1>1. Init => Taking
  BY DEF Init, Taking, Inside
<1>2. IInv /\ Given /\ Taking /\ [Next]_vars => Taking'
  BY TakesAll
<1>3. Taking => RoundTakesAll
  BY DEF Taking, RoundTakesAll
<1> QED BY <1>1, <1>2, <1>3, Rounds, PriorityGiven, PTL DEF Spec

(* The search of run_once starts from 255 and looks for less: a task of    *)
(* that priority is never noted, however long it is ready.                 *)
THEOREM TaskMgrPassesOver255 ==
  ASSUME Regime
  PROVE  Spec => [](pc = "scan" => \A j \in 1 .. Len(order) : prio[order[j]] # 255)
<1>1. ASSUME IInv, pc = "scan", NEW j \in 1 .. Len(order)
      PROVE  prio[order[j]] # 255
  <2>1. prio[order[j]] \in 0 .. 255 /\ prio[order[j]] < 255
    BY <1>1 DEF IInv, TInv, Typed, TypedTable, TypedControl, Noting
  <2> QED BY <2>1
<1>2. IInv => (pc = "scan" => \A j \in 1 .. Len(order) : prio[order[j]] # 255)
  BY <1>1
<1> QED BY <1>2, Rounds, PTL

=============================================================================
