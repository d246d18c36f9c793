------------------------------ MODULE TaskMgr ------------------------------
(***************************************************************************)
(* The cooperative scheduler of lib/taskmgr.  The main line runs rounds of *)
(* epic_taskmgr_run_once: it scans the table, slot by slot, for the ready  *)
(* task of lowest priority number, clears its READY flag, notes it in the  *)
(* snapshot, and scans again until none is ready; then it calls the noted  *)
(* tasks.  The tick interrupt marks tasks ready; it runs between any two   *)
(* steps of the main line.  Code between EPIC_IRQ_Disable and              *)
(* EPIC_IRQ_Restore is one step.                                           *)
(*                                                                         *)
(* What a task does is left open: while it runs it may spawn, start, stop, *)
(* reset or retune any task, itself included, and so may the program       *)
(* between rounds.                                                         *)
(***************************************************************************)
EXTENDS Naturals, Sequences

CONSTANTS
  MaxTasks,    (* EPIC_TASKMGR_MAX_TASKS                                   *)
  Periods,     (* periods in ticks a task may be given; 0 is a one-shot    *)
  Priorities,  (* priorities a task may be given                           *)
  MaxCalls,    (* bound: calls into the scheduler                          *)
  TickRearms   (* a tick may find a task due that the round in progress    *)
               (* has noted already, before the snapshot is complete       *)

UINT16_MAX == 65535

ASSUME TaskMgrAssumption ==
  /\ MaxTasks \in Nat \ {0}
  /\ Periods \subseteq 0 .. UINT16_MAX
  /\ Priorities \subseteq 0 .. 255
  /\ MaxCalls \in Nat
  /\ TickRearms \in BOOLEAN

Slots == 0 .. MaxTasks - 1

VARIABLES
  used, enabled, ready,      (* g_tasks[].flags                            *)
  fn,                        (* g_tasks[].fn # NULL                        *)
  period, countdown, prio,   (* the other fields of g_tasks[]              *)
  pc,                        (* the main line                              *)
  back,                      (* where a spawn in progress returns          *)
  id,                        (* the slot that spawn fills                  *)
  i, best,                   (* scan: next slot, pick so far (or NoPick)   *)
  order, k,                  (* s_order with its n, and the entry to run   *)
  calls,                     (* calls made, against MaxCalls               *)
  age, armed,                (* history: ticks since the task was armed,   *)
                             (* the period it was armed with               *)
  due,                       (* history: fell due, not called since        *)
  start                      (* history: tasks ready when the round began  *)

flags   == <<used, enabled, ready>>
fields  == <<fn, period, countdown, prio>>
scan    == <<i, best>>
history == <<age, armed, due>>
vars == <<flags, fields, pc, back, id, scan, order, k, calls, history, start>>

NoPick == MaxTasks                            (* best = -1                 *)
Entries == {order[j] : j \in 1 .. Len(order)}
Noted   == {order[j] : j \in k + 1 .. Len(order)}   (* not called yet       *)

-----------------------------------------------------------------------------
(* Mutations of ArmCountdown: the period itself; no test for a one-shot.   *)
ArmCountdownLate(p)  == p
ArmCountdownWraps(p) == (p + UINT16_MAX) % (UINT16_MAX + 1)

ArmCountdown(p) == IF p = 0 THEN 0 ELSE p - 1

(* epic_taskmgr_tick, in interrupt context.                                *)
Active(s) == used[s] /\ enabled[s]
Due(s)    == Active(s) /\ countdown[s] = 0

Reload(s) == IF period[s] = 0 THEN countdown[s] ELSE ArmCountdown(period[s])

Tick ==
  /\ pc = "scan" /\ ~TickRearms => \A s \in Entries : ~Due(s)
  /\ ready' = [s \in Slots |-> ready[s] \/ Due(s)]
  /\ countdown' = [s \in Slots |->
       IF Due(s) THEN Reload(s)
       ELSE IF Active(s) THEN countdown[s] - 1
       ELSE countdown[s]]
  /\ due' = [s \in Slots |-> due[s] \/ Due(s)]
  /\ age' = [s \in Slots |->
       IF Due(s) \/ ~Active(s) THEN 0 ELSE age[s] + 1]
  /\ armed' = [s \in Slots |-> IF Due(s) THEN period[s] ELSE armed[s]]
  /\ UNCHANGED <<used, enabled, fn, period, prio, pc, back, id, scan, order, k,
                 calls, start>>

-----------------------------------------------------------------------------
(* The calls.                                                              *)
CanCall == pc \in {"idle", "body"} /\ calls < MaxCalls /\ calls' = calls + 1

Keep == UNCHANGED <<back, id, scan, order, k, start>>

(* epic_taskmgr_spawn fills the first free slot and publishes it last; a   *)
(* full table makes it return EPIC_TASKMGR_ID_INVALID and change nothing.  *)
SpawnFill(p, pr) ==
  /\ CanCall
  /\ \E s \in Slots :
       /\ ~used[s]
       /\ \A r \in 0 .. s - 1 : used[r]
       /\ id' = s
       /\ fn' = [fn EXCEPT ![s] = TRUE]
       /\ period' = [period EXCEPT ![s] = p]
       /\ countdown' = [countdown EXCEPT ![s] = ArmCountdown(p)]
       /\ prio' = [prio EXCEPT ![s] = pr]
  /\ pc' = "publish" /\ back' = pc
  /\ UNCHANGED <<flags, scan, order, k, history, start>>

SpawnPublish ==
  /\ pc = "publish" /\ pc' = back
  /\ used' = [used EXCEPT ![id] = TRUE]
  /\ enabled' = [enabled EXCEPT ![id] = TRUE]
  /\ ready' = [ready EXCEPT ![id] = FALSE]
  /\ age' = [age EXCEPT ![id] = 0]
  /\ armed' = [armed EXCEPT ![id] = period[id]]
  /\ due' = [due EXCEPT ![id] = FALSE]
  /\ UNCHANGED <<fields, calls>> /\ Keep

(* epic_taskmgr_start and epic_taskmgr_reset: the same statements.         *)
Rearm(s) ==
  /\ CanCall /\ used[s]
  /\ countdown' = [countdown EXCEPT ![s] = ArmCountdown(period[s])]
  /\ enabled' = [enabled EXCEPT ![s] = TRUE]
  /\ ready' = [ready EXCEPT ![s] = FALSE]
  /\ age' = [age EXCEPT ![s] = 0]
  /\ armed' = [armed EXCEPT ![s] = period[s]]
  /\ due' = [due EXCEPT ![s] = s \in Noted]
  /\ UNCHANGED <<used, fn, period, prio, pc>> /\ Keep

(* Mutation of Stop: the slot is given up.                                 *)
StopFrees(s) ==
  /\ CanCall /\ used[s]
  /\ used' = [used EXCEPT ![s] = FALSE]
  /\ enabled' = [enabled EXCEPT ![s] = FALSE]
  /\ ready' = [ready EXCEPT ![s] = FALSE]
  /\ fn' = [fn EXCEPT ![s] = FALSE]
  /\ due' = [due EXCEPT ![s] = s \in Noted]
  /\ UNCHANGED <<period, countdown, prio, age, armed, pc>> /\ Keep

(* epic_taskmgr_stop.                                                      *)
Stop(s) ==
  /\ CanCall /\ used[s]
  /\ enabled' = [enabled EXCEPT ![s] = FALSE]
  /\ ready' = [ready EXCEPT ![s] = FALSE]
  /\ due' = [due EXCEPT ![s] = s \in Noted]
  /\ UNCHANGED <<used, fields, age, armed, pc>> /\ Keep

(* epic_taskmgr_set_period.                                                *)
SetPeriod(s, p) ==
  /\ CanCall /\ used[s]
  /\ period' = [period EXCEPT ![s] = p]
  /\ UNCHANGED <<flags, fn, countdown, prio, history, pc>> /\ Keep

Call ==
  \/ \E p \in Periods, pr \in Priorities : SpawnFill(p, pr)
  \/ \E s \in Slots : Rearm(s) \/ Stop(s)
  \/ \E s \in Slots, p \in Periods : SetPeriod(s, p)

-----------------------------------------------------------------------------
(* epic_taskmgr_run_once: the snapshot.                                    *)
Round ==
  /\ pc = "idle" /\ pc' = "scan"
  /\ i' = 0 /\ best' = NoPick
  /\ start' = {s \in Slots : Active(s) /\ ready[s]}
  /\ UNCHANGED <<flags, fields, back, id, order, k, calls, history>>

(* Mutation of BestPrio: the sentinel is a priority tasks have.            *)
BestPrioInRange == IF best = NoPick THEN 2 ELSE prio[best]

BestPrio == IF best = NoPick THEN 255 ELSE prio[best]

(* Mutation of Better: of two equals the later slot wins.                  *)
BetterOrEqual(s) == Active(s) /\ ready[s] /\ prio[s] <= BestPrio

Better(s) == Active(s) /\ ready[s] /\ prio[s] < BestPrio

(* Mutation of ScanSlot: READY is taken before the pick is final.          *)
ScanSlotTakes ==
  /\ pc = "scan" /\ i < MaxTasks
  /\ i' = i + 1
  /\ best' = IF Better(i) THEN i ELSE best
  /\ ready' = [ready EXCEPT ![i] = ready[i] /\ ~Better(i)]
  /\ UNCHANGED <<used, enabled, fields, pc, back, id, order, k, calls, history,
                 start>>

ScanSlot ==
  /\ pc = "scan" /\ i < MaxTasks
  /\ i' = i + 1
  /\ best' = IF Better(i) THEN i ELSE best
  /\ UNCHANGED <<flags, fields, pc, back, id, order, k, calls, history, start>>

ScanPick ==
  /\ pc = "scan" /\ i = MaxTasks /\ best # NoPick
  /\ ready' = [ready EXCEPT ![best] = FALSE]
  /\ order' = Append(order, best)
  /\ i' = 0 /\ best' = NoPick
  /\ UNCHANGED <<used, enabled, fields, pc, back, id, k, calls, history, start>>

ScanDone ==
  /\ pc = "scan" /\ i = MaxTasks /\ best = NoPick
  /\ pc' = "run" /\ k' = 1
  /\ UNCHANGED <<flags, fields, back, id, scan, order, calls, history, start>>

(* The calls of the round.  After a task returns, a period of 0 frees its  *)
(* slot.                                                                   *)
RunTask ==
  /\ pc = "run" /\ k <= Len(order)
  /\ pc' = "body"
  /\ due' = [due EXCEPT ![order[k]] = ready[order[k]]]
  /\ UNCHANGED <<flags, fields, back, id, scan, order, k, calls, age, armed, start>>

Return ==
  /\ pc = "body" /\ pc' = "after"
  /\ UNCHANGED <<flags, fields, calls, history>> /\ Keep

AfterTask ==
  /\ pc = "after" /\ pc' = "run" /\ k' = k + 1
  /\ LET t == order[k] IN
     \/ /\ period[t] = 0
        /\ used' = [used EXCEPT ![t] = FALSE]
        /\ enabled' = [enabled EXCEPT ![t] = FALSE]
        /\ ready' = [ready EXCEPT ![t] = FALSE]
        /\ fn' = [fn EXCEPT ![t] = FALSE]
        /\ due' = [due EXCEPT ![t] = FALSE]
     \/ period[t] # 0 /\ UNCHANGED <<flags, fn, due>>
  /\ UNCHANGED <<period, countdown, prio, back, id, scan, order, calls, age,
                 armed, start>>

RoundDone ==
  /\ pc = "run" /\ k > Len(order)
  /\ pc' = "idle" /\ order' = << >> /\ k' = 0
  /\ i' = 0 /\ best' = NoPick /\ start' = {}
  /\ UNCHANGED <<flags, fields, back, id, calls, history>>

-----------------------------------------------------------------------------
(* epic_taskmgr_init cleared the table.                                    *)
Init ==
  /\ used = [s \in Slots |-> FALSE] /\ enabled = [s \in Slots |-> FALSE]
  /\ ready = [s \in Slots |-> FALSE] /\ fn = [s \in Slots |-> FALSE]
  /\ period = [s \in Slots |-> 0] /\ countdown = [s \in Slots |-> 0]
  /\ prio = [s \in Slots |-> 0]
  /\ pc = "idle" /\ back = "idle" /\ id = 0
  /\ i = 0 /\ best = NoPick /\ order = << >> /\ k = 0
  /\ calls = 0
  /\ age = [s \in Slots |-> 0] /\ armed = [s \in Slots |-> 0]
  /\ due = [s \in Slots |-> FALSE] /\ start = {}

Scheduler ==
  \/ SpawnPublish
  \/ Round \/ ScanSlot \/ ScanPick \/ ScanDone
  \/ RunTask \/ Return \/ AfterTask \/ RoundDone

Next == Scheduler \/ Call \/ Tick

(* The main loop calls run_once for ever and every task returns.  Nothing  *)
(* is assumed of the tick.                                                 *)
Spec == Init /\ [][Next]_vars /\ WF_vars(Scheduler)

-----------------------------------------------------------------------------
(* Types.  The snapshot array is never written past its MaxTasks entries.  *)
TypeOK ==
  /\ used \in [Slots -> BOOLEAN] /\ enabled \in [Slots -> BOOLEAN]
  /\ ready \in [Slots -> BOOLEAN] /\ fn \in [Slots -> BOOLEAN]
  /\ period \in [Slots -> Nat] /\ countdown \in [Slots -> 0 .. UINT16_MAX - 1]
  /\ prio \in [Slots -> 0 .. 255]
  /\ pc \in {"idle", "publish", "scan", "run", "body", "after"}
  /\ back \in {"idle", "body"} /\ id \in Slots
  /\ i \in 0 .. MaxTasks /\ best \in Slots \cup {NoPick}
  /\ order \in Seq(Slots) /\ Len(order) <= MaxTasks
  /\ k \in 0 .. Len(order) + 1
  /\ calls \in 0 .. MaxCalls
  /\ age \in [Slots -> Nat] /\ armed \in [Slots -> Nat]
  /\ due \in [Slots -> BOOLEAN] /\ start \subseteq Slots

(* run_once calls only tasks that are still registered: a one-shot that    *)
(* ran and freed its slot is not called again, through a NULL pointer or   *)
(* as the task that has taken its slot.                                    *)
CallsLiveTask ==
  pc = "run" /\ k <= Len(order) => used[order[k]] /\ fn[order[k]]

(* In the snapshot a task that was ready when the round began is preceded  *)
(* only by tasks of smaller priority number, or of the same in lower       *)
(* slots, even when ticks make tasks ready between two reads of the scan.  *)
(* The slot is the tie-break of the code (epic_taskmgr.c:248-256).  It is  *)
(* not the one of the header, "ties break by spawn order", once a one-shot *)
(* has freed a slot below that of an older task.                           *)
PriorityOrder ==
  pc = "scan" => \A b \in 1 .. Len(order), a \in 1 .. Len(order) :
    a < b /\ order[b] \in start =>
      \/ prio[order[a]] < prio[order[b]]
      \/ prio[order[a]] = prio[order[b]] /\ order[a] < order[b]

(* run_once runs "every task ready now" (epic_taskmgr.h:150): the snapshot  *)
(* has every task that was ready when it was called.                       *)
RoundTakesAll == pc = "run" => start \subseteq Entries

(* A tick marks a task ready exactly when as many ticks as it was armed    *)
(* for have passed, a one-shot on the first; it does so whatever the main  *)
(* line is busy with, and whatever calls retuned, stopped or started it.   *)
FiresOnTime ==
  [][Tick => \A s \in Slots : Active(s) /\ ~ready[s] =>
       (ready'[s] <=> age[s] + 1 >= armed[s])]_vars

(* A task that falls due is called, unless it is stopped or armed again    *)
(* before the scheduler has noted it: no READY mark is lost between the    *)
(* tick that sets it and the scan that clears it.                          *)
DueRuns == \A s \in Slots : due[s] ~> ~due[s] \/ (pc = "body" /\ order[k] = s)

=============================================================================
