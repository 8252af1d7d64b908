------------------------------ MODULE RunQueue ------------------------------
(***************************************************************************)
(* The scheduler's run queue, drivers/scheduler.c:52-80: a list of tasks   *)
(* linked through task->next, with head, tail and count, under a test-and- *)
(* set spinlock (include/spinlock.h).  Every CPU calls scheduler_enqueue   *)
(* and scheduler_dequeue; each access that another CPU could see half done *)
(* is a step of its own.                                                   *)
(*                                                                         *)
(* fifo and owner are history variables: the order in which tasks were     *)
(* linked in, and which caller has a task that is not queued.  The code    *)
(* never reads them.  A caller enqueues only a task it has: main.c its new *)
(* tasks, scheduler_yield the task its CPU runs.                           *)
(***************************************************************************)
EXTENDS Integers, Sequences

CONSTANTS
  Procs,   \* the callers, one per CPU
  Tasks,   \* task_t objects
  NULL     \* nullptr, 0

ASSUME RunQueueAssumption == NULL \notin Tasks /\ NULL \notin Procs

VARIABLES
  head, tail, count,   \* run_queue
  locked,              \* run_queue.lock.locked
  next,                \* next[t] = t->next
  pc,                  \* where each caller is
  task,                \* local of scheduler_enqueue and scheduler_dequeue
  fifo, owner

queue == <<head, tail, count, next>>
queueVars == <<head, tail, count, locked, next, pc, task, fifo, owner>>

QueueInit ==
  /\ head = NULL /\ tail = NULL /\ count = 0
  /\ locked = FALSE
  /\ next = [t \in Tasks |-> NULL]
  /\ pc = [p \in Procs |-> "idle"]
  /\ task = [p \in Procs |-> NULL]
  /\ fifo = << >>
  /\ owner \in [Tasks -> Procs]

Goto(p, label) == pc' = [pc EXCEPT ![p] = label]

-----------------------------------------------------------------------------
(* A failed test-and-set changes nothing, so only the one that wins is a   *)
(* step.                                                                   *)
spinlock_acquire_racy == locked' = TRUE
spinlock_acquire ==
  /\ ~locked
  /\ locked' = TRUE

spinlock_release == locked' = FALSE

-----------------------------------------------------------------------------
(* The fields of the task are written before the lock is taken.            *)
scheduler_enqueue(p, t) ==
  /\ pc[p] = "idle" /\ owner[t] = p
  /\ next' = [next EXCEPT ![t] = NULL]
  /\ task' = [task EXCEPT ![p] = t]
  /\ Goto(p, "lock_enqueue")
  /\ UNCHANGED <<head, tail, count, locked, fifo, owner>>

LockEnqueue(p) ==
  /\ pc[p] = "lock_enqueue"
  /\ spinlock_acquire
  /\ Goto(p, "link")
  /\ UNCHANGED <<queue, task, fifo, owner>>

(* The task becomes reachable: from head, or from the old tail.            *)
Link(p) ==
  /\ pc[p] = "link"
  /\ IF tail = NULL
     THEN head' = task[p] /\ UNCHANGED next
     ELSE next' = [next EXCEPT ![tail] = task[p]] /\ UNCHANGED head
  /\ fifo' = Append(fifo, task[p])
  /\ owner' = [owner EXCEPT ![task[p]] = NULL]
  /\ Goto(p, "set_tail")
  /\ UNCHANGED <<tail, count, locked, task>>

SetTail(p) ==
  /\ pc[p] = "set_tail"
  /\ tail' = task[p]
  /\ count' = count + 1
  /\ Goto(p, "unlock")
  /\ UNCHANGED <<head, next, locked, task, fifo, owner>>

-----------------------------------------------------------------------------
scheduler_dequeue(p) ==
  /\ pc[p] = "idle"
  /\ Goto(p, "lock_dequeue")
  /\ UNCHANGED <<queue, locked, task, fifo, owner>>

LockDequeue(p) ==
  /\ pc[p] = "lock_dequeue"
  /\ spinlock_acquire
  /\ Goto(p, "read_head")
  /\ UNCHANGED <<queue, task, fifo, owner>>

ReadHead(p) ==
  /\ pc[p] = "read_head"
  /\ task' = [task EXCEPT ![p] = head]
  /\ Goto(p, IF head = NULL THEN "unlock" ELSE "advance")
  /\ UNCHANGED <<queue, locked, fifo, owner>>

AdvanceHead(p) ==
  /\ pc[p] = "advance"
  /\ head' = next[task[p]]
  /\ fifo' = Tail(fifo)
  /\ owner' = [owner EXCEPT ![task[p]] = p]
  /\ Goto(p, "fix_tail")
  /\ UNCHANGED <<tail, count, next, locked, task>>

FixTailNever(p) ==
  /\ pc[p] = "fix_tail"
  /\ UNCHANGED tail
  /\ count' = count - 1
  /\ next' = [next EXCEPT ![task[p]] = NULL]
  /\ Goto(p, "unlock")
  /\ UNCHANGED <<head, locked, task, fifo, owner>>
FixTail(p) ==
  /\ pc[p] = "fix_tail"
  /\ tail' = IF head = NULL THEN NULL ELSE tail
  /\ count' = count - 1
  /\ next' = [next EXCEPT ![task[p]] = NULL]
  /\ Goto(p, "unlock")
  /\ UNCHANGED <<head, locked, task, fifo, owner>>

Unlock(p) ==
  /\ pc[p] = "unlock"
  /\ spinlock_release
  /\ Goto(p, "idle")
  /\ task' = [task EXCEPT ![p] = NULL]
  /\ UNCHANGED <<queue, fifo, owner>>

-----------------------------------------------------------------------------
(* What a caller does once it is inside one of the two functions.          *)
Step(p) ==
  \/ LockEnqueue(p) \/ Link(p) \/ SetTail(p)
  \/ LockDequeue(p) \/ ReadHead(p) \/ AdvanceHead(p) \/ FixTail(p)
  \/ Unlock(p)

Call(p) == scheduler_dequeue(p) \/ \E t \in Tasks : scheduler_enqueue(p, t)

QueueNext == \E p \in Procs : Call(p) \/ Step(p)

QueueSpec == QueueInit /\ [][QueueNext]_queueVars

-----------------------------------------------------------------------------
Critical == {"link", "set_tail", "read_head", "advance", "fix_tail", "unlock"}

(* The variables stay in their types; count does not go below zero.        *)
QueueTypeOK ==
  /\ head \in Tasks \cup {NULL} /\ tail \in Tasks \cup {NULL}
  /\ count \in Nat
  /\ locked \in BOOLEAN
  /\ next \in [Tasks -> Tasks \cup {NULL}]
  /\ pc \in [Procs -> Critical \cup {"idle", "lock_enqueue", "lock_dequeue"}]
  /\ task \in [Procs -> Tasks \cup {NULL}]
  /\ fifo \in Seq(Tasks)
  /\ owner \in [Tasks -> Procs \cup {NULL}]

(* One CPU at a time is between acquire and release, and the lock is held  *)
(* exactly while one is.                                                   *)
MutualExclusion ==
  /\ \A p, q \in Procs : pc[p] \in Critical /\ pc[q] \in Critical => p = q
  /\ locked <=> \E p \in Procs : pc[p] \in Critical

(* A task is on the queue once, or with one caller: none is lost and none  *)
(* is in two places, whatever the CPUs do.                                 *)
NoTaskLost ==
  /\ \A i, j \in 1..Len(fifo) : fifo[i] = fifo[j] => i = j
  /\ \A t \in Tasks : owner[t] = NULL <=> \E i \in 1..Len(fifo) : fifo[i] = t

(* What head and tail stand for, and what the next fields do: those of the *)
(* queued tasks chain them up, and a task with a caller points nowhere (t  *)
(* excepted).                                                              *)
First == IF fifo = << >> THEN NULL ELSE fifo[1]
Last == IF fifo = << >> THEN NULL ELSE fifo[Len(fifo)]
Linked ==
  \A i \in 1..Len(fifo) :
    next[fifo[i]] = IF i = Len(fifo) THEN NULL ELSE fifo[i + 1]
UnlinkedBut(t) ==
  \A u \in Tasks : owner[u] # NULL /\ u # t => next[u] = NULL

(* Whenever no CPU is inside, the pointers spell out the queue: head is    *)
(* its first task, tail its last, the next fields chain the ones between   *)
(* and end in nullptr, count is its length, and a task with a caller       *)
(* points nowhere.                                                         *)
ListAgrees ==
  ~locked => /\ count = Len(fifo) /\ head = First /\ tail = Last
             /\ Linked /\ UnlinkedBut(NULL)

Contract == INSTANCE QueueContract

(* The linked list under the spinlock is a FIFO queue with atomic puts and *)
(* gets.                                                                   *)
ImplementsContract == Contract!Spec

(* The inductive invariant behind the theorems: head and the chain are     *)
(* right at every moment; tail, count and the field of a task just taken   *)
(* off lag behind while the CPU inside is about to write them.             *)
Settled ==
  (\A p \in Procs : pc[p] \notin {"set_tail", "fix_tail"}) =>
    count = Len(fifo) /\ tail = Last /\ UnlinkedBut(NULL)

Enqueues(p) ==
  /\ pc[p] \in {"lock_enqueue", "link"} =>
       task[p] \in Tasks /\ owner[task[p]] = p /\ next[task[p]] = NULL
  /\ pc[p] = "set_tail" =>
       /\ fifo # << >> /\ task[p] = fifo[Len(fifo)]
       /\ count = Len(fifo) - 1
       /\ UnlinkedBut(NULL)

Dequeues(p) ==
  /\ pc[p] = "advance" => task[p] = head /\ head # NULL
  /\ pc[p] = "fix_tail" =>
       /\ task[p] \in Tasks /\ owner[task[p]] = p
       /\ count = Len(fifo) + 1
       /\ fifo # << >> => tail = Last
       /\ UnlinkedBut(task[p])

QueueInv ==
  /\ QueueTypeOK /\ MutualExclusion /\ NoTaskLost
  /\ head = First /\ Linked /\ Settled
  /\ \A p \in Procs : Enqueues(p) /\ Dequeues(p)
=============================================================================
