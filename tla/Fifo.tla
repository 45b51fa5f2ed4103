-------------------------------- MODULE Fifo --------------------------------
(***************************************************************************)
(* sc_fifo in the synchronous mode: a ring buffer whose counters separate    *)
(* what happened in this delta cycle from what was there before it, two      *)
(* events, and processes that block on them.                                 *)
(*                                                                           *)
(* A call of the interface holds the mutex of the channel (chnl_scoped_lock) *)
(* up to its end or up to the wait, so that it is one step here; what a      *)
(* process does under the mutex of the channel and what the scheduler does   *)
(* about it is the subject of KernelLock and KernelRequests.  A process that *)
(* waits has joined the event while it still runs: the scheduler hears of it *)
(* later, in Suspend.  The last process to suspend executes the update       *)
(* phase, then the delta notifications wake the waiting ones.                *)
(***************************************************************************)
EXTENDS Integers, Sequences, ChannelScheduler

CONSTANTS
    Reader,   \* the processes that call read() and nb_read()
    Writer,   \* those that call write() and nb_write()
    Value,    \* what they write
    Empty,    \* T(), what buf_read leaves behind
    Size      \* m_size

ASSUME FifoAssumption ==
    /\ Size \in Nat \ {0}
    /\ Process = Reader \cup Writer
    /\ Event = {"read", "written"}

Index == 0 .. Size - 1

VARIABLES
    buf, free, ri, wi,    \* m_buf, m_free, m_ri, m_wi
    readable,             \* m_num_readable
    numRead, numWritten,  \* m_num_read, m_num_written
    requested,            \* the channel is in the update list
    at,                   \* "user", or the blocking call that waits
    arg,                  \* the value a blocked write() will store
    dropped               \* history: buf_write or buf_read returned false

ring == <<buf, free, ri, wi>>
counts == <<readable, numRead, numWritten>>
calls == <<at, arg>>
vars == <<ring, counts, requested, scheduler, calls, dropped>>

Init ==
    /\ buf = [i \in Index |-> Empty]
    /\ free = Size
    /\ ri = 0 /\ wi = 0
    /\ readable = 0 /\ numRead = 0 /\ numWritten = 0
    /\ requested = FALSE
    /\ SchedulerInit
    /\ at = [p \in Process |-> "user"]
    /\ arg = [p \in Process |-> Empty]
    /\ dropped = FALSE

NumAvailableNow == Size - free
num_available == readable - numRead
NumFreeOfCycle == Size - readable
num_free == Size - readable - numWritten

-----------------------------------------------------------------------------
(* The interface methods, each under the mutex of the channel.              *)

buf_write(v) ==
    IF free = 0
    THEN dropped' = TRUE /\ UNCHANGED ring
    ELSE /\ buf' = [buf EXCEPT ![wi] = v]
         /\ wi' = (wi + 1) % Size
         /\ free' = free - 1
         /\ UNCHANGED <<ri, dropped>>

buf_read ==
    IF free = Size
    THEN dropped' = TRUE /\ UNCHANGED ring
    ELSE /\ buf' = [buf EXCEPT ![ri] = Empty]
         /\ ri' = (ri + 1) % Size
         /\ free' = free + 1
         /\ UNCHANGED <<wi, dropped>>

StoreOne(v) ==
    /\ numWritten' = numWritten + 1
    /\ buf_write(v)
    /\ requested' = TRUE
    /\ Pass({})
    /\ UNCHANGED <<readable, numRead>>

FetchOne ==
    /\ numRead' = numRead + 1
    /\ buf_read
    /\ requested' = TRUE
    /\ Pass({})
    /\ UNCHANGED <<readable, numWritten>>

WaitOn(p, e, call) ==
    /\ Join(p, e)
    /\ at' = [at EXCEPT ![p] = call]
    /\ UNCHANGED <<ring, counts, requested, dropped>>

(* p is back from the wait and tests the condition of the loop again.       *)
Retries(p, call, e) == at[p] = call /\ p \notin waiting[e]

ReadPass(p) ==
    \/ num_available = 0 /\ WaitOn(p, "written", "read")
    \/ num_available # 0 /\ FetchOne /\ at' = [at EXCEPT ![p] = "user"]

Read(p) ==
    /\ p \in Reader /\ Runs(p)
    /\ at[p] = "user" \/ Retries(p, "read", "written")
    /\ ReadPass(p)
    /\ UNCHANGED arg

WritePass(p, v) ==
    \/ /\ num_free = 0
       /\ WaitOn(p, "read", "write")
       /\ arg' = [arg EXCEPT ![p] = v]
    \/ /\ num_free # 0
       /\ StoreOne(v)
       /\ at' = [at EXCEPT ![p] = "user"]
       /\ arg' = [arg EXCEPT ![p] = Empty]

Write(p, v) ==
    /\ p \in Writer /\ Runs(p)
    /\ at[p] = "user" \/ (Retries(p, "write", "read") /\ v = arg[p])
    /\ WritePass(p, v)

(* nb_read and nb_write do nothing when they return false.                  *)
NbRead(p) ==
    /\ p \in Reader /\ Runs(p) /\ at[p] = "user"
    /\ num_available # 0
    /\ FetchOne
    /\ UNCHANGED calls

NbWrite(p, v) ==
    /\ p \in Writer /\ Runs(p) /\ at[p] = "user"
    /\ num_free # 0
    /\ StoreOne(v)
    /\ UNCHANGED calls

-----------------------------------------------------------------------------
(* The scheduler.                                                           *)

Suspend(p) ==
    /\ at[p] = "user" \/ Blocked(p)
    /\ SuspendProcess(p)
    /\ UNCHANGED <<ring, counts, requested, calls, dropped>>

UpdateFromEmpty ==
    /\ UpdatePhase({e \in Event :
                       IF e = "read" THEN numRead > 0
                                     ELSE numWritten > 0 /\ readable = 0})
    /\ readable' = Size - free
    /\ numRead' = 0
    /\ numWritten' = 0

(* sc_fifo::update, when the channel is in the update list.                 *)
update ==
    /\ UpdatePhase({e \in Event :
                       IF e = "read" THEN numRead > 0 ELSE numWritten > 0})
    /\ readable' = Size - free
    /\ numRead' = 0
    /\ numWritten' = 0

Update ==
    /\ requested' = FALSE
    /\ IF requested THEN update ELSE UpdatePhase({}) /\ UNCHANGED counts
    /\ UNCHANGED <<ring, calls, dropped>>

Schedule ==
    /\ SomeDelivery \/ Starve \/ Restart
    /\ UNCHANGED <<ring, counts, requested, calls, dropped>>

Call(p) == Read(p) \/ NbRead(p) \/ \E v \in Value : Write(p, v) \/ NbWrite(p, v)

Next ==
    \/ \E p \in Process : Call(p) \/ Suspend(p)
    \/ Update \/ Schedule

Spec == Init /\ [][Next]_vars

(* The pool executes every process, the update and the delivery, and every  *)
(* process goes on calling its side of the channel and waiting in between.  *)
Fairness ==
    /\ WF_vars(Update) /\ WF_vars(Schedule)
    /\ \A p \in Process :
          /\ SF_vars(Call(p))
          /\ SF_vars(Suspend(p))
          /\ SF_vars(Schedule /\ DeliveryTo(p))

FairSpec == Spec /\ Fairness

-----------------------------------------------------------------------------
TypeOK ==
    /\ buf \in [Index -> Value \cup {Empty}]
    /\ free \in 0 .. Size
    /\ ri \in Index /\ wi \in Index
    /\ readable \in 0 .. Size
    /\ numRead \in 0 .. Size /\ numWritten \in 0 .. Size
    /\ requested \in BOOLEAN /\ dropped \in BOOLEAN
    /\ SchedulerTypeOK
    /\ at \in [Process -> {"user", "read", "write"}]
    /\ arg \in [Process -> Value \cup {Empty}]

(* read() and write() ignore what buf_read and buf_write return, and decide *)
(* on counters of their own (m_num_readable, m_num_read, m_num_written):    *)
(* whatever the readers and writers of one cycle do, no value is dropped.   *)
NothingDropped == ~dropped

(* A process that waits while there is something for it to do is about to   *)
(* be woken: its event is notified, or the update that will notify it is    *)
(* requested.  The wait and the update may come in any order (sc_fifo.h:278,*)
(* 330).                                                                    *)
NoLostWakeup ==
    /\ waiting["written"] # {} /\ free # Size
          => "written" \in notified \/ (requested /\ numWritten > 0)
    /\ waiting["read"] # {} /\ free # 0
          => "read" \in notified \/ (requested /\ numRead > 0)

(* What the processes that share a fifo rely on.                            *)
FifoSafe == TypeOK /\ NothingDropped /\ NoLostWakeup

(* What is in the ring, oldest first.                                       *)
contents == [i \in 1 .. Size - free |-> buf[(ri + i - 1) % Size]]

(* The ring buffer and its counters implement a bounded queue with the      *)
(* evaluate-update semantics.                                               *)
Queue == INSTANCE BoundedQueue
            WITH queue <- contents, fresh <- numWritten, freed <- numRead
BoundedFifo == Queue!Spec

(* With a fair scheduler and processes that keep using the channel, no      *)
(* reader and no writer blocks for ever.                                    *)
ReadsEnd == \A p \in Reader : at[p] = "read" ~> at[p] = "user"
WritesEnd == \A p \in Writer : at[p] = "write" ~> at[p] = "user"
=============================================================================
