------------------------------ MODULE UpdatePhase ------------------------------
(***************************************************************************)
(* The primitive channels of the synchronous mode: sc_signal and sc_buffer  *)
(* with their writer policies, the list of update requests kept by          *)
(* sc_prim_channel_registry, and perform_update, which the last process to  *)
(* suspend executes before the next delta cycle.                            *)
(*                                                                          *)
(* Processes of one delta cycle run in parallel.  A write takes the mutex   *)
(* of the channel and, to enter the channel into the list, the mutex of the *)
(* registry; both are channel locks, recorded in the stack of the process   *)
(* (m_acq_chnl_lock_queue).  Threads from outside the simulator ask for an  *)
(* update through async_request_update, which only touches a queue with a   *)
(* host mutex of its own: its critical sections are single steps here.      *)
(* (That path is modelled for a build without assertions: the host mutex    *)
(* has an assert(0), sc_mutex_if.h:93.)                                     *)
(*                                                                          *)
(* The scheduler is abstract: after an update phase it dispatches any set   *)
(* of processes, or sc_start returns and sc_main runs.                      *)
(***************************************************************************)
EXTENDS Naturals, Sequences, FiniteSets

CONSTANTS
    Process,    \* the simulation processes
    Root,       \* sc_main and the scheduler calls it makes: takes no locks
    External,   \* threads of the host that are no simulation processes
    Channel,    \* the signals and buffers
    Buffer,     \* the channels that are an sc_buffer
    Policy,     \* "one", "many" or "unchecked" writers of each channel
    Value,      \* the values written
    InitVal,    \* the value of every channel before the simulation
    Registry,   \* the mutex of sc_prim_channel_registry
    None,       \* the null pointer
    End,        \* sc_prim_channel::list_end
    MaxAsync    \* bound on asynchronous requests waiting at once

(* What is assumed of the constants; the model-checking modules assume it.  *)
UpdatePhaseAssumption ==
    /\ Buffer \subseteq Channel
    /\ Policy \in [Channel -> {"one", "many", "unchecked"}]
    /\ InitVal \in Value
    /\ MaxAsync \in Nat
    /\ IsFiniteSet(Channel)
    /\ Root \notin Process
    /\ Registry \notin Channel
    /\ None \notin Process \cup Channel \cup {Registry}
    /\ End \notin Channel \cup {None}

Actor == Process \cup {Root}
Lock == Channel \cup {Registry}

VARIABLES
    running,    \* m_curr_proc_queue (and sc_main while no simulation runs)
    at,         \* where each actor is
    arg,        \* the channel and value of the call it executes
    owner,      \* owner of each channel mutex, and of the registry's
    acq,        \* m_acq_chnl_lock_queue, one entry per nested acquisition
    cur,        \* m_cur_val
    new,        \* m_new_val
    writer,     \* m_writer_p of the writer policy
    stamp,      \* m_change_stamp of the channel
    next,       \* m_update_next_p
    head,       \* m_update_list_p
    now,        \* now_p of perform_update
    push, pop,  \* m_push_queue, m_pop_queue of async_update_list
    fresh,      \* history: the channels the last update phase changed
    wrote,      \* history: who wrote a new (TRUE) or the current (FALSE) value
    asked       \* history: channels an outside thread asked to update

signals == <<cur, new, writer, stamp>>
list == <<next, head, now>>
async == <<push, pop, asked>>
locks == <<owner, acq>>
history == <<fresh, wrote>>
vars == <<running, at, arg, signals, list, async, locks, history>>

(* The places of an actor:                                                  *)
(*   user     runs user code, or sleeps when it is not in running           *)
(*   write    entered write()                                               *)
(*   compare  owns the channel mutex                                        *)
(*   enlist   in request_update, about to lock the registry                 *)
(*   link     owns the registry, m_update_next_p not yet set                *)
(*   publish  m_update_next_p is set, m_update_list_p is not                *)
(*   update   the last one: about to execute perform_update                 *)
(*   pending  owns the registry, asks for asynchronous requests             *)
(*   accept   walks m_pop_queue                                             *)
(*   walk     walks the update list                                         *)
Places == {"user", "write", "compare", "enlist", "link", "publish",
           "update", "pending", "accept", "walk"}

Null == [chan |-> None, val |-> InitVal]

TypeOK ==
    /\ running \in SUBSET Actor
    /\ at \in [Actor -> Places]
    /\ arg \in [Actor -> [chan : Channel \cup {None}, val : Value]]
    /\ owner \in [Lock -> Process \cup {None}]
    /\ acq \in [Process -> Seq(Lock)]
    /\ {cur, new} \subseteq [Channel -> Value]
    /\ writer \in [Channel -> Process \cup {None}]
    /\ stamp \in [Channel -> Nat \cup {None}]
    /\ next \in [Channel -> Channel \cup {None, End}]
    /\ {head, now} \subseteq Channel \cup {End}
    /\ {push, pop} \subseteq Seq(Channel)
    /\ fresh \in SUBSET Channel
    /\ wrote \in [Channel -> SUBSET (Process \X BOOLEAN)]
    /\ asked \in SUBSET Channel

(* Elaboration is over and sc_main may write signals before sc_start.       *)
Init ==
    /\ running = {Root}
    /\ at = [a \in Actor |-> "user"]
    /\ arg = [a \in Actor |-> Null]
    /\ owner = [l \in Lock |-> None]
    /\ acq = [p \in Process |-> <<>>]
    /\ cur = [c \in Channel |-> InitVal]
    /\ new = cur
    /\ writer = [c \in Channel |-> None]
    /\ stamp = [c \in Channel |-> None]
    /\ next = [c \in Channel |-> None]
    /\ head = End
    /\ now = End
    /\ push = <<>>
    /\ pop = <<>>
    /\ fresh = {}
    /\ wrote = [c \in Channel |-> {}]
    /\ asked = {}

-----------------------------------------------------------------------------
(* chnl_scoped_lock                                                         *)

Goto(a, place) == at' = [at EXCEPT ![a] = place]

Top(p) == IF acq[p] = <<>> THEN None ELSE acq[p][Len(acq[p])]

(* Faulty: the mutex is not taken.                                          *)
LockAndPushUnlocked(a, l) ==
    IF a = Root
    THEN UNCHANGED locks
    ELSE /\ acq' = [acq EXCEPT ![a] = Append(@, l)]
         /\ UNCHANGED owner

(* A second acquisition of the lock on top counts; any other lock must be   *)
(* free, also of the caller: the mutex is not recursive.                    *)
LockAndPush(a, l) ==
    IF a = Root
    THEN UNCHANGED locks
    ELSE /\ \/ Top(a) = l /\ UNCHANGED owner
            \/ Top(a) # l /\ owner[l] = None /\ owner' = [owner EXCEPT ![l] = a]
         /\ acq' = [acq EXCEPT ![a] = Append(@, l)]

(* The destructors of the innermost n scoped locks.                         *)
PopAndUnlock(a, n) ==
    IF a = Root
    THEN UNCHANGED locks
    ELSE LET left == SubSeq(acq[a], 1, Len(acq[a]) - n)
             held == {left[i] : i \in DOMAIN left}
         IN  /\ acq' = [acq EXCEPT ![a] = left]
             /\ owner' = [l \in Lock |->
                            IF owner[l] = a /\ l \notin held THEN None ELSE owner[l]]

-----------------------------------------------------------------------------
(* Writing                                                                  *)

Call(a, c, v) ==
    /\ a \in running
    /\ at[a] = "user"
    /\ arg' = [arg EXCEPT ![a] = [chan |-> c, val |-> v]]
    /\ Goto(a, "write")
    /\ UNCHANGED <<running, signals, list, async, locks, history>>

Enter(a) ==
    /\ at[a] = "write"
    /\ LockAndPush(a, arg[a].chan)
    /\ Goto(a, "compare")
    /\ UNCHANGED <<running, arg, signals, list, async, history>>

(* check_write looks at the writer at all: SC_MANY_WRITERS only when the    *)
(* value changes.                                                           *)
Checks(c, changed) ==
    \/ Policy[c] = "one"
    \/ Policy[c] = "many" /\ changed

(* get_current_writer is the null pointer in sc_main.                       *)
Me(a) == IF a = Root THEN None ELSE a

Conflicts(a, c, changed) ==
    /\ Checks(c, changed)
    /\ writer[c] # None
    /\ Me(a) \notin {writer[c], None}

(* value_changed of sc_signal::write; sc_buffer::write passes true.         *)
Changes(c, v) == c \in Buffer \/ cur[c] # v

(* The error report throws out of write().                                  *)
Reject(a) ==
    /\ at[a] = "compare"
    /\ Conflicts(a, arg[a].chan, Changes(arg[a].chan, arg[a].val))
    /\ PopAndUnlock(a, 1)
    /\ Goto(a, "user")
    /\ arg' = [arg EXCEPT ![a] = Null]
    /\ UNCHANGED <<running, signals, list, async, history>>

(* An update is requested when the value changes.                           *)
Requests(c, v) == Changes(c, v)

(* The new value is stored; with request_update, whose own chnl_scoped_lock *)
(* of the same mutex never blocks, up to the test of m_update_next_p.       *)
Store(a) == LET c == arg[a].chan
                v == arg[a].val
                ask == Requests(c, v)
            IN
    /\ at[a] = "compare"
    /\ ~Conflicts(a, c, Changes(c, v))
    /\ writer' = [writer EXCEPT ![c] =
                    IF Checks(c, Changes(c, v)) /\ @ = None THEN Me(a) ELSE @]
    /\ new' = [new EXCEPT ![c] = v]
    /\ IF a = Root THEN UNCHANGED wrote
       ELSE wrote' = [wrote EXCEPT ![c] = @ \cup {<<a, Changes(c, v)>>}]
    /\ IF ask /\ next[c] = None
       THEN /\ LockAndPush(a, c)
            /\ Goto(a, "enlist")
            /\ UNCHANGED arg
       ELSE /\ PopAndUnlock(a, 1)
            /\ Goto(a, "user")
            /\ arg' = [arg EXCEPT ![a] = Null]
    /\ UNCHANGED <<running, cur, stamp, list, async, fresh>>

(* sc_prim_channel_registry::request_update                                 *)
Enlist(a) ==
    /\ at[a] = "enlist"
    /\ LockAndPush(a, Registry)
    /\ Goto(a, "link")
    /\ UNCHANGED <<running, arg, signals, list, async, history>>

Link(a) ==
    /\ at[a] = "link"
    /\ next' = [next EXCEPT ![arg[a].chan] = head]
    /\ Goto(a, "publish")
    /\ UNCHANGED <<running, arg, signals, head, now, async, locks, history>>

(* The head is set and the locks of request_update are released: for a      *)
(* write that of write() too, for an asynchronous request the walk over     *)
(* m_pop_queue goes on.                                                     *)
Publish(a) ==
    /\ at[a] = "publish"
    /\ head' = arg[a].chan
    /\ IF a \in running
       THEN PopAndUnlock(a, 3) /\ Goto(a, "user")
       ELSE PopAndUnlock(a, 2) /\ Goto(a, "accept")
    /\ arg' = [arg EXCEPT ![a] = Null]
    /\ UNCHANGED <<running, signals, next, now, async, history>>

AsyncRequest(x, c) ==
    /\ Len(push) < MaxAsync
    /\ push' = Append(push, c)
    /\ asked' = asked \cup {c}
    /\ UNCHANGED <<running, at, arg, signals, list, pop, locks, history>>

-----------------------------------------------------------------------------
(* The update phase                                                         *)

(* perform_update waits for the last process of the running queue.          *)
Last(a) == running = {a}

(* wait() for a process, sc_start for sc_main: the last one to leave the    *)
(* running queue updates the channels before anybody is dispatched.         *)
Suspend(a) ==
    /\ a \in running
    /\ at[a] = "user"
    /\ running' = running \ {a}
    /\ Goto(a, IF Last(a) THEN "update" ELSE "user")
    /\ UNCHANGED <<arg, signals, list, async, locks, history>>

BeginUpdate(a) ==
    /\ at[a] = "update"
    /\ LockAndPush(a, Registry)
    /\ Goto(a, "pending")
    /\ UNCHANGED <<running, arg, signals, list, async, history>>

(* pending() and, if it says so, accept_updates up to the swap.             *)
AcceptUpdates(a) ==
    /\ at[a] = "pending"
    /\ push # <<>>
    /\ pop' = push
    /\ push' = <<>>
    /\ Goto(a, "accept")
    /\ UNCHANGED <<running, arg, signals, list, asked, locks, history>>

(* request_update for one entry of m_pop_queue: takes the channel mutex.    *)
AcceptOne(a) ==
    /\ at[a] = "accept"
    /\ pop # <<>>
    /\ pop' = Tail(pop)
    /\ IF next[Head(pop)] = None
       THEN /\ LockAndPush(a, Head(pop))
            /\ Goto(a, "enlist")
            /\ arg' = [arg EXCEPT ![a].chan = Head(pop)]
       ELSE /\ a = Root \/ owner[Head(pop)] = None
            /\ UNCHANGED <<at, arg, locks>>
    /\ UNCHANGED <<running, signals, list, push, asked, history>>

(* The list is taken over and emptied.                                      *)
NewHead == End

BeginWalk(a) ==
    /\ \/ at[a] = "pending" /\ push = <<>>
       \/ at[a] = "accept" /\ pop = <<>>
    /\ now' = head
    /\ head' = NewHead
    /\ fresh' = {}
    /\ Goto(a, "walk")
    /\ UNCHANGED <<running, arg, signals, next, async, locks, wrote>>

(* m_change_stamp of the simulation context: the synchronous mode never     *)
(* increments it.                                                           *)
change_stamp == 0

(* The policies' update().                                                  *)
Forget(c) == IF Policy[c] = "many" THEN None ELSE writer[c]

(* Faulty: the mark stays.                                                  *)
MarkKept(c) == next[c]

(* perform_update of the channel clears the mark after update().            *)
Mark(c) == None

(* update() of a signal, or of a buffer, which changes always.              *)
UpdateOne(a) == LET c == now
                    change == c \in Buffer \/ new[c] # cur[c] IN
    /\ at[a] = "walk"
    /\ now # End
    /\ writer' = [writer EXCEPT ![c] = Forget(c)]
    /\ cur' = [cur EXCEPT ![c] = new[c]]
    /\ stamp' = [stamp EXCEPT ![c] = IF change THEN change_stamp ELSE @]
    /\ fresh' = IF change THEN fresh \cup {c} ELSE fresh
    /\ next' = [next EXCEPT ![c] = Mark(c)]
    /\ now' = next[c]
    /\ asked' = asked \ {c}
    /\ UNCHANGED <<running, at, arg, new, head, push, pop, locks, wrote>>

(* The rest of oooschedule: somebody is dispatched.                         *)
EndUpdate(a) ==
    /\ at[a] = "walk"
    /\ now = End
    /\ PopAndUnlock(a, 1)
    /\ Goto(a, "user")
    /\ \/ running' \in (SUBSET Process) \ {{}}
       \/ running' = {Root}
    /\ wrote' = [c \in Channel |-> {}]
    /\ UNCHANGED <<arg, signals, list, async, fresh>>

WriteStep(a) == Enter(a) \/ Reject(a) \/ Store(a) \/ Enlist(a) \/ Link(a) \/ Publish(a)

UpdateStep(a) ==
    BeginUpdate(a) \/ AcceptUpdates(a) \/ AcceptOne(a) \/ BeginWalk(a)
    \/ UpdateOne(a) \/ EndUpdate(a)

Next ==
    \/ \E a \in Actor, c \in Channel, v \in Value : Call(a, c, v)
    \/ \E a \in Actor : WriteStep(a) \/ Suspend(a) \/ UpdateStep(a)
    \/ \E x \in External, c \in Channel : AsyncRequest(x, c)

Spec == Init /\ [][Next]_vars

(* Threads that run get processor time, and every process waits some time:  *)
(* strong fairness, because it may write any number of times before.        *)
Fairness == \A a \in Actor :
    WF_vars(WriteStep(a)) /\ SF_vars(Suspend(a)) /\ WF_vars(UpdateStep(a))

FairSpec == Spec /\ Fairness

-----------------------------------------------------------------------------
(* Properties                                                               *)

(* The pointers met on the update list, from the given one.                 *)
Chain(first) ==
    LET chain[n \in 0..Cardinality(Channel)] ==
            IF n = 0 THEN first
            ELSE IF chain[n - 1] \in Channel THEN next[chain[n - 1]]
            ELSE chain[n - 1]
    IN  chain

Listed(first) == {Chain(first)[n] : n \in 0..Cardinality(Channel)} \cap Channel

(* Whoever is inside the registry but has not published its channel yet.    *)
InHand == {arg[a].chan : a \in {b \in Actor : at[b] = "publish"}}

(* request_update and perform_update keep one list: it ends in list_end,    *)
(* and the channels on it, with the one being entered, are exactly those    *)
(* whose m_update_next_p says that they are requested.  Two processes that  *)
(* enter different channels at once must not lose either                    *)
(* (sc_prim_channel.h:502).                                                 *)
ListExact ==
    LET first == IF \E a \in Actor : at[a] = "walk" THEN now ELSE head
    IN  /\ Chain(first)[Cardinality(Channel)] = End
        /\ Listed(first) \cup InHand = {c \in Channel : next[c] # None}
        /\ Listed(first) \cap InHand = {}

(* A value that was written and is not yet visible is on its way: the       *)
(* channel is on the update list, or the process that wrote it is entering  *)
(* it (sc_signal.h:251, 287).                                               *)
NoLostWrite == \A c \in Channel :
    new[c] # cur[c] =>
        \/ next[c] # None
        \/ \E a \in Actor : arg[a].chan = c /\ at[a] \in {"enlist", "link"}

(* In one delta cycle at most one process changes the value of a signal     *)
(* with a writer policy: the second one gets an error report                *)
(* (sc_writer_policy.h:76).                                                 *)
ChangersAlone == \A c \in Channel : Policy[c] # "unchecked" =>
    Cardinality({w[1] : w \in {u \in wrote[c] : u[2]}}) <= 1

(* SC_ONE_WRITER, the stronger promise: one process writes at all, as long  *)
(* as the signal exists; here it is compared with the writer on record.     *)
OneWriter == \A c \in Channel : Policy[c] = "one" =>
    {w[1] : w \in wrote[c]} \subseteq {writer[c]}

(* What a user of the channels relies on, whoever writes at the same time.  *)
UpdateRight == TypeOK /\ ListExact /\ NoLostWrite /\ ChangersAlone /\ OneWriter

(* Evaluate-update semantics: UpdatePhase implements SignalSpec, with the   *)
(* update of all channels at the moment the list is taken over.             *)
Walking == \E a \in Actor : at[a] = "walk"
Signals == INSTANCE SignalSpec WITH
    visible <- IF Walking THEN new ELSE cur, written <- new, awake <- running
EvaluateUpdate == Signals!Spec

(* A written value becomes visible or is overwritten by the visible one.    *)
WritesArrive == \A c \in Channel : (new[c] # cur[c]) ~> (new[c] = cur[c])

(* The update that a thread outside the simulator asked for is performed    *)
(* (sc_prim_channel.h:104).                                                  *)
AsyncServed == \A c \in Channel : (c \in asked) ~> (c \notin asked)

(* event() tells whether the last update phase changed the signal           *)
(* (sc_signal.h:149).                                                       *)
event(c) == stamp[c] = change_stamp
EventIsFresh == \A c \in Channel : event(c) => c \in fresh

(* With SC_MANY_WRITERS two processes do not both write a signal in one     *)
(* delta cycle: delta cycle conflicts are for SC_UNCHECKED_WRITERS          *)
(* (sc_writer_policy.h:58).                                                 *)
NoDeltaConflict == \A c \in Channel : Policy[c] = "many" =>
    \A w, u \in wrote[c] : w[2] # u[2] => w[1] = u[1]
=============================================================================
