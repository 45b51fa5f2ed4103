------------------------------ MODULE SimMutex ------------------------------
(* sc_mutex: the mutex of the simulated program, built from an owner and an  *)
(* event.  lock() waits in a loop, so that every process woken by an unlock  *)
(* competes for it again, with those that call lock() or trylock() in the    *)
(* same delta cycle.                                                         *)
EXTENDS ChannelScheduler

CONSTANT None    \* no owner

(* What is assumed of the constants; the model-checking modules assume it.  *)
MutexAssumption == Event = {"free"} /\ None \notin Process

VARIABLES
    owner,   \* m_owner
    at,      \* "user", or "lock" in the loop of lock()
    inside   \* history: the processes that were told they have the mutex

vars == <<owner, at, inside, scheduler>>

Init ==
    /\ owner = None
    /\ at = [p \in Process |-> "user"]
    /\ inside = {}
    /\ SchedulerInit

in_use == owner # None

(* The owner's lock() and trylock() return at once.                         *)
Again(p) ==
    /\ at[p] = "user"
    /\ owner = p
    /\ Pass({})
    /\ UNCHANGED <<owner, at, inside>>

TakeAlways(p) ==
    /\ owner' = p
    /\ inside' = inside \cup {p}
    /\ at' = [at EXCEPT ![p] = "user"]
    /\ Pass({})

(* The end of the loop: the mutex is free.                                  *)
Take(p) == ~in_use /\ TakeAlways(p)

lock(p) ==
    /\ (at[p] = "user" /\ owner # p) \/ (at[p] = "lock" /\ ~Blocked(p))
    /\ IF in_use
       THEN Join(p, "free") /\ at' = [at EXCEPT ![p] = "lock"] /\ UNCHANGED <<owner, inside>>
       ELSE Take(p)

(* Returns -1, and changes nothing, while another process is the owner.     *)
trylock(p) == at[p] = "user" /\ Take(p)

(* A mistake: the processes that wait are not told.                         *)
UnlockQuietly(p) ==
    /\ at[p] = "user"
    /\ owner = p
    /\ owner' = None
    /\ inside' = inside \ {p}
    /\ Pass({})
    /\ UNCHANGED at

(* Returns -1, and changes nothing, for another process than the owner.     *)
unlock(p) ==
    /\ at[p] = "user"
    /\ owner = p
    /\ owner' = None
    /\ inside' = inside \ {p}
    /\ Pass({"free"})
    /\ UNCHANGED at

Call(p) == Runs(p) /\ (Again(p) \/ lock(p) \/ trylock(p) \/ unlock(p))

Suspend(p) ==
    /\ at[p] = "user" \/ Blocked(p)
    /\ SuspendProcess(p)
    /\ UNCHANGED <<owner, at, inside>>

Schedule ==
    /\ UpdatePhase({}) \/ SomeDelivery \/ Starve \/ Restart
    /\ UNCHANGED <<owner, at, inside>>

Next ==
    \/ \E p \in Process : Call(p) \/ Suspend(p)
    \/ Schedule

Spec == Init /\ [][Next]_vars

(* The pool executes every process and the scheduler, a process does not    *)
(* keep the mutex for ever, and it is not obliged to call lock() again.     *)
Fairness ==
    /\ WF_vars(Schedule)
    /\ \A p \in Process :
          /\ SF_vars(Runs(p) /\ unlock(p))
          /\ SF_vars(at[p] = "lock" /\ Runs(p) /\ lock(p))
          /\ SF_vars(Suspend(p))
          /\ SF_vars(Schedule /\ DeliveryTo(p))

FairSpec == Spec /\ Fairness

-----------------------------------------------------------------------------
TypeOK ==
    /\ SchedulerTypeOK
    /\ owner \in Process \cup {None}
    /\ at \in [Process -> {"user", "lock"}]
    /\ inside \subseteq Process
    /\ \A p \in Process : Blocked(p) => at[p] = "lock" /\ owner # p

(* Mutual exclusion: whoever lock() or trylock() let in is the owner, up to *)
(* his own unlock(), whatever the others call and in whatever order those   *)
(* woken by an unlock find the mutex (sc_mutex.cpp:76).                     *)
Exclusive == inside = {owner} \ {None}

(* Nobody sleeps beside a free mutex: the unlock that freed it has notified *)
(* those who wait, also those who joined the event after it.                *)
NoLostWakeup == ~in_use /\ waiting["free"] # {} => "free" \in notified

(* With a fair scheduler, and if owners unlock, the mutex for which         *)
(* somebody waits is taken again and again: a free one finds an owner.      *)
FreeIsTaken == waiting["free"] # {} /\ ~in_use ~> in_use
=============================================================================
