---------------------------- MODULE ProcessLife -----------------------------
(***************************************************************************)
(* How long a process object lives.  m_references_n counts one for the      *)
(* process itself, as long as its function has not ended, and one for each  *)
(* sc_process_handle; whoever brings it to zero deletes the object, unless  *)
(* that is the process itself, which is put aside.                          *)
(*                                                                          *)
(* Handles are copied and dropped wherever the program likes, without the   *)
(* kernel lock, so an increment is a load and a store, and a decrement a    *)
(* load, a store and a test.  Processes are created before the simulation;  *)
(* child objects of a process count as handles do and are left out.         *)
(***************************************************************************)
EXTENDS Integers, FiniteSets, FiniteSetsExt

CONSTANTS
    Process,
    Main,           \* sc_main
    Holder,         \* those that copy and drop handles
    MaxHandles      \* bound on the handles of one holder for one process

Actor == Process \cup {Main}

(* What is assumed of the constants; the model-checking modules assume it.  *)
ProcessLifeAssumption ==
    /\ Main \notin Process
    /\ Holder \subseteq Actor
    /\ MaxHandles \in Nat \ {0}

VARIABLES
    place,          \* where the function of each process is
    refs,           \* m_references_n
    handles,        \* how many handles each actor has for each process
    exists,         \* the objects not deleted
    collectable,    \* m_collectable
    op              \* the step of an increment or decrement each actor is at

vars == <<place, refs, handles, exists, collectable, op>>

Idle == [at |-> "idle"]
Step(at, kind, p, n) == [at |-> at, kind |-> kind, of |-> p, n |-> n]

(* m_all_proc: created processes are put in and nothing takes them out.     *)
AllProc == Process

TypeOK ==
    /\ place \in [Process -> {"waiting", "running", "ending", "over"}]
    /\ refs \in [Process -> Nat]
    /\ handles \in [Actor -> [Process -> 0..MaxHandles]]
    /\ exists \subseteq Process
    /\ collectable \subseteq Process
    /\ \A a \in Actor : op[a] = Idle \/
          op[a] \in [at : {"load", "store", "test"}, kind : {"inc", "dec"},
                     of : Process, n : Int]

Ended(p) == place[p] \in {"ending", "over"}

(* The creator gets a handle, which sc_main keeps or has dropped already.   *)
Init ==
    /\ place = [p \in Process |-> "waiting"]
    /\ \E kept \in SUBSET Process :
          /\ handles = [a \in Actor |-> [p \in Process |->
                            IF a = Main /\ p \in kept THEN 1 ELSE 0]]
          /\ refs = [p \in Process |-> IF p \in kept THEN 2 ELSE 1]
    /\ exists = Process
    /\ collectable = {}
    /\ op = [a \in Actor |-> Idle]

-----------------------------------------------------------------------------
(* sc_main runs while no process does.                                      *)
Active(a) ==
    /\ op[a] = Idle
    /\ IF a = Main THEN \A p \in Process : place[p] \in {"waiting", "over"}
                   ELSE place[a] = "running"

(* A process is dispatched, by sc_start or by another process.              *)
Wake(p) ==
    /\ place[p] = "waiting"
    /\ op[Main] = Idle
    /\ place' = [place EXCEPT ![p] = "running"]
    /\ UNCHANGED <<refs, handles, exists, collectable, op>>

Wait(p) ==
    /\ Active(p)
    /\ place' = [place EXCEPT ![p] = "waiting"]
    /\ UNCHANGED <<refs, handles, exists, collectable, op>>

(* The copy constructor: of a handle that the actor has or sc_main keeps for *)
(* all, or of sc_get_current_process_handle().                              *)
Copy(a, p) ==
    /\ a \in Holder /\ Active(a)
    /\ a = p \/ handles[a][p] > 0 \/ handles[Main][p] > 0
    /\ handles[a][p] < MaxHandles
    /\ handles' = [handles EXCEPT ![a][p] = @ + 1]
    /\ op' = [op EXCEPT ![a] = Step("load", "inc", p, 0)]
    /\ UNCHANGED <<place, refs, exists, collectable>>

(* The destructor of a handle.                                              *)
Drop(a, p) ==
    /\ a \in Holder /\ Active(a)
    /\ handles[a][p] > 0
    /\ handles' = [handles EXCEPT ![a][p] = @ - 1]
    /\ op' = [op EXCEPT ![a] = Step("load", "dec", p, 0)]
    /\ UNCHANGED <<place, refs, exists, collectable>>

(* The function of a process, its local handles gone, returns:              *)
(* disconnect_process, with the kernel lock.                                *)
Ends(p) ==
    /\ Active(p)
    /\ \A q \in Process : handles[p][q] = 0 /\ place[q] # "ending"
    /\ place' = [place EXCEPT ![p] = "ending"]
    /\ op' = [op EXCEPT ![p] = Step("load", "dec", p, 0)]
    /\ UNCHANGED <<refs, handles, exists, collectable>>

(* The last oooschedule of the process, in which it sleeps for ever.        *)
Sleep(p) ==
    /\ place[p] = "ending"
    /\ op[p] = Idle
    /\ place' = [place EXCEPT ![p] = "over"]
    /\ UNCHANGED <<refs, handles, exists, collectable, op>>

Load(a) ==
    /\ op[a].at = "load"
    /\ op' = [op EXCEPT ![a].at = "store", ![a].n = refs[op[a].of]]
    /\ UNCHANGED <<place, refs, handles, exists, collectable>>

Store(a) ==
    /\ op[a].at = "store"
    /\ IF op[a].kind = "inc"
       THEN /\ refs' = [refs EXCEPT ![op[a].of] = op[a].n + 1]
            /\ op' = [op EXCEPT ![a] = Idle]
       ELSE /\ refs' = [refs EXCEPT ![op[a].of] = op[a].n - 1]
            /\ op' = [op EXCEPT ![a].at = "test"]
    /\ UNCHANGED <<place, handles, exists, collectable>>

(* Faulty: the running process is deleted as well.                          *)
DeleteAtOnce(a, p) ==
    /\ exists' = exists \ {p}
    /\ UNCHANGED <<refs, collectable>>

(* delete_process(), by a                                                   *)
DeleteProcess(a, p) ==
    IF p # a
    THEN /\ exists' = exists \ {p}
         /\ UNCHANGED <<refs, collectable>>
    ELSE /\ refs' = [refs EXCEPT ![p] = 1]
         /\ collectable' = collectable \cup {p}
         /\ UNCHANGED exists

Test(a) ==
    /\ op[a].at = "test"
    /\ op' = [op EXCEPT ![a] = Idle]
    /\ IF refs[op[a].of] = 0 THEN DeleteProcess(a, op[a].of)
                             ELSE UNCHANGED <<refs, exists, collectable>>
    /\ UNCHANGED <<place, handles>>

Next ==
    \/ \E p \in Process : Wake(p) \/ Wait(p) \/ Ends(p) \/ Sleep(p)
    \/ \E a \in Actor, p \in Process : Copy(a, p) \/ Drop(a, p)
    \/ \E a \in Actor : Load(a) \/ Store(a) \/ Test(a)

Spec == Init /\ [][Next]_vars

(* Code that runs goes on, and sc_main calls sc_start again.                *)
FairSpec ==
    /\ Spec
    /\ \A a \in Actor : WF_vars(Load(a) \/ Store(a) \/ Test(a))
    /\ \A p \in Process : WF_vars(Wake(p)) /\ WF_vars(Sleep(p))

-----------------------------------------------------------------------------
(* What somebody still uses is not deleted: the target of a handle, of a    *)
(* count in progress, the process whose thread is still on its way out.     *)
InUseExist ==
    /\ \A a \in Actor : op[a] # Idle => op[a].of \in exists
    /\ \A a \in Actor, p \in Process : handles[a][p] > 0 => p \in exists
    /\ \A p \in Process : place[p] # "over" => p \in exists

(* When nobody is counting, the count of each object is what refers to it.  *)
CountExact ==
    (\A a \in Actor : op[a] = Idle) =>
        \A p \in exists :
            refs[p] = (IF ~Ended(p) \/ p \in collectable THEN 1 ELSE 0)
                      + MapThenSumSet(LAMBDA a : handles[a][p], Actor)

(* An object to which nothing refers any more is deleted or put aside.      *)
NothingForgotten ==
    \A p \in exists : refs[p] = 0 =>
        \E a \in Actor : op[a] # Idle /\ op[a].of = p /\ op[a].at = "test"

(* The scheduler walks over m_all_proc, whose objects must exist; "This     *)
(* object instance will be removed from any data structures it resides".    *)
ListedExist == AllProc \subseteq exists

(* "so we may need to wait until it goes idle": what was put aside is       *)
(* deleted later.                                                           *)
Collected == \A p \in Process : p \in collectable ~> p \notin exists
=============================================================================
