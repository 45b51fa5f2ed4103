---------------------------- MODULE Elaboration ----------------------------
(* The phase callbacks of ports, exports, primitive channels and modules.   *)
(* before_end_of_elaboration() may create and delete objects, so that the    *)
(* registries are gone through until all four of them stay as they are; the  *)
(* other three callbacks come once.  What is bound meanwhile is the matter   *)
(* of PortBinding.                                                          *)
EXTENDS Integers, Sequences

CONSTANTS
    Initial,    \* the kinds of the objects that sc_main may create
    Creators,   \* the kinds whose callback may create objects
    Deleters,   \* the kinds whose callback may delete objects; a downward loop
                \* would then read beyond the end of its registry
    MaxBorn     \* bound of the objects of a kind

Kind == {"port", "export", "channel", "module"}
Order == <<"port", "export", "channel", "module">>
Phases == <<"construction", "elaboration", "start", "running", "end", "over">>

(* What is assumed of the constants; the model-checking modules assume it.  *)
ElaborationAssumption ==
    /\ Initial \subseteq Kind /\ Creators \subseteq Kind
    /\ Deleters \subseteq {"channel", "module"}
    /\ MaxBorn \in Nat \ {0}

VARIABLES
    vec,      \* the registries: per kind the objects, each named by its number
    born,     \* objects created so far, per kind
    done,     \* m_construction_done of each registry
    phase,    \* index in Phases
    kind,     \* index in Order of the registry being gone through
    i,        \* the next object of its loop, 0 outside of a loop
    quiet,    \* cd: the registries that did not change in this round
    calls     \* history: callbacks of each object, per phase, counted up to 2

loop == <<phase, kind, i, quiet>>
vars == <<vec, born, done, loop, calls>>

Object == Kind \X (1 .. MaxBorn)
Registered == {o \in Object : \E n \in DOMAIN vec[o[1]] : vec[o[1]][n] = o[2]}

Init ==
    /\ born \in [Kind -> 0 .. 1]
    /\ \A k \in Kind \ Initial : born[k] = 0
    /\ vec = [k \in Kind |-> IF born[k] = 0 THEN <<>> ELSE <<1>>]
    /\ done = [k \in Kind |-> 0]
    /\ phase = 1 /\ kind = 1 /\ i = 0 /\ quiet = 0
    /\ calls = [o \in Object |-> [p \in 1 .. 5 |-> 0]]

Now == Order[kind]
Current == vec[Now]
Constructing == phase = 1

(* The registries of ports and exports loop downwards.                      *)
Down == Now \in {"port", "export"}

(* The last object is put in the place of the removed one.                  *)
Without(s, n) == SubSeq([s EXCEPT ![n] = s[Len(s)]], 1, Len(s) - 1)

(* A mistake: every registry is visited once only.                          *)
OneRound(q) ==
    /\ i' = 0
    /\ kind' = (kind % 4) + 1
    /\ phase' = IF kind = 4 THEN phase + 1 ELSE phase
    /\ quiet' = 0

(* On to the next registry; q tells whether this one is unchanged.  The     *)
(* first phase is over after a round in which all four are.                 *)
Leave(q) ==
    /\ i' = 0
    /\ kind' = (kind % 4) + 1
    /\ phase' = IF kind = 4 /\ (Constructing => quiet + q = 4) THEN phase + 1 ELSE phase
    /\ quiet' = IF kind = 4 THEN 0 ELSE quiet + q

(* Where the loop of a registry begins and whether it has anything to do.   *)
From == IF Down THEN Len(Current) ELSE IF Constructing THEN done[Now] + 1 ELSE 1
Settled == Len(Current) <= IF Constructing THEN done[Now] ELSE 0

(* construction_done() of a registry returns true if its size is what it    *)
(* remembers, and false with an empty loop if it has shrunk.                *)
Enter ==
    /\ i = 0
    /\ phase < Len(Phases) /\ Phases[phase] # "running"
    /\ IF Settled
       THEN /\ Leave(IF Constructing /\ Len(Current) < done[Now] THEN 0 ELSE 1)
            /\ done' = IF Constructing /\ Down THEN [done EXCEPT ![Now] = Len(Current)] ELSE done
       ELSE i' = From /\ UNCHANGED <<phase, kind, quiet, done>>
    /\ UNCHANGED <<vec, born, calls>>

-----------------------------------------------------------------------------
(* What a callback does besides: nothing, create an object, or delete one.  *)
Nothing == UNCHANGED <<vec, born>>

(* The constructor inserts the object at the end of its registry.           *)
Create(k) ==
    /\ born[k] < MaxBorn
    /\ born' = [born EXCEPT ![k] = @ + 1]
    /\ vec' = [vec EXCEPT ![k] = Append(@, born[k] + 1)]

(* The destructor removes it.                                               *)
Delete(k) ==
    /\ \E n \in DOMAIN vec[k] :
          /\ <<k, n>> # <<Now, i>>
          /\ vec' = [vec EXCEPT ![k] = Without(@, n)]
    /\ UNCHANGED born

Body ==
    \/ Nothing
    \/ Constructing /\ Now \in Creators /\ \E k \in Kind : Create(k)
    \/ Constructing /\ Now \in Deleters /\ \E k \in Kind : Delete(k)

(* A mistake: nothing is remembered.                                        *)
RememberNothing == done

(* What the first phase remembers: upwards, every object as it is called;   *)
(* downwards, the size at the end of the loop.                              *)
Remembered == [done EXCEPT ![Now] = IF Down THEN Len(vec'[Now]) ELSE i]

(* The callback of one object.  Upwards, the loop sees what the callback    *)
(* appends to its own registry.                                             *)
Callback ==
    /\ i > 0
    /\ calls' = [calls EXCEPT ![<<Now, Current[i]>>][phase] = IF @ = 2 THEN 2 ELSE @ + 1]
    /\ Body
    /\ LET last == IF Down THEN i = (IF Constructing THEN done[Now] ELSE 0) + 1
                   ELSE i >= Len(vec'[Now])
       IN  /\ done' = IF Constructing /\ (Down => last) THEN Remembered ELSE done
           /\ IF last THEN Leave(0)
              ELSE /\ i' = IF Down THEN i - 1 ELSE i + 1
                   /\ UNCHANGED <<phase, kind, quiet>>

(* sc_main calls sc_stop() after sc_start(), or the simulation runs to it.  *)
Stop ==
    /\ Phases[phase] = "running"
    /\ phase' = phase + 1
    /\ UNCHANGED <<vec, born, done, kind, i, quiet, calls>>

Next == Enter \/ Callback \/ Stop

Spec == Init /\ [][Next]_vars
FairSpec == Spec /\ WF_vars(Enter \/ Callback)

-----------------------------------------------------------------------------
TypeOK ==
    /\ vec \in [Kind -> Seq(1 .. MaxBorn)]
    /\ born \in [Kind -> 0 .. MaxBorn]
    /\ done \in [Kind -> 0 .. MaxBorn]
    /\ phase \in DOMAIN Phases /\ kind \in DOMAIN Order
    /\ i \in 0 .. MaxBorn /\ quiet \in 0 .. 4
    /\ calls \in [Object -> [1 .. 5 -> 0 .. 2]]

(* No object is called back in a phase before all of them had their         *)
(* callbacks of the phases before ("Ensure calls to                         *)
(* before_end_of_elaboration", sc_export.cpp:276), also those created by    *)
(* another one's callback, and nobody is called twice.                      *)
CalledOnce ==
    \A o \in Registered, p \in 1 .. 5 :
        /\ calls[o][p] <= 1
        /\ p < phase /\ Phases[p] # "running" => calls[o][p] = 1

(* Objects that create objects do not keep the elaboration from its end.    *)
Elaborated == <>(Phases[phase] = "running")
=============================================================================
