---------------------------- MODULE PortBinding ----------------------------
(* Ports are bound to interfaces and to ports of an enclosing module.  When  *)
(* the construction is done, complete_binding() replaces every such port by  *)
(* the interfaces it is bound to in the end, and only then the sensitivity   *)
(* of processes to ports becomes one to events.  Ports are numbered in the   *)
(* order in which they were created.                                        *)
EXTENDS Integers, Sequences, SequencesExt

CONSTANTS
    Port,        \* 1 .. number of ports
    Interface,
    Process,
    None,        \* a null pointer: no interface, no parent
    Parents,     \* per port, the ports it may be bound to, of enclosing modules
    MaxSize,     \* per port, the template argument N of sc_port
    Policy,      \* per port, its sc_port_policy
    MaxBinds,    \* bound of the calls of bind()
    MaxSensitive,  \* bound of the entries in a sensitivity list
    Late         \* whose end_of_elaboration() may create processes

(* What is assumed of the constants; the model-checking modules assume it.  *)
PortAssumption ==
    /\ Port = 1 .. Cardinality(Port)
    /\ None \notin Interface \cup Port
    /\ Interface \cap Port = {}
    /\ Parents \in [Port -> SUBSET Port]
    /\ \A p \in Port : p \notin Parents[p]
    /\ MaxSize \in [Port -> Int]
    /\ Policy \in [Port -> {"one or more", "zero or more", "all"}]
    /\ {MaxBinds, MaxSensitive} \subseteq Nat
    /\ Late \in {"nobody", "modules", "ports"}

VARIABLES
    vec,         \* m_bind_info->vec: interfaces, parents and None, in order
    has_parent,  \* m_bind_info->has_parent
    last_add,    \* m_bind_info->last_add, as a count
    is_leaf,     \* m_bind_info->is_leaf
    complete,    \* m_bind_info->complete
    gone,        \* the ports whose m_bind_info is deleted
    waiting,     \* thread_vec and method_vec: <<process, with an event finder?>>
    ifaces,      \* m_interface_vec
    registered,  \* per interface, the ports it got in register_port(), in order
    static,      \* m_static_events: <<interface, from an event finder?>>
    stack,       \* the calls of complete_binding() that are not finished
    phase,       \* "construction", "binding", "elaboration", "running" or "error"
    bound,       \* history: what bind() was called with
    asked        \* history: <<process, port, finder?>> of the sensitivity lists

info == <<vec, has_parent, last_add, is_leaf, complete, gone, waiting>>
results == <<ifaces, registered, static>>
history == <<bound, asked>>
vars == <<info, results, stack, phase, history>>

Init ==
    /\ vec = [p \in Port |-> <<>>]
    /\ has_parent = [p \in Port |-> FALSE]
    /\ last_add = [p \in Port |-> 0]
    /\ is_leaf = [p \in Port |-> TRUE]
    /\ complete = [p \in Port |-> FALSE]
    /\ gone = {}
    /\ waiting = [p \in Port |-> {}]
    /\ ifaces = [p \in Port |-> <<>>]
    /\ registered = [i \in Interface |-> <<>>]
    /\ static = [r \in Process |-> {}]
    /\ stack = <<>>
    /\ phase = "construction"
    /\ bound = [p \in Port |-> <<>>]
    /\ asked = {}

Total == FoldFunctionOnSet(LAMBDA s, n : n + Len(s), 0, bound, Port)

-----------------------------------------------------------------------------
(* bind( interface ): the interface is cached at once as long as the port   *)
(* has no parent; add_interface() refuses one that is there already.        *)
BindInterface(p, i) ==
    /\ IF has_parent[p] THEN UNCHANGED <<ifaces, last_add, phase>>
       ELSE IF i \in Range(ifaces[p])
       THEN phase' = "error" /\ UNCHANGED <<ifaces, last_add>>
       ELSE /\ ifaces' = [ifaces EXCEPT ![p] = Append(@, i)]
            /\ last_add' = [last_add EXCEPT ![p] = @ + 1]
            /\ UNCHANGED phase
    /\ UNCHANGED <<has_parent, is_leaf>>

(* bind( parent )                                                           *)
BindParent(p, q) ==
    /\ has_parent' = [has_parent EXCEPT ![p] = TRUE]
    /\ is_leaf' = [is_leaf EXCEPT ![q] = FALSE]
    /\ UNCHANGED <<ifaces, last_add, phase>>

Bind(p, x) ==
    /\ phase = "construction"
    /\ Total < MaxBinds
    /\ vec' = [vec EXCEPT ![p] = Append(@, x)]
    /\ bound' = [bound EXCEPT ![p] = Append(@, x)]
    /\ IF x \in Interface THEN BindInterface(p, x) ELSE BindParent(p, x)
    /\ UNCHANGED <<complete, gone, waiting, registered, static, stack, asked>>

(* The end_of_elaboration() of modules comes after that of all ports.       *)
MayBeLate == Late = "ports" \/ (Late = "modules" /\ gone = Port)

Events(s, finder) == {<<s[n], finder>> : n \in DOMAIN s}

(* make_sensitive(): remembered while there is a place for it, and else the *)
(* default events of the interfaces the port has.                           *)
make_sensitive(r, p, finder) ==
    /\ phase = "construction" \/ (phase = "elaboration" /\ MayBeLate)
    /\ Cardinality(asked) < MaxSensitive
    /\ asked' = asked \cup {<<r, p, finder>>}
    /\ IF p \in gone
       THEN static' = [static EXCEPT ![r] = @ \cup Events(ifaces[p], FALSE)] /\ UNCHANGED waiting
       ELSE waiting' = [waiting EXCEPT ![p] = @ \cup {<<r, finder>>}] /\ UNCHANGED static
    /\ UNCHANGED <<vec, has_parent, last_add, is_leaf, complete, gone, ifaces, registered,
                   stack, phase, bound>>

-----------------------------------------------------------------------------
Top == Last(stack)

(* The registry completes its ports from the last one created to the first; *)
(* those that are complete return at once.                                  *)
Complete ==
    /\ phase \in {"construction", "binding"}
    /\ stack = <<>>
    /\ IF \A p \in Port : complete[p]
       THEN phase' = "elaboration" /\ UNCHANGED stack
       ELSE /\ phase' = "binding"
            /\ stack' = <<CHOOSE p \in Port : ~complete[p] /\ \A q \in Port : q > p => complete[q]>>
    /\ UNCHANGED <<info, results, history>>

ParentAt(p) == {n \in DOMAIN vec[p] : vec[p][n] \in Port}
first_parent(p) == CHOOSE n \in ParentAt(p) : \A k \in ParentAt(p) : n <= k

(* A mistake: the first interface of the parent stands for all of them.     *)
FirstOnly(p, n) ==
    LET parent == vec[vec[p][n]] IN [vec[p] EXCEPT ![n] = IF parent = <<>> THEN None ELSE parent[1]]

(* insert_parent(): what the parent is bound to takes its place, and None if *)
(* that is nothing.                                                         *)
insert_parent(p, n) ==
    LET parent == vec[vec[p][n]]
    IN  SubSeq(vec[p], 1, n - 1) \o (IF parent = <<>> THEN <<None>> ELSE parent)
            \o SubSeq(vec[p], n + 1, Len(vec[p]))

(* The parents of the port on top of the stack are completed, one by one.   *)
Expand ==
    /\ stack # <<>>
    /\ ParentAt(Top) # {}
    /\ LET n == first_parent(Top) IN
        IF complete[vec[Top][n]]
        THEN vec' = [vec EXCEPT ![Top] = insert_parent(Top, n)] /\ UNCHANGED stack
        ELSE stack' = Append(stack, vec[Top][n]) /\ UNCHANGED vec
    /\ UNCHANGED <<has_parent, last_add, is_leaf, complete, gone, waiting, results, phase, history>>

(* The interfaces that are not cached yet, and all of them.                 *)
Added(p) == SelectSeq(SubSeq(vec[p], last_add[p] + 1, Len(vec[p])), LAMBDA x : x # None)
Found(p) == SelectSeq(vec[p], LAMBDA x : x # None)

(* The number of interfaces n against max_size() and the policy.            *)
Allowed(p, n) ==
    LET max == IF MaxSize[p] = 0 THEN Len(vec[p]) ELSE MaxSize[p]
    IN  /\ n <= max
        /\ Policy[p] = "one or more" => n >= 1
        /\ Policy[p] = "all" => n >= max /\ n >= 1

Subscribed(r, p) ==
    static[r] \cup UNION {Events(Found(p), w[2]) : w \in {w \in waiting[p] : w[1] = r}}

(* The rest of complete_binding() of a port without parents: the interfaces *)
(* are added, get the port if it is a leaf, and give their events to the    *)
(* processes that wait for them.                                            *)
Finish ==
    /\ stack # <<>>
    /\ ParentAt(Top) = {}
    /\ LET p == Top
           all == ifaces[p] \o Added(p)
           failed == ~IsInjective(all) \/ ~Allowed(p, Len(all))
       IN  IF failed THEN phase' = "error" /\ UNCHANGED <<info, results, stack>>
           ELSE /\ ifaces' = [ifaces EXCEPT ![p] = all]
                /\ registered' = [i \in Interface |->
                      IF is_leaf[p] /\ i \in Range(Found(p)) THEN Append(registered[i], p)
                      ELSE registered[i]]
                /\ static' = [r \in Process |-> Subscribed(r, p)]
                /\ waiting' = [waiting EXCEPT ![p] = {}]
                /\ complete' = [complete EXCEPT ![p] = TRUE]
                /\ stack' = Front(stack)
                /\ UNCHANGED <<vec, has_parent, last_add, is_leaf, gone, phase>>
    /\ UNCHANGED history

(* elaboration_done() of the ports, also from the last to the first: the    *)
(* binding information is deleted, and end_of_elaboration() is called, as   *)
(* it is for the modules when all ports are done.                           *)
elaboration_done ==
    /\ phase = "elaboration"
    /\ IF gone = Port THEN phase' = "running" /\ UNCHANGED gone
       ELSE /\ gone' = gone \cup {CHOOSE p \in Port \ gone : \A q \in Port \ gone : q <= p}
            /\ UNCHANGED phase
    /\ UNCHANGED <<vec, has_parent, last_add, is_leaf, complete, waiting, results, stack, history>>

Next ==
    \/ \E p \in Port : \E x \in Interface \cup Parents[p] : Bind(p, x)
    \/ \E r \in Process, p \in Port, finder \in BOOLEAN : make_sensitive(r, p, finder)
    \/ Complete
    \/ Expand
    \/ Finish
    \/ elaboration_done

Spec == Init /\ [][Next]_vars

-----------------------------------------------------------------------------
TypeOK ==
    /\ vec \in [Port -> Seq(Interface \cup Port \cup {None})]
    /\ {has_parent, is_leaf, complete} \subseteq [Port -> BOOLEAN]
    /\ last_add \in [Port -> 0 .. MaxBinds]
    /\ gone \subseteq Port
    /\ waiting \in [Port -> SUBSET (Process \X BOOLEAN)]
    /\ ifaces \in [Port -> Seq(Interface)]
    /\ registered \in [Interface -> Seq(Port)]
    /\ static \in [Process -> SUBSET (Interface \X BOOLEAN)]
    /\ stack \in Seq(Port)
    /\ phase \in {"construction", "binding", "elaboration", "running", "error"}

(* What a port is bound to in the end, by its own bindings and those of its  *)
(* parents alone, whenever they are completed.                              *)
Flat ==
    LET flat[p \in Port] ==
            FlattenSeq([n \in DOMAIN bound[p] |->
                IF bound[p][n] \in Interface THEN <<bound[p][n]>>
                ELSE IF bound[bound[p][n]] = <<>> THEN <<None>> ELSE flat[bound[p][n]]])
    IN  [p \in Port |-> flat[p]]
Reached(p) == SelectSeq(Flat[p], LAMBDA x : x # None)

(* A port that is complete has exactly the interfaces that its bindings lead *)
(* to, in this order, whatever the order of creation and of completion.     *)
Flattened == \A p \in Port : complete[p] => ifaces[p] = Reached(p)

(* Every interface a port leads to learns of it once if the port is a leaf,  *)
(* and never otherwise ("only register leaf ports (ports without children)", *)
(* sc_port.cpp:480): a signal counts its writers by this.                   *)
LeavesRegistered ==
    phase = "elaboration" => \A p \in Port, i \in Interface :
        LET leaf == \A q \in Port : p \notin Range(bound[q])
        IN  Cardinality({n \in DOMAIN registered[i] : registered[i][n] = p})
                = IF leaf /\ i \in Range(Reached(p)) THEN 1 ELSE 0

(* An error is reported for a reason: an interface is reached twice, or the  *)
(* number of interfaces is beyond the maximum ("N <= 0 means no maximum",    *)
(* sc_port.h:369) or below what the policy wants.                           *)
Unsound(p) ==
    LET n == Len(Reached(p))
        All == IF MaxSize[p] > 0 THEN MaxSize[p] ELSE Len(Flat[p])
    IN  \/ ~IsInjective(Reached(p))
        \/ MaxSize[p] > 0 /\ n > MaxSize[p]
        \/ Policy[p] = "one or more" /\ n = 0
        \/ Policy[p] = "all" /\ (n = 0 \/ n < All)
ErrorJustified == phase = "error" => \E p \in Port : Unsound(p)

(* And no port gets past an error.                                          *)
NoneUnsound == phase \in {"elaboration", "running"} => \A p \in Port : ~Unsound(p)

(* When the simulation starts, every process is sensitive to the events of   *)
(* all interfaces behind its ports, to the one of the event finder if it     *)
(* named one, and to nothing else.                                          *)
SensitivityExact ==
    phase = "running" => \A r \in Process :
        static[r] = UNION {Events(Reached(a[2]), a[3]) : a \in {a \in asked : a[1] = r}}

(* bind_count(), "number of interfaces that will be bound, or are bound"     *)
(* (sc_port.cpp:210), after the last bind().                                *)
bind_count(p) == IF p \in gone THEN Len(ifaces[p]) ELSE Len(vec[p])
CountReached ==
    phase \in {"binding", "elaboration", "running"} =>
        \A p \in Port : bind_count(p) = Len(Reached(p))
=============================================================================
