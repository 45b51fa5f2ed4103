--------------------------- MODULE MCOoOSchedule ---------------------------
(* Small programs for OoOSchedule, and the tables that the compiler of the  *)
(* simulator emits for a program.  A process is the sequence of its         *)
(* segments; a segment is <<the process, its place in the sequence>>.  A    *)
(* method is one segment that runs again and again.                         *)
EXTENDS OoOSchedule, Sequences

Wait(kind, events, time) == [kind |-> kind, events |-> events, time |-> time]
ForTime(n) == Wait("TIME", {}, n)
ForOne(events) == Wait("OR", events, 0)
ForAll(events) == Wait("AND", events, 0)
Ends == Wait("END", {}, 0)

(* The notifications a segment may make, whether it touches the shared      *)
(* data, and the wait that ends it.                                         *)
Does(notify, data, wait) == [notify |-> notify, data |-> data, wait |-> wait]
May(e) == {<<e, 0>>}
Nothing == {}

-----------------------------------------------------------------------------
(* Three threads and a method that notify each other, with a single wait,   *)
(* an AND list, timed waits and shared data.                                *)
Mixed ==
    [a |-> << Does(May("e"), FALSE, ForTime(1)), Does(May("e"), FALSE, Ends) >>,
     b |-> << Does(Nothing, FALSE, ForOne({"e"})), Does(May("f"), TRUE, Ends) >>,
     c |-> << Does(Nothing, FALSE, ForTime(2)),
              Does(May("e") \cup May("f"), TRUE, ForAll({"e", "f"})), Does(Nothing, FALSE, Ends) >>,
     m |-> << Does({<<"f", 1>>}, FALSE, ForOne({"e"})) >>]

(* Three threads that all touch the same data; the period ends before the   *)
(* last wait of c.                                                          *)
Sharing ==
    [a |-> << Does(Nothing, FALSE, ForTime(1)), Does(May("e"), FALSE, ForTime(2)),
              Does(Nothing, TRUE, Ends) >>,
     b |-> << Does(Nothing, FALSE, ForOne({"e"})), Does(Nothing, TRUE, Ends) >>,
     c |-> << Does(Nothing, FALSE, ForTime(2)), Does(Nothing, TRUE, ForTime(4)),
              Does(Nothing, FALSE, Ends) >>]

(* Threads that outlive a sc_start, and an event g that sc_main notifies.   *)
Outliving ==
    [a |-> << Does(Nothing, FALSE, ForOne({"g"})), Does(May("e"), FALSE, ForTime(4)),
              Does(May("e"), TRUE, Ends) >>,
     b |-> << Does(Nothing, FALSE, ForOne({"e"})), Does(Nothing, TRUE, ForTime(3)),
              Does(May("f"), FALSE, Ends) >>,
     c |-> << Does(Nothing, FALSE, ForTime(5)), Does(May("e"), TRUE, ForOne({"f"})),
              Does(Nothing, FALSE, Ends) >>]

(* b can be disabled while the others run.                                  *)
Disabling ==
    [a |-> << Does(Nothing, FALSE, ForTime(1)), Does(May("e"), FALSE, ForTime(1)),
              Does(Nothing, FALSE, Ends) >>,
     b |-> << Does(Nothing, FALSE, ForOne({"e"})), Does(Nothing, FALSE, ForTime(1)),
              Does(Nothing, TRUE, Ends) >>,
     c |-> << Does(Nothing, FALSE, ForTime(3)), Does(Nothing, TRUE, Ends) >>,
     d |-> << Does(Nothing, FALSE, ForTime(2)), Does(May("e"), FALSE, Ends) >>]

(* A method and a thread are dispatched in the same iteration, so that more *)
(* runs than _SYSC_NUM_INVOKERS allows.                                     *)
Crowding ==
    [a |-> << Does(May("f"), FALSE, ForTime(5)), Does(Nothing, FALSE, Ends) >>,
     b |-> << Does(Nothing, FALSE, ForOne({"e"})), Does(Nothing, FALSE, Ends) >>,
     m |-> << Does(May("e"), FALSE, ForOne({"f"})) >>]

(* m is a method with dont_initialize, sensitive to e.                      *)
Sleeping ==
    [a |-> << Does(Nothing, FALSE, ForTime(1)), Does(May("e"), FALSE, Ends) >>,
     b |-> << Does(Nothing, FALSE, ForTime(2)), Does(May("e"), FALSE, Ends) >>,
     m |-> << Does(Nothing, FALSE, ForOne({"e"})) >>]

(* b gets one of the two events it waits for before the other.              *)
Collecting ==
    [a |-> << Does({<<"e", 1>>, <<"g", 2>>}, FALSE, Ends) >>,
     b |-> << Does(Nothing, FALSE, ForAll({"e", "f"})), Does(Nothing, TRUE, Ends) >>,
     c |-> << Does(Nothing, FALSE, ForOne({"g"})), Does(May("f"), TRUE, Ends) >>]

(* A notification is pending when sc_start reaches its end.                 *)
Pausing ==
    [a |-> << Does({<<"e", 7>>}, FALSE, Ends) >>,
     b |-> << Does(Nothing, FALSE, ForTime(5)), Does(May("e"), FALSE, Ends) >>,
     c |-> << Does(Nothing, FALSE, ForOne({"e"})), Does(Nothing, FALSE, Ends) >>]

(* A wait for an event with a timeout.                                      *)
Timing ==
    [a |-> << Does(Nothing, FALSE, ForTime(1)), Does(May("e"), FALSE, Ends) >>,
     b |-> << Does(Nothing, FALSE, Wait("TIME", {"e"}, 5)), Does(Nothing, FALSE, Ends) >>]

(* A method that is notified for after the end of sc_start.                 *)
Overdue ==
    [a |-> << Does({<<"e", 7>>}, FALSE, Ends) >>,
     m |-> << Does(Nothing, FALSE, ForOne({"e"})) >>]

(* b ends with a segment that notifies f, and the time at which a wakes it  *)
(* is predicted again.                                                      *)
Dying ==
    [a |-> << Does(May("e"), FALSE, ForTime(3)), Does(May("e"), FALSE, Ends) >>,
     b |-> << Does(Nothing, FALSE, ForOne({"e"})), Does(May("f"), FALSE, Ends) >>,
     c |-> << Does(Nothing, FALSE, ForOne({"f"})), Does(Nothing, FALSE, Ends) >>,
     d |-> << Does(Nothing, FALSE, ForOne({"g"})), Does(May("f"), FALSE, Ends) >>]

(* A use of the scheduler as PlainUse has it: conflicts, a method, and a    *)
(* notification for after the end of the period.                            *)
Settling ==
    [a |-> << Does(May("e"), FALSE, ForTime(2)), Does({<<"e", 7>>}, TRUE, ForTime(1)),
              Does(Nothing, FALSE, Ends) >>,
     b |-> << Does(Nothing, FALSE, ForOne({"e"})), Does({<<"f", 1>>}, TRUE, ForOne({"e"})),
              Does(Nothing, TRUE, Ends) >>,
     c |-> << Does(Nothing, FALSE, ForTime(3)), Does(Nothing, TRUE, ForOne({"e"})),
              Does(Nothing, TRUE, Ends) >>,
     m |-> << Does(Nothing, FALSE, ForOne({"f"})) >>]

-----------------------------------------------------------------------------
(* The parts of a program.                                                  *)
Threads(prog) == DOMAIN prog \ {"m"}
Methods(prog) == DOMAIN prog \cap {"m"}
Segments(prog) == UNION {{<<p, i>> : i \in DOMAIN prog[p]} : p \in DOMAIN prog}
At(prog, s) == prog[s[1]][s[2]]
Firsts(prog) == [p \in DOMAIN prog |-> <<p, 1>>]
Nexts(prog) ==
    [s \in Segments(prog) |-> IF s[2] < Len(prog[s[1]]) THEN <<s[1], s[2] + 1>> ELSE s]
Waits(prog) == [s \in Segments(prog) |-> At(prog, s).wait]
Notifications(prog) == [s \in Segments(prog) |-> At(prog, s).notify]
Clashes(prog) ==
    {st \in Segments(prog) \X Segments(prog) :
        st[1] # st[2] /\ At(prog, st[1]).data /\ At(prog, st[2]).data}

(* The tables: what a segment, or a later one of the same process, can do   *)
(* at the earliest.                                                         *)
Chain(prog, direct) ==
    LET S == Segments(prog)
        next == Nexts(prog)
        advance == [s \in S |-> Advance(At(prog, s).wait)]
        best[n \in 0..Cardinality(S)] ==
            IF n = 0 THEN direct
            ELSE [st \in S \X S |->
                    Earliest({direct[st], Plus(advance[st[1]], best[n - 1][next[st[1]], st[2]])})]
    IN  best[Cardinality(S)]

(* Notifications by s1 that end the wait before segment s2.                 *)
EndsWaitOf(prog, s1, s2) ==
    {n \in At(prog, s1).notify : \E s \in Segments(prog) :
        Nexts(prog)[s] = s2 /\ n[1] \in At(prog, s).wait.events}

PredictTable(prog) == Chain(prog, [st \in Segments(prog) \X Segments(prog) |->
    Earliest({IF n[2] = 0 THEN Delta ELSE <<n[2], 1>> : n \in EndsWaitOf(prog, st[1], st[2])})])

HazardTable(prog) == Chain(prog, [st \in Segments(prog) \X Segments(prog) |->
    IF st \in Clashes(prog) THEN <<0, 0>> ELSE Infinite])

-----------------------------------------------------------------------------
(* The instance of one program, and the tables its compiler would emit.     *)
CONSTANT Program

MCThread == Threads(Program)
MCMethod == Methods(Program)
MCInvokerOf == [m \in MCMethod |-> "i1"]
MCSegment == Segments(Program)
MCFirst == Firsts(Program)
MCWaitOf == Waits(Program)
MCNextOf == Nexts(Program)
MCMayNotify == Notifications(Program)
MCClash == Clashes(Program)
MCPredict == PredictTable(Program)
MCHazard == HazardTable(Program)

(* They promise what the proofs assume of them.                             *)
ASSUME ProgramTablesSound == TablesSound

(* The processes with dont_initialize and what they are sensitive to.       *)
NoStatic == [p \in {} |-> {}]
StaticMethods == [p \in MCMethod |-> {"e"}]
=============================================================================
