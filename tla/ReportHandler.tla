--------------------------- MODULE ReportHandler ---------------------------
(* sc_report_handler: reports are counted per severity, per message type and *)
(* per both, and what is done about one follows from the rules and limits    *)
(* set at these three levels.  Message types are registered by their first   *)
(* use, at the head of a list.  There is no lock; a process that reports     *)
(* without the kernel lock runs in parallel with others that do.             *)
EXTENDS Integers, Sequences, FiniteSets

CONSTANTS
    Reporter,      \* processes
    Type,          \* message types
    Predefined,    \* those of the library's own table, msg_terminator
    Severity,
    Fatal,         \* SC_FATAL
    Action,        \* actions other than SC_STOP
    Stop,          \* SC_STOP
    Defaults,      \* sev_actions
    Limits,        \* arguments of stop_after(), -1 for none
    MaxReports,    \* bound of the reports
    MaxSettings,   \* bound of the calls that set rules and limits
    MayReset,      \* initialize() is called
    Serial         \* one process reports at a time

(* What is assumed of the constants; the model-checking modules assume it.  *)
ReportAssumption ==
    /\ Predefined \subseteq Type
    /\ Fatal \in Severity
    /\ Stop \notin Action
    /\ Defaults \in [Severity -> SUBSET (Action \cup {Stop})]
    /\ Limits \subseteq Int
    /\ {MaxReports, MaxSettings} \subseteq Nat
    /\ {MayReset, Serial} \subseteq BOOLEAN

Actions == SUBSET (Action \cup {Stop})
Unspecified == {}
NoLimit == -1

VARIABLES
    def,        \* the sc_msg_def objects, in the order of their allocation
    next,       \* the next one in the list, 0 at its end
    messages,   \* the first one
    rules,      \* per severity: sev_actions, sev_limit and sev_call_count
    suppress_mask, force_mask,
    at,         \* per process, where it is in report()
    what,       \* per process, <<type, severity>> of its report
    md,         \* per process, the definition it works on
    seen,       \* per process, the counters it has read
    last,       \* history: the last report's type, severity and actions
    made,       \* history: the reports made, in order
    settings    \* calls of the other functions so far

list == <<def, next, messages>>
config == <<suppress_mask, force_mask, settings>>
reporting == <<at, what, md, seen>>
vars == <<list, rules, config, reporting, last, made>>

Rule(a) == [actions |-> a, limit |-> NoLimit, calls |-> 0]
NewDef(t) == [type |-> t, all |-> Rule(Unspecified),
              sev |-> [s \in Severity |-> Rule(Unspecified)]]

Init ==
    /\ \E order \in [1 .. Cardinality(Predefined) -> Predefined] :
          /\ {order[n] : n \in DOMAIN order} = Predefined
          /\ def = [n \in DOMAIN order |-> NewDef(order[n])]
          /\ next = [n \in DOMAIN order |-> IF n = Len(order) THEN 0 ELSE n + 1]
    /\ messages = IF Predefined = {} THEN 0 ELSE 1
    /\ rules = [s \in Severity |-> Rule(Defaults[s])]
    /\ suppress_mask = {} /\ force_mask = {}
    /\ at = [r \in Reporter |-> "idle"]
    /\ what \in [Reporter -> {CHOOSE w \in Type \X Severity : TRUE}]
    /\ md = [r \in Reporter |-> 0]
    /\ seen = [r \in Reporter |-> <<0, 0, 0>>]
    /\ last = <<>>
    /\ made = <<>>
    /\ settings = 0

(* The list from its head on, at most as long as there are definitions.     *)
InList ==
    LET At[n \in 0 .. Len(def)] == IF n = 0 THEN messages
                                   ELSE IF At[n - 1] = 0 THEN 0 ELSE next[At[n - 1]]
    IN  {At[n] : n \in 0 .. Len(def)} \ {0}

(* mdlookup(): 0 if there is none.  Those registered later come first.      *)
Lookup(t) ==
    LET named == {d \in InList : def[d].type = t}
    IN  IF named = {} THEN 0 ELSE CHOOSE d \in named : \A e \in named : e <= d

-----------------------------------------------------------------------------
Quiet(r) == Serial => \A q \in Reporter \ {r} : at[q] = "idle"

(* report()                                                                 *)
Start(r, t, s) ==
    /\ at[r] = "idle" /\ Quiet(r)
    /\ Len(made) < MaxReports
    /\ what' = [what EXCEPT ![r] = <<t, s>>]
    /\ made' = Append(made, <<t, s>>)
    /\ md' = [md EXCEPT ![r] = Lookup(t)]
    /\ at' = [at EXCEPT ![r] = IF Lookup(t) = 0 THEN "add" ELSE "execute"]
    /\ UNCHANGED <<list, rules, config, seen, last>>

(* add_msg_type() up to items->next = messages                              *)
Add(r) ==
    /\ at[r] = "add"
    /\ def' = Append(def, NewDef(what[r][1]))
    /\ next' = Append(next, messages)
    /\ md' = [md EXCEPT ![r] = Len(def) + 1]
    /\ at' = [at EXCEPT ![r] = "link"]
    /\ UNCHANGED <<messages, rules, config, what, seen, last, made>>

(* messages = items                                                         *)
Link(r) ==
    /\ at[r] = "link"
    /\ messages' = md[r]
    /\ at' = [at EXCEPT ![r] = "execute"]
    /\ UNCHANGED <<def, next, rules, config, what, md, seen, last, made>>

(* The counters are read ...                                                *)
Load(r) ==
    /\ at[r] = "execute"
    /\ LET d == def[md[r]]  s == what[r][2] IN
        seen' = [seen EXCEPT ![r] = <<d.sev[s].calls, d.all.calls, rules[s].calls>>]
    /\ at' = [at EXCEPT ![r] = "count"]
    /\ UNCHANGED <<list, rules, config, what, md, last, made>>

(* The most specific rule.                                                  *)
FirstRule(d, s) ==
    IF d.sev[s].actions # Unspecified THEN d.sev[s].actions
    ELSE IF d.all.actions # Unspecified THEN d.all.actions
    ELSE rules[s].actions

(* The most specific limit, and the counter that goes with it.              *)
FirstLimit(d, s, sevRule) ==
    IF d.sev[s].limit # NoLimit THEN d.sev[s]
    ELSE IF d.all.limit # NoLimit THEN d.all
    ELSE sevRule

(* A limit of 0 switches the limit off, as none does at the last level.     *)
Reached(rule) == rule.limit > 0 /\ rule.calls >= rule.limit

Result(d, s, sevRule) ==
    ((FirstRule(d, s) \ suppress_mask) \cup force_mask)
        \cup IF Reached(FirstLimit(d, s, sevRule)) THEN {Stop} ELSE {}

(* A mistake: the counter of the message type is left out.                  *)
CountSeverity(d, s, n) == [d EXCEPT !.sev[s].calls = n[1] + 1]

Counted(d, s, n) == [d EXCEPT !.sev[s].calls = n[1] + 1, !.all.calls = n[2] + 1]

(* ... and written, and execute() returns the actions for the handler.      *)
Store(r) ==
    /\ at[r] = "count"
    /\ LET s == what[r][2]
           d == Counted(def[md[r]], s, seen[r])
           sevRule == [rules[s] EXCEPT !.calls = seen[r][3] + 1]
       IN  /\ def' = [def EXCEPT ![md[r]] = d]
           /\ rules' = [rules EXCEPT ![s] = sevRule]
           /\ last' = <<what[r][1], s, Result(d, s, sevRule)>>
    /\ at' = [at EXCEPT ![r] = "idle"]
    /\ UNCHANGED <<next, messages, config, what, md, seen, made>>

-----------------------------------------------------------------------------
(* set_actions() and stop_after(), by sc_main: one field of the rule at one   *)
(* of the three levels gets a value.                                        *)
Set(t, s, level, field, value) ==
    IF level = "severity" THEN rules' = [rules EXCEPT ![s][field] = value] /\ UNCHANGED list
    ELSE LET found == Lookup(t)
             Change(d) == IF level = "type" THEN [d EXCEPT !.all[field] = value]
                          ELSE [d EXCEPT !.sev[s][field] = value]
         IN  /\ IF found # 0
                THEN def' = [def EXCEPT ![found] = Change(@)] /\ UNCHANGED <<next, messages>>
                ELSE /\ def' = Append(def, Change(NewDef(t)))
                     /\ next' = Append(next, messages)
                     /\ messages' = Len(def) + 1
             /\ UNCHANGED rules

Idle == \A r \in Reporter : at[r] = "idle"

SetRule ==
    /\ Idle /\ settings < MaxSettings
    /\ settings' = settings + 1
    /\ \E t \in Type, s \in Severity, level \in {"severity", "type", "both"} :
          \/ \E a \in Actions : Set(t, s, level, "actions", a)
          \/ \E n \in Limits : Set(t, s, level, "limit", n)
    /\ last' = <<>>
    /\ UNCHANGED <<suppress_mask, force_mask, reporting, made>>

(* suppress() and force()                                                   *)
Mask ==
    /\ Idle /\ settings < MaxSettings
    /\ settings' = settings + 1
    /\ suppress_mask' \in Actions /\ force_mask' \in Actions
    /\ last' = <<>>
    /\ UNCHANGED <<list, rules, reporting, made>>

Zero(d) == [d EXCEPT !.all.calls = 0, !.sev = [s \in Severity |-> [d.sev[s] EXCEPT !.calls = 0]]]

(* initialize() walks the list up to msg_terminator.                        *)
Initialize ==
    /\ MayReset /\ Idle
    /\ rules' = [s \in Severity |-> [rules[s] EXCEPT !.calls = 0]]
    /\ def' = [n \in DOMAIN def |-> IF n > Cardinality(Predefined) THEN Zero(def[n]) ELSE def[n]]
    /\ made' = <<>>
    /\ last' = <<>>
    /\ UNCHANGED <<next, messages, config, reporting>>

Next ==
    \/ \E r \in Reporter :
        \/ \E t \in Type, s \in Severity : Start(r, t, s)
        \/ Add(r) \/ Link(r) \/ Load(r) \/ Store(r)
    \/ SetRule \/ Mask \/ Initialize

Spec == Init /\ [][Next]_vars

-----------------------------------------------------------------------------
RuleType == [actions : Actions, limit : Limits \cup {NoLimit}, calls : 0 .. MaxReports]

TypeOK ==
    /\ \A n \in DOMAIN def : /\ def[n].type \in Type
                             /\ def[n].all \in RuleType
                             /\ def[n].sev \in [Severity -> RuleType]
    /\ DOMAIN next = DOMAIN def
    /\ \A n \in DOMAIN next : next[n] \in 0 .. Len(def)
    /\ messages \in 0 .. Len(def)
    /\ rules \in [Severity -> RuleType]
    /\ suppress_mask \in Actions /\ force_mask \in Actions
    /\ at \in [Reporter -> {"idle", "add", "link", "execute", "count"}]
    /\ what \in [Reporter -> Type \X Severity]
    /\ md \in [Reporter -> 0 .. Len(def)]
    /\ settings \in 0 .. MaxSettings

(* Every message type has one definition, and it can be found: counters and  *)
(* rules of a type are in one place.                                        *)
RegisteredOnce ==
    Idle => /\ InList = DOMAIN def
            /\ \A n, k \in InList : def[n].type = def[k].type => n = k

Reports(S) == Cardinality({n \in DOMAIN made : made[n] \in S})
CountOf(t, Get(_)) == IF Lookup(t) = 0 THEN 0 ELSE Get(def[Lookup(t)])

(* The counters that get_count() returns are the reports made since the      *)
(* start or the last initialize() ("just reset counters",                   *)
(* sc_report_handler.h:100; "just increment counters",                      *)
(* sc_report_handler.cpp:227).                                              *)
CountsExact ==
    Idle => \A s \in Severity :
        /\ rules[s].calls = Reports(Type \X {s})
        /\ \A t \in Type :
              /\ CountOf(t, LAMBDA d : d.sev[s].calls) = Reports({<<t, s>>})
              /\ CountOf(t, LAMBDA d : d.all.calls) = Reports({t} \X Severity)

(* What is done about a report follows from what was set and from how many   *)
(* there were: the rule for its type and severity goes before that for its   *)
(* type and this before that for its severity, and so do limits; masks       *)
(* override rules, and a limit that is reached overrides masks.             *)
ActionsFollow ==
    Idle /\ last # <<>> =>
        LET t == last[1]  s == last[2]
            d == def[Lookup(t)]
            scopes == <<[rule |-> d.sev[s], of |-> {<<t, s>>}],
                        [rule |-> d.all, of |-> {t} \X Severity],
                        [rule |-> rules[s], of |-> Type \X {s}]>>
            Foremost(Given(_)) == {n \in 1 .. 3 : Given(scopes[n]) /\ \A k \in 1 .. n - 1 : ~Given(scopes[k])}
            asked == UNION {scopes[n].rule.actions :
                                n \in Foremost(LAMBDA c : c.rule.actions # Unspecified)}
            full == \E n \in Foremost(LAMBDA c : c.rule.limit # NoLimit) :
                        scopes[n].rule.limit \in 1 .. Reports(scopes[n].of)
        IN  \A a \in Action \cup {Stop} :
                a \in last[3] <=> \/ a = Stop /\ full
                                  \/ a \in force_mask
                                  \/ a \in asked /\ a \notin suppress_mask

(* "Note that SC_FATAL has a limit of 1 by default"                          *)
(* (sc_report_handler.cpp:679), so that the first such report stops the      *)
(* simulation.                                                              *)
FatalStops ==
    settings = 0 /\ last # <<>> => (last[2] = Fatal => Stop \in last[3])
=============================================================================
