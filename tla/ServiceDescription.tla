------------------------- MODULE ServiceDescription -------------------------
(***************************************************************************)
(* What is read from a service description (SCPD): the introspection of    *)
(* gupnp-service-introspection.c, its values (gvalue-util.c), and what a   *)
(* GUPnPService makes of it when it arrives (gupnp-service.c): the list of *)
(* evented variables and the handlers found by name.                       *)
(*                                                                         *)
(* "" stands for an element that is missing, and <<>> for a missing value. *)
(* The text of a number n is <<n>>, another text is <<"word", text>>.       *)
(* Integers of the C types have Width bits and long has LongWidth.         *)
(***************************************************************************)
EXTENDS Integers, Sequences, FiniteSets, Lists

CONSTANTS
    Documents,     \* service descriptions
    Bits,          \* bits of i1, i2, i4, int, ui1, ui2, ui4
    Width, LongWidth,
    Numbers,       \* texts that are numbers
    Words,         \* texts that are not
    Symbols,       \* functions of the executable: prefix or postfix, and name
    UserData, MaxCalls,
    CamelNames     \* names as sequences of "U"pper, "l"ower case and "_"

VARIABLES
    scpd,          \* the description
    state,         \* introspection: pending, ready or failed
    pending_autoconnect,
    connected,     \* handlers connected to the service, in order
    state_variables, \* names of the evented variables
    autoconnects,  \* user data of the calls of signals_autoconnect()
    answer         \* the last question to the introspection

vars == <<scpd, state, pending_autoconnect, connected, state_variables,
          autoconnects, answer>>

NoAnswer == [call |-> "none"]
Null == [name |-> ""]

\* The elements of a description
Text == Numbers \cup Words \cup {<<>>}
ArgumentElements == [name : STRING, variable : STRING, direction : STRING]
ActionElements == [name : STRING, args : Seq(ArgumentElements)]
VariableElements ==
    [name : STRING, data_type : STRING, events_element : STRING, events : STRING,
     range : {<<>>} \cup (Text \X Text), default : Text]
IsDescription(doc) ==
    doc.actions \in Seq(ActionElements) /\ doc.variables \in Seq(VariableElements)

-----------------------------------------------------------------------------
(* Values: gvalue-util.c                                                   *)

Word(w) == <<"word", w>>
Wrap(n, bits) == ((n + 2 ^ (bits - 1)) % 2 ^ bits) - 2 ^ (bits - 1)
Clamp(n, low, high) == IF n < low THEN low ELSE IF n > high THEN high ELSE n
Atoi(text) == IF text \in Numbers THEN text[1] ELSE 0

Strtol(text) == Clamp(Atoi(text), -(2 ^ (LongWidth - 1)), 2 ^ (LongWidth - 1) - 1)
Strtoul(text) ==
    LET n == Atoi(text)
    IN IF n < 0 THEN n % 2 ^ LongWidth ELSE Clamp(n, 0, 2 ^ LongWidth - 1)

\* gvalue_util_set_value_from_string(): strings, and types that strings are
\* transformed to, take the text itself.
SetValueFromString(type, text) ==
    CASE type = "int"  -> Wrap(Strtol(text), Width)
      [] type = "uint" -> Strtoul(text) % 2 ^ Width
      [] type = "double" -> Atoi(text)
      [] type = "boolean" ->
             text \in {Word("true"), Word("yes")} \/
             (text \notin {Word("false"), Word("no")} /\ Atoi(text) # 0)
      [] OTHER -> text

\* gvalue_util_value_append_to_xml_string(), read back by an XML parser.
AppendToXml(type, value) ==
    CASE type \in {"int", "uint", "double"} -> <<value>>
      [] type = "boolean" -> <<IF value THEN 1 ELSE 0>>
      [] OTHER -> value

-----------------------------------------------------------------------------
(* Parsing: gupnp-service-introspection.c                                  *)

Signed == {"i1", "i2", "i4", "int"}
Unsigned == {"ui1", "ui2", "ui4"}
Floating == {"r4", "r8", "number", "fixed.14.4"}
\* gupnp_data_type_to_gtype(); the types it knows behave as strings.
StringLike == {"string", "char", "UUID", "URI", "date", "dateTime", "time",
               "dateTime.tz", "time.tz", "bin.base64", "bin.hex"}

TypeOf(data_type) ==
    CASE data_type \in Signed     -> "int"
      [] data_type \in Unsigned   -> "uint"
      [] data_type \in Floating   -> "double"
      [] data_type = "boolean"    -> "boolean"
      [] data_type \in StringLike -> "string"
      [] OTHER                    -> "invalid"

IsNumeric(data_type) == TypeOf(data_type) \in {"int", "uint", "double"}

\* set_variable_type(): the limits before the description is looked at; those of a
\* floating type are beyond every number here.
InitialLimits(data_type) ==
    CASE data_type \in Signed   -> <<-(2 ^ (Bits[data_type] - 1)), 2 ^ (Bits[data_type] - 1) - 1>>
      [] data_type \in Unsigned -> <<0, 2 ^ Bits[data_type] - 1>>
      [] data_type \in Floating -> <<-(2 ^ (LongWidth + 1)), 2 ^ (LongWidth + 1)>>
      [] OTHER -> <<>>

\* A faulty variant: the range of a description is not read.
LimitsOfType(v) == InitialLimits(v.data_type)

\* set_variable_limits(): minimum and maximum.
Limits(v) ==
    LET set(i) == IF v.range = <<>> \/ v.range[i] = <<>>
                  THEN InitialLimits(v.data_type)[i]
                  ELSE SetValueFromString(TypeOf(v.data_type), v.range[i])
    IN IF IsNumeric(v.data_type) THEN <<set(1), set(2)>> ELSE <<>>

\* get_state_variable(): the element "sendEventsAttribute" hides the attribute.
SendEvents(v) == (IF v.events_element # "" THEN v.events_element ELSE v.events) = "yes"

VariableInfo(v) ==
    [name |-> v.name, type |-> TypeOf(v.data_type), send_events |-> SendEvents(v),
     limits |-> Limits(v),
     default |-> IF v.default = <<>> THEN <<>>
                 ELSE <<SetValueFromString(TypeOf(v.data_type), v.default)>>]

\* get_state_variables(): variables without name or with no known type are dropped.
StateVariables ==
    LET known == Among(scpd.variables, {v \in Range(scpd.variables) :
                           v.name # "" /\ TypeOf(v.data_type) # "invalid"})
    IN [i \in DOMAIN known |-> VariableInfo(known[i])]

\* get_action_arguments()
Arguments(args) ==
    LET whole == Among(args, {a \in Range(args) : "" \notin {a.name, a.variable, a.direction}})
    IN [i \in DOMAIN whole |->
           [name |-> whole[i].name, variable |-> whole[i].variable,
            direction |-> IF whole[i].direction = "in" THEN "in" ELSE "out"]]

\* get_actions()
Actions ==
    LET named == Among(scpd.actions, {a \in Range(scpd.actions) : a.name # ""})
    IN [i \in DOMAIN named |-> [name |-> named[i].name, arguments |-> Arguments(named[i].args)]]

\* construct_introspection_info()
Introspectable == Actions # <<>> \/ StateVariables # <<>>

NamesIn(infos) == [i \in DOMAIN infos |-> infos[i].name]

\* g_list_find_custom()
Find(infos, name) ==
    LET i == Position(infos, {info \in Range(infos) : info.name = name})
    IN IF i = 0 THEN Null ELSE infos[i]

GetStateVariable(name) == Find(StateVariables, name)

\* gupnp_service_introspection_get_action() asks whether there are variables.
GetAction(name) == IF StateVariables = <<>> THEN Null ELSE Find(Actions, name)

-----------------------------------------------------------------------------
(* The service: gupnp-service.c                                            *)

\* Room that strip_camel_case() allocates, and the characters it writes: one for
\* each of the name, underscores, and the end.
Room(name) == 2 * Len(name)
Underscores(name) ==
    {i \in DOMAIN name : /\ name[i] = "U" /\ i # 1 /\ i # Len(name)
                         /\ name[i - 1] \notin {"_", "U"}}
Written(name) == Len(name) + Cardinality(Underscores(name)) + 1

\* find_callback_by_name(): on_<name>, else <name>_cb.
CallbacksOf(name) == {s \in Symbols : s.name = name}

\* connect_names_to_signal_handlers()
Connect(names, signal, prefix, data) ==
    LET found == Among(names, {n \in Range(names) : CallbacksOf(<<prefix, n>>) # {}})
        function(n) == IF \E s \in CallbacksOf(<<prefix, n>>) : s.form = "on"
                       THEN "on" ELSE "cb"
    IN [i \in DOMAIN found |-> [signal |-> signal, detail |-> found[i],
                                function |-> function(found[i]), data |-> data]]

ConnectAll(data) ==
    Connect(NamesIn(Actions), "action-invoked", "", data) \o
    Connect(NamesIn(StateVariables), "query-variable", "query", data)

\* gupnp_service_signals_autoconnect()
Autoconnect(data) ==
    /\ Len(autoconnects) < MaxCalls
    /\ autoconnects' = Append(autoconnects, data)
    /\ IF state = "ready"
       THEN connected' = connected \o ConnectAll(data) /\ UNCHANGED pending_autoconnect
       ELSE pending_autoconnect' = <<data>> \o pending_autoconnect /\ UNCHANGED connected
    /\ UNCHANGED <<scpd, state, state_variables, answer>>

\* A faulty variant: the calls that wait are handled as the list has them.
PendingAsListed == pending_autoconnect

PendingInOrder == Reverse(pending_autoconnect)

\* got_introspection(): a description that cannot be loaded, or has neither actions
\* nor variables, fails and leaves the calls waiting.
GotIntrospection(loaded) ==
    /\ state = "pending"
    /\ IF loaded /\ Introspectable
       THEN /\ state' = "ready"
            /\ connected' = FlattenSeq([i \in DOMAIN PendingInOrder |->
                                            ConnectAll(PendingInOrder[i])])
            /\ pending_autoconnect' = <<>>
            /\ state_variables' =
                   Reverse(NamesIn(Among(StateVariables,
                                 {v \in Range(StateVariables) : v.send_events})))
       ELSE /\ state' = "failed"
            /\ UNCHANGED <<connected, pending_autoconnect, state_variables>>
    /\ UNCHANGED <<scpd, autoconnects, answer>>

Init ==
    /\ scpd \in Documents
    /\ state = "pending"
    /\ pending_autoconnect = <<>> /\ connected = <<>> /\ state_variables = <<>>
    /\ autoconnects = <<>> /\ answer = NoAnswer

Asked(a) ==
    /\ answer = NoAnswer /\ answer' = a
    /\ UNCHANGED <<scpd, state, pending_autoconnect, connected, state_variables,
                   autoconnects>>

AllNames == Range(NamesIn(scpd.actions)) \cup Range(NamesIn(scpd.variables))

AskName(name) ==
    /\ state = "ready"
    /\ Asked([call |-> "names", name |-> name, action |-> GetAction(name),
              variable |-> GetStateVariable(name)])

\* gvalue_util_set_value_from_string() and back, as values travel.
AskValue(type, text) ==
    LET value == SetValueFromString(type, text)
    IN Asked([call |-> "value", type |-> type, value |-> <<value>>,
              back |-> <<SetValueFromString(type, AppendToXml(type, value))>>])

AskStripped(name) ==
    Asked([call |-> "strip", name |-> name, room |-> Room(name), written |-> Written(name)])

Next ==
    \/ \E data \in UserData : Autoconnect(data)
    \/ \E loaded \in BOOLEAN : GotIntrospection(loaded)
    \/ \E name \in AllNames : AskName(name)
    \/ \E type \in {"int", "uint", "double", "boolean", "string"},
          text \in Numbers \cup Words : AskValue(type, text)
    \/ \E name \in CamelNames : AskStripped(name)

Spec == Init /\ [][Next]_vars

-----------------------------------------------------------------------------
(* Correctness                                                             *)

TypeOK ==
    /\ scpd \in Documents
    /\ state \in {"pending", "ready", "failed"}
    /\ Range(pending_autoconnect) \cup Range(autoconnects) \subseteq UserData
    /\ \A i \in DOMAIN connected : connected[i].data \in UserData
    /\ Range(state_variables) \subseteq Range(NamesIn(scpd.variables))
    /\ answer.call \in {"none", "names", "value", "strip"}

\* Calls of gupnp_service_signals_autoconnect() take effect in the order they were
\* made, each once, whether they came before the description or after it; calls
\* that wait are lost only if there is no description.
ConnectedInOrder ==
    LET handled == FlattenSeq([i \in DOMAIN autoconnects |-> ConnectAll(autoconnects[i])])
    IN IF state = "ready" THEN connected = handled /\ pending_autoconnect = <<>>
       ELSE connected = <<>> /\ Len(pending_autoconnect) = Len(autoconnects)

\* What gupnp_service_introspection_get_state_variable() finds is what the list of
\* the names has; for a service with variables the same holds for actions.
LookupAgrees ==
    answer.call = "names" =>
        /\ answer.variable # Null <=> answer.name \in Range(NamesIn(StateVariables))
        /\ StateVariables # <<>> =>
               (answer.action # Null <=> answer.name \in Range(NamesIn(Actions)))

\* "Returns the action by the name @action_name in this service" (line 983 of
\* gupnp-service-introspection.c).
ActionFound ==
    answer.call = "names" =>
        (answer.action # Null <=> answer.name \in Range(NamesIn(Actions)))

\* A value survives being written to XML and read again, at every width.
RoundTrip == answer.call = "value" => answer.back = answer.value

\* The limits of a numeric variable are what the description says, as long as its
\* integer type can hold it.
LimitsAsDescribed ==
    (answer.call = "names" /\ answer.variable # Null) =>
        \A i \in DOMAIN scpd.variables :
            LET v == scpd.variables[i]
                fits(n) == IF TypeOf(v.data_type) = "int"
                           THEN n \in -(2 ^ (Width - 1)) .. 2 ^ (Width - 1) - 1
                           ELSE n \in 0 .. 2 ^ Width - 1
            IN (/\ v.name = answer.name /\ answer.variable = VariableInfo(v)
                /\ TypeOf(v.data_type) \in {"int", "uint"} /\ v.range # <<>>) =>
                   \A k \in 1 .. 2 : (v.range[k] \in Numbers /\ fits(v.range[k][1])) =>
                                         answer.variable.limits[k] = v.range[k][1]

\* The name that a handler is looked up by fits the memory allocated for it, for
\* every name of at least one character.
StripFits ==
    (answer.call = "strip" /\ answer.name # <<>>) => answer.written <= answer.room
=============================================================================
