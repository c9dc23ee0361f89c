----------------------------- MODULE MCMcpSystem -----------------------------
(***************************************************************************)
(* One instance for TLC of everything on the way of a tool call: its steps *)
(* (McpServer), and the four parts below and before it that share no state *)
(* with them and with each other: the clients' handling of answers (Wire), *)
(* the start of the two processes (Startup), the names of card types       *)
(* (SchemaResolver) and markdown (Markdown).  A behaviour follows one of   *)
(* the five, the others rest.                                              *)
(***************************************************************************)
EXTENDS MCMcpServer, Wire, Startup, SchemaResolver, Markdown

VARIABLE part   \* which of the five

mdAndNames == <<mdVars, schemaVars>>
systemVars == <<part, vars, wireVars, startupVars, mdAndNames>>

-----------------------------------------------------------------------------
(* What a service answers: results of every shape that some call expects,  *)
(* with and without the fields it needs, and error objects.                *)
SomeDoc(id) == Obj([id |-> Str(id), class |-> Str("k")])
Everything ==
    Obj([f \in {"uuid", "socialId", "localPerson", "domain", "token", "sent", "retryOn",
                "account", "endpoint", "id", "type"} |-> Str("x")])

MCPayloads ==
    {[result |-> v] : v \in
        {Null, Arr(<<>>), Arr(<<SomeDoc("d1"), SomeDoc("d2")>>), Arr(<<Obj([id |-> Str("d1")])>>),
         Obj([value |-> Arr(<<SomeDoc("d1")>>), total |-> Num(7), lookupMap |-> Null]),
         Obj([docs |-> Arr(<<SomeDoc("d1")>>), lookupMap |-> Str("l")]),
         Obj([total |-> Num(1)]), Str("id"),
         Obj([success |-> Bool(TRUE)]), Obj([success |-> Bool(FALSE)]), Everything}}
    \cup {[error |-> e] : e \in
        {Null, Obj([code |-> Str("c")]), Obj([code |-> Num(4), message |-> Str("m")]),
         Obj([code |-> Str("c"), message |-> Str(""), params |-> Obj([message |-> Str("p")])]),
         Obj([message |-> Str("m")]), Obj([code |-> Str("c"), message |-> Num(1)])}}

(* Names that clash within a kind and across the kinds, an empty one, none. *)
MCTagIds == {<<"t1">>, <<"t2">>}
MCAssocIds == {<<"a1">>}
MCRefreshers == {"r1", "r2"}
MCTagAttributes ==
    {Obj([label |-> Str(<<"A">>)]), Obj([label |-> Str(<<>>), name |-> Str(<<"B">>)])}
MCAssocAttributes == {Obj([nameA |-> Str(<<"A">>), label |-> Str(<<"C">>)]), Obj(<<>>)}
MCClassNames ==
    {<<"A">>, <<"B">>, <<"C">>, <<"t1">>, <<"a1">>, <<"x", "y">>, <<"x", "y", "z">>}

MCWorkspaces == {"w1", "w2"}
MCLifetimes == {U64Max \div 1000 + 1}

-----------------------------------------------------------------------------
NoCalls == One([tool |-> "huly_discover"], OneHolder, {}, FALSE, 0)
MCPlans == Situations \cup {[NoCalls EXCEPT !.call = <<>>]}

SystemInit ==
    \/ part = "calls" /\ Init /\ plan.call # <<>> /\ WireIdle /\ StartupIdle /\ SchemaIdle /\ MdInit
    \/ part = "wire" /\ Init /\ plan.call = <<>> /\ WireInit /\ StartupIdle /\ SchemaIdle /\ MdInit
    \/ part = "startup" /\ Init /\ plan.call = <<>> /\ WireIdle /\ StartupInit /\ SchemaIdle /\ MdInit
    \/ part = "names" /\ Init /\ plan.call = <<>> /\ WireIdle /\ StartupIdle /\ SchemaInit /\ MdInit
    \/ part = "markdown" /\ Init /\ plan.call = <<>> /\ WireIdle /\ StartupIdle /\ SchemaIdle /\ MdInit

SystemNext ==
    \/ part = "calls" /\ Next /\ UNCHANGED <<part, wireVars, startupVars, mdAndNames>>
    \/ part = "wire" /\ WireNext /\ UNCHANGED <<part, vars, startupVars, mdAndNames>>
    \/ part = "startup" /\ StartupNext /\ UNCHANGED <<part, vars, wireVars, mdAndNames>>
    \/ part = "names" /\ SchemaNext /\ UNCHANGED <<part, vars, wireVars, startupVars, mdVars>>
    \/ part = "markdown" /\ MdNext /\ UNCHANGED <<part, vars, wireVars, startupVars, schemaVars>>
    \/ part # "calls" /\ UNCHANGED systemVars

(* The fairness of Spec: a call with nothing left to do has no step. *)
Moving(c) == todo[c] # << >> /\ CallStep(c)

SystemSpec == SystemInit /\ [][SystemNext]_systemVars /\ \A c \in Calls : WF_vars(Moving(c))
=============================================================================
