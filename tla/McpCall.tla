------------------------------- MODULE McpCall -------------------------------
(***************************************************************************)
(* A tool call of huly-mcp: HulyMcpServer::record_tool around the steps of *)
(* the tool's body, and the audit records it publishes.                    *)
(*                                                                         *)
(* Every call is a task.  todo[c] is what it still has to do, one step per *)
(* await of the code; a step that fails is the `?` of the code: the rest   *)
(* of the body is skipped and the failure is recorded.  Steps of           *)
(* different calls interleave.                                             *)
(***************************************************************************)
EXTENDS Transactor

CONSTANT Calls  \* the tool calls, concurrent; a call is its own request_id

ASSUME CallsAssumption == IsFiniteSet(Calls)

VARIABLES
    plan,     \* the calls (tool and arguments), the bridges, the bound on failures, if sync is set up
    todo,     \* the steps each call has left
    loc,      \* its local variables
    outcome,  \* what it returned
    trail,    \* history: the audit records and transactions of each call, in order
    faults    \* bound: failures of the environment that may still happen

callVars == <<todo, loc, outcome>>

NoLocals == [tries |-> << >>, attempt |-> 0, doc |-> None, sequence |-> 0, first |-> 0,
             left |-> {}, got |-> {}]

Running == [state |-> "running", why |-> "", code |-> "", value |-> None]

Arg(c) == plan.call[c]

At(c, step) == todo[c] # << >> /\ Head(todo[c]) = step

(***************************************************************************)
(* Ends of a step: on to the next one, with other steps before it, the     *)
(* result of the body, or its failure.  `code` is what the error record    *)
(* carries: only errors that reach record_tool as FactoryError or          *)
(* ClientError keep theirs, those turned into text are plain.              *)
(***************************************************************************)
Plain == "mcp:tool:error"

Become(c, steps, locals) ==
    /\ todo' = [todo EXCEPT ![c] = steps \o Tail(@)]
    /\ loc' = [loc EXCEPT ![c] = locals]
    /\ UNCHANGED outcome

Proceed(c) == Become(c, << >>, NoLocals)

Return(c, value) ==
    /\ todo' = [todo EXCEPT ![c] = <<"completed">>]
    /\ loc' = [loc EXCEPT ![c] = NoLocals]
    /\ outcome' = [outcome EXCEPT ![c] =
                    [state |-> "ok", why |-> "", code |-> "", value |-> value]]

FailWith(c, why, code, value) ==
    /\ todo' = [todo EXCEPT ![c] = <<"completed", "error">>]
    /\ loc' = [loc EXCEPT ![c] = NoLocals]
    /\ outcome' = [outcome EXCEPT ![c] =
                    [state |-> "err", why |-> why, code |-> code, value |-> value]]

Fail(c, why) == FailWith(c, why, Plain, None)

Fault ==
    /\ faults > 0
    /\ faults' = faults - 1

-----------------------------------------------------------------------------
(* Audit records. *)

Record(c, entry) == trail' = [trail EXCEPT ![c] = Append(@, entry)]

(* publish() swallows a failure: the record is lost, the tool goes on. *)
Publish(c, entry) ==
    /\ \/ Record(c, entry) /\ UNCHANGED faults
       \/ Fault /\ UNCHANGED trail
    /\ todo' = [todo EXCEPT ![c] = Tail(@)]
    /\ UNCHANGED <<loc, outcome>>

(* Mutant: what an operator changes is left out. *)
ChangedFieldsPlain(ops) == DOMAIN ops.set

(* Fields of an update: the plain ones and those under an operator ($inc). *)
ChangedFields(ops) == DOMAIN ops.set \cup ops.inc

(* `tracker:class:Issue` becomes `tracker.issue`; a MasterTag keeps its id. *)
AuditClass(class) ==
    CASE class = "Issue" -> "tracker.issue"
      [] class = "Project" -> "tracker.project"
      [] class = "Component" -> "tracker.component"
      [] OTHER -> class

(* The action record, huly.mcp.action.<class>.<op>. *)
ActionRecord(class, op, fields) ==
    [rec |-> "action", class |-> class, op |-> op, fields |-> fields]

ToolInvoked(c) ==
    /\ At(c, "invoked")
    /\ Publish(c, [rec |-> "invoked"])

ToolCompleted(c) ==
    /\ At(c, "completed")
    /\ Publish(c, [rec |-> outcome[c].state])

ErrorRecord(c) ==
    /\ At(c, "error")
    /\ Publish(c, [rec |-> "error", code |-> outcome[c].code])

(* record_tool: the body between the records; Return and FailWith put the closing ones. *)
RecordTool(body) == <<"invoked">> \o body
=============================================================================
