--------------------------- MODULE PipelineBuilder ---------------------------
(***************************************************************************)
(* PipelineBuilder of internal/pipeline/builder.go: a builder and its      *)
(* clone.                                                                  *)
(*                                                                         *)
(* A stage name is a number: n stands for the name AddStage makes up for   *)
(* the n-th stage, which a caller may also give, and 0 for no name.  The   *)
(* dependencies of a stage are a Go slice, an array and a length, because  *)
(* Clone copies the slice and not the array.                               *)
(***************************************************************************)
EXTENDS Naturals, SequencesExt

CONSTANTS
  Templates,     \* stages a caller adds: name, type known, Optional, MaxRetry, DependsOn
  MaxAdded,      \* bound: stages in a builder
  MaxCalls       \* bound: calls of the builders

ASSUME BuilderAssumption ==
  Templates \subseteq [name : Nat, known : BOOLEAN, optional : BOOLEAN, retry : Nat, deps : Seq(Nat)]

VARIABLES
  builder,       \* the builders that exist
  array,         \* the arrays behind the DependsOn slices
  calls

builderVars == <<builder, array, calls>>

\* The first stage of that name.
Named(list, name) ==
  {i \in DOMAIN list : list[i].name = name /\ \A j \in 1 .. (i - 1) : list[j].name # name}

\* config: the validator accepts it, or not.
Fresh == [stages |-> <<>>, errors |-> FALSE, config |-> TRUE]

BuilderInit ==
  /\ builder = [b \in {"own"} |-> Fresh]
  /\ array = <<>> /\ calls = 0

Call(b) ==
  /\ calls < MaxCalls /\ calls' = calls + 1
  /\ b \in DOMAIN builder
-----------------------------------------------------------------------------
(* The builder *)

\* SetName, SetStatus, SetMaxRetries, SetTimeout, SetConcurrency, SetPriority
\* refuse some values, for good; WithConfig and WithConfigModifier refuse none.
Configure(b) ==
  /\ Call(b)
  /\ \/ builder' = [builder EXCEPT ![b].errors = TRUE]
     \/ \E ok \in BOOLEAN : builder' = [builder EXCEPT ![b].config = ok]
  /\ UNCHANGED array

\* want: history, the dependencies this builder was asked for; spare: history, see
\* Clone.  The slice a stage comes with has an array of its own, if it has one, and
\* no room.
AddStage(b, t) ==
  LET n == Len(builder[b].stages) + 1
      own == t.deps # <<>>
      s == [name |-> IF t.name = 0 THEN n ELSE t.name, known |-> t.known, optional |-> t.optional,
            retry |-> t.retry, at |-> IF own THEN Len(array) + 1 ELSE 0, want |-> t.deps, spare |-> {}]
  IN  /\ Call(b) /\ n <= MaxAdded
      /\ builder' = [builder EXCEPT ![b].stages = Append(@, s)]
      /\ array' = IF own THEN Append(array, [cap |-> Len(t.deps), cells |-> t.deps]) ELSE array

DependsOn(s) == IF s.at = 0 THEN <<>> ELSE SubSeq(array[s.at].cells, 1, Len(s.want))

\* MUTANT: append(dependsOn, stage.DependsOn...).
Added_First(s, dep) == <<dep>> \o DependsOn(s)

Added(s, dep) == Append(DependsOn(s), dep)

\* append writes into the array when that has room, over what another slice put
\* there, and into a copy of twice the size when it has not.
Room(s) == s.at # 0 /\ Len(s.want) < array[s.at].cap
Grown(s, dep) == [cap |-> IF s.at = 0 THEN 1 ELSE 2 * array[s.at].cap, cells |-> Added(s, dep)]
Written(s, dep) ==
  [array[s.at] EXCEPT !.cells = Added(s, dep) \o SubSeq(@, Len(s.want) + 2, Len(@))]

Depend(b, i, dep, list) ==
  LET s == list[i]
      room == Room(s)
  IN  /\ array' = IF room THEN [array EXCEPT ![s.at] = Written(s, dep)]
                          ELSE Append(array, Grown(s, dep))
      /\ builder' = [builder EXCEPT ![b].stages = [list EXCEPT
           ![i] = [s EXCEPT !.want = Append(@, dep), !.at = IF room THEN @ ELSE Len(array) + 1]]]

\* WithStageDependency of one name; a stage that does not exist is ignored.
WithStageDependency(b, name, dep) ==
  /\ Call(b)
  /\ \E i \in Named(builder[b].stages, name) : Depend(b, i, dep, builder[b].stages)

\* The places of the array of s that are still free.
Free(s) == IF s.at = 0 THEN {} ELSE (Len(s.want) + 1) .. array[s.at].cap

\* The stages are copied, their arrays are not: spare has the places that were free.
Clone ==
  LET list == builder["own"].stages
      both == [i \in DOMAIN list |-> [list[i] EXCEPT !.spare = Free(list[i])]]
  IN  /\ Call("own") /\ DOMAIN builder = {"own"}
      /\ builder' = [b \in {"own", "clone"} |-> [builder["own"] EXCEPT !.stages = both]]
      /\ UNCHANGED array

Reset(b) ==
  /\ Call(b)
  /\ builder' = [builder EXCEPT ![b] = Fresh]
  /\ UNCHANGED array

Names == {t.name : t \in Templates} \ {0}

Builds ==
  \E b \in {"own", "clone"} :
    \/ Configure(b) \/ Reset(b) \/ (b = "clone" /\ Clone)
    \/ \E t \in Templates : AddStage(b, t)
    \/ \E n, d \in Names : WithStageDependency(b, n, d)

\* Build and BuildWithStages answer.
Build(b) == ~builder[b].errors /\ builder[b].stages # <<>>
-----------------------------------------------------------------------------
(* A stage depends on what its builder was asked for, in that order,       *)
(* except at places that were free in its array when Clone copied it       *)
(* (builder.go:261-274): there builder and clone append into one array,    *)
(* and the later call overwrites the earlier one's entry.                  *)
DependenciesAsAsked ==
  \A b \in DOMAIN builder : \A i \in DOMAIN builder[b].stages :
    LET s == builder[b].stages[i] IN
    Len(DependsOn(s)) = Len(s.want) /\ \A k \in DOMAIN s.want \ s.spare : DependsOn(s)[k] = s.want[k]
=============================================================================
