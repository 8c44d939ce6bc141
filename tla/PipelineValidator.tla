-------------------------- MODULE PipelineValidator --------------------------
(***************************************************************************)
(* PipelineValidator of internal/pipeline/validator.go: what it says of    *)
(* the stages that a builder holds.                                        *)
(***************************************************************************)
EXTENDS PipelineBuilder

CONSTANT MaxStages     \* PipelineValidator.maxStages

BadStages(list) ==
  IF list = <<>> \/ Len(list) > MaxStages THEN {"stages"}
  ELSE {"type" : i \in {j \in DOMAIN list : ~list[j].known}}

MissingDependencies(list) ==
  {"depends_on" : p \in {q \in (DOMAIN list) \X Names :
      q[2] \in Range(DependsOn(list[q[1]])) /\ \A j \in DOMAIN list : list[j].name # q[2]}}

\* The map from names keeps the last stage of a name; unknown names have no edge.
IndexOf(list, name) ==
  CHOOSE i \in DOMAIN list : list[i].name = name /\ \A j \in (i + 1) .. Len(list) : list[j].name # name

Graph(list) ==
  [i \in DOMAIN list |->
    LET deps == SelectSeq(DependsOn(list[i]), LAMBDA d : \E j \in DOMAIN list : list[j].name = d)
    IN  [k \in DOMAIN deps |-> IndexOf(list, deps[k])]]

\* MUTANT: a stage that was left counts as one that is being visited.
OnPath_Seen(color) == color # 0

OnPath(color) == color = 1

\* The search from u, whose neighbours before the k-th are done.
RECURSIVE Dfs(_, _, _, _)
Dfs(graph, u, k, st) ==
  IF k > Len(graph[u]) THEN [st EXCEPT !.color[u] = 2]
  ELSE LET v == graph[u][k] IN
       IF OnPath(st.color[v]) THEN [st EXCEPT !.cycle = TRUE]
       ELSE Dfs(graph, u, k + 1,
              IF st.color[v] = 0 THEN Dfs(graph, v, 1, [st EXCEPT !.color[v] = 1]) ELSE st)

DetectCycles(list) ==
  LET graph == Graph(list)
      Root(st, i) == IF st.cycle \/ st.color[i] # 0 THEN st
                     ELSE Dfs(graph, i, 1, [st EXCEPT !.color[i] = 1])
  IN  FoldLeft(Root, [color |-> [i \in DOMAIN list |-> 0], cycle |-> FALSE],
               [i \in DOMAIN list |-> i]).cycle

SameNames(list) == \E i, j \in DOMAIN list : i < j /\ list[i].name = list[j].name

\* Kinds of errors of a list of stages; timeouts are part of a stage's type here.
StageErrors(list) ==
  BadStages(list) \cup MissingDependencies(list)
    \cup (IF DetectCycles(list) THEN {"cycle"} ELSE {})
    \cup (IF SameNames(list) THEN {"name"} ELSE {})

\* The stages are not those of the builder: a models.Pipeline holds none.
GetStagesFromPipeline == <<>>

ValidatePipeline(b) ==
  (IF builder[b].config THEN {} ELSE {"config"}) \cup StageErrors(GetStagesFromPipeline)
-----------------------------------------------------------------------------
(* detectCycles (validator.go:196-242) finds a cycle exactly when some     *)
(* stage reaches itself over dependencies on names, the last stage of a    *)
(* name standing for all of them.                                          *)
CycleErrorExact ==
  \A b \in DOMAIN builder :
    LET list == builder[b].stages
        g == Graph(list)
        Hop(S) == S \cup UNION {Range(g[i]) : i \in S}
        Reach(i) == FoldLeft(LAMBDA S, j : Hop(S), Range(g[i]), [j \in DOMAIN list |-> j])
    IN  DetectCycles(list) <=> \E i \in DOMAIN list : i \in Reach(i)

(* A list of stages without an error is accepted once it is built:         *)
(* "expected valid pipeline" (validator_test.go:56).                       *)
ValidIsAccepted ==
  \A b \in DOMAIN builder :
    (Build(b) /\ builder[b].config /\ StageErrors(builder[b].stages) = {})
      => ValidatePipeline(b) = {}
=============================================================================
