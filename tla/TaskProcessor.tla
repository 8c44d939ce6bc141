--------------------------- MODULE TaskProcessor ----------------------------
(***************************************************************************)
(* DefaultProcessor of internal/worker/processor.go: the results that a    *)
(* run of a task can have.  A task is its type, whether its URL, SQL,      *)
(* script, command or input is missing, and whether its timeout is zero,   *)
(* which ends its context at once.  What a server answers and how a        *)
(* program ends is the environment's choice.                               *)
(***************************************************************************)
EXTENDS FiniteSetsExt, Sequences

Completed == [status |-> "completed", retryable |-> FALSE]
Failed(retryable) == [status |-> "failed", retryable |-> retryable]

IsRetryable(errorType) == errorType \in {"network", "timeout", "rate_limit", "resource"}

\* The words that classifyError looks for, in its order.
Classes == <<
  [words |-> {"timeout", "deadline"},    type |-> "timeout"],
  [words |-> {"connection", "network"},  type |-> "network"],
  [words |-> {"no rows", "not found"},   type |-> "validation"],
  [words |-> {"rate", "too many"},       type |-> "rate_limit"],
  [words |-> {"auth", "unauthorized"},   type |-> "auth"],
  [words |-> {"resource", "memory"},     type |-> "resource"] >>

\* text: those words that the error's message contains.
ClassifyError(text) ==
  LET hits == {i \in DOMAIN Classes : Classes[i].words \cap text # {}}
  IN  IF hits = {} THEN "internal" ELSE Classes[Min(hits)].type

\* An answer is an error of the request or of the body, or a status.
Answers(t) ==
  IF t.empty \/ t.expired THEN {"error"} ELSE {"error", "unread", "5xx", "429", "4xx", "2xx"}

ProcessHTTP(t) ==
  {CASE a \in {"error", "5xx", "429"} -> Failed(TRUE)
     [] a \in {"unread", "4xx"}       -> Failed(FALSE)
     [] a = "2xx"                     -> Completed : a \in Answers(t)}

ProcessGRPC(t) == {Failed(FALSE)}

\* executeSQL runs nothing and cannot fail.
ProcessSQL(t) == {IF t.empty THEN Failed(FALSE) ELSE Completed}

\* The messages with which sh ends in an error: "context deadline exceeded" if
\* it has not started; else a fork that failed, or "exit status n" and, for one
\* that ran out of time, "signal: killed", which hold none of the words.
RunErrors(t) == IF t.expired THEN {{"deadline"}} ELSE {{"resource"}, {"memory"}, {}}
RunEnds(t) == IF t.expired THEN {} ELSE {Completed}

ProcessScript(t) ==
  IF t.empty THEN {Failed(FALSE)}
  ELSE RunEnds(t) \cup {Failed(IsRetryable(ClassifyError(e))) : e \in RunErrors(t)}

\* Every error of a command is worth another run.
ProcessShell(t) ==
  IF t.empty THEN {Failed(FALSE)} ELSE RunEnds(t) \cup {Failed(TRUE)}

\* The input is part of the JSON that the handler has parsed.
ProcessTransform(t) == {Completed}

\* The results that ProcessTask can return, always with a nil error.
ProcessTask(t) ==
  CASE t.type \in {"http", "webhook"} -> ProcessHTTP(t)
    [] t.type = "grpc"      -> ProcessGRPC(t)
    [] t.type = "sql"       -> ProcessSQL(t)
    [] t.type = "script"    -> ProcessScript(t)
    [] t.type = "shell"     -> ProcessShell(t)
    [] t.type = "transform" -> ProcessTransform(t)
    [] OTHER                -> {Failed(FALSE)}
=============================================================================
