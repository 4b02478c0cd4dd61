----------------------------- MODULE MCEvaluateTo -----------------------------
(* EvaluateTo with a few transposers.                                      *)
EXTENDS EvaluateTo

Program(init, input, scheduled, interpolate) ==
  [h \in Handlers |-> CASE h = "init"      -> init
                        [] h = "input"     -> input
                        [] h = "scheduled" -> scheduled
                        [] h = "interpolate" -> interpolate]

\* The one of evaluate_to/test.rs; one whose inputs plan events and which asks twice; one whose
\* handler reads its inputs twice, and which neither waits nor asks.
MCPrograms ==
  {Program(<<"plan", "ask", "wait">>, <<"count", "emit", "ask", "wait">>,
           <<"plan", "count", "emit", "ask", "wait">>, <<"ask", "wait">>),
   Program(<<"wait">>, <<"ask", "count", "plan", "plan", "ask", "emit">>,
           <<"emit", "ask", "count">>, <<"ask", "ask">>),
   Program(<<"count", "emit", "plan">>, <<"count", "plan", "count", "emit">>, <<"count", "emit">>,
           <<>>)}
=============================================================================
