--------------------------- MODULE MCServerQueue ---------------------------
(* Instances of ServerQueue: two slots, three clients.                     *)
EXTENDS ServerQueue

CONSTANTS a, b, c3, s1, s2

Completion(slots, stream) == [kind |-> "completion", slots |-> slots, stream |-> stream]
Metrics   == [kind |-> "metrics", slots |-> <<AnySlot>>, stream |-> FALSE]
Action(s) == [kind |-> "action", slots |-> <<s>>, stream |-> FALSE]
NoRequest == Completion(<<>>, FALSE)

Scenario(x, y, z, fails) ==
  [req |-> [c \in {a, b, c3} |-> CASE c = a -> x [] c = b -> y [] c = c3 -> z],
   fails |-> fails]

(* Completions only, all of which can be launched: any number is deferred. *)
(* Else no more than one task is ever deferred.                            *)
ServedScenarios ==
  {Scenario(Completion(<<s1>>, FALSE), Completion(<<s1, s1>>, FALSE), NoRequest, FALSE),
   Scenario(Completion(<<s1>>, TRUE), Completion(<<s1>>, FALSE), NoRequest, TRUE),
   Scenario(Completion(<<AnySlot>>, FALSE), Action(s1), Metrics, TRUE)}

(* A completion runs; two others wait for its slot, and the first of them  *)
(* is refused.                                                             *)
StuckScenarios ==
  {Scenario(Completion(<<s1>>, FALSE), Completion(<<s1>>, FALSE),
            Completion(<<s1>>, FALSE), TRUE)}

=============================================================================
