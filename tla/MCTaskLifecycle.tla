-------------------------- MODULE MCTaskLifecycle --------------------------
(* Model checking TaskLifecycle: two tasks, two handlers, two requests and *)
(* one custom status, with a rule for each way a status changes: what      *)
(* leaves todo becomes done, and what is completed goes into review, which *)
(* may have been deleted.  The rules make more changes than there are      *)
(* requests, so a task can be completed, reopened and completed again.     *)
EXTENDS TaskLifecycle

MCRules ==
  [trigger \in Triggers |->
     CASE trigger = "status_changed" ->
            <<[when |-> {[op |-> "is_not", value |-> "todo"]}, set |-> <<"done">>]>>
       [] trigger = "task_completed" ->
            <<[when |-> {[op |-> "is_not", value |-> "review"]}, set |-> <<"review">>]>>
       [] OTHER -> <<>>]
=============================================================================
