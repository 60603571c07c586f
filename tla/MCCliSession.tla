----------------------------- MODULE MCCliSession -----------------------------
(***************************************************************************)
(* Every invocation with up to two tables, two outputs and two threads.     *)
(***************************************************************************)
EXTENDS CliSession

Good == [makeable |-> TRUE, algorithm |-> "auto", same |-> FALSE, sample |-> FALSE,
         failOn |-> "any"]

Jobs == { j \in JobType : j.algorithm = "auto" \/ ~j.same }

(* A table of a config file has no sample, and either algorithm will do. *)
TableJobs == { j \in Jobs : ~j.sample /\ ~j.same /\ j.algorithm = "auto" }

DiffCalls ==
  [cmd : {"diff"}, config : {"good"}, jobs : { << j >> : j \in Jobs }, threads : {1, 2},
   outputs : { << "terminal" >>, << "json" >>, << "json", "no_path" >>, << "terminal", "html" >> }]

ExplainCalls ==
  [cmd : {"explain"}, config : {"good"}, jobs : { << Good >>, << [Good EXCEPT !.makeable = FALSE] >> },
   threads : {1}, outputs : { << "terminal" >> }]

RunCalls ==
  [cmd : {"run"}, config : {"good", "refused", "malformed"},
   jobs : { << j >> : j \in TableJobs } \cup { << j, k >> : j, k \in TableJobs },
   threads : {1}, outputs : { << "terminal" >> }]

TestCalls ==
  [cmd : {"test"}, config : {"good", "refused", "malformed"},
   jobs : { << Good >>, << [Good EXCEPT !.makeable = FALSE] >> },
   threads : {1}, outputs : { << >> }]

AllCalls == DiffCalls \cup ExplainCalls \cup RunCalls \cup TestCalls
===============================================================================
