------------------------------ MODULE CliSession ------------------------------
(***************************************************************************)
(* One invocation of the command line, cli/main.py: `diff`, `explain`,      *)
(* `run` and `connections test`.  What it opens, retries, delivers, closes  *)
(* and finally returns.                                                     *)
(*                                                                          *)
(* A command is a sequence of jobs, one for all commands but `run`.  What a *)
(* comparison finds is the subject of HashDiff and JoinDiff: here it is any *)
(* of four findings, or an error.  Parsing of arguments and specs is       *)
(* whether the job's two connectors can be made.  A failed connect() leaves *)
(* its connector unconnected, close() of a driver does not raise, and the   *)
(* user does not interrupt.                                                 *)
(***************************************************************************)
EXTENDS Integers, Sequences, FiniteSets

CONSTANTS
  Calls,       \* the invocations
  Attempts     \* _CONNECT_RETRY_ATTEMPTS

Output == {"terminal", "json", "html", "no_path"}   \* no_path: html without --html-path

JobType == [makeable : BOOLEAN,              \* both specs parse, both engines exist
            algorithm : {"auto", "hashdiff", "joindiff"},
            same : BOOLEAN,                  \* both sides are one connection
            sample : BOOLEAN,
            failOn : {"any", "count", "none"}]

ASSUME CallAssumption ==
  \A c \in Calls :
    /\ c.cmd \in {"diff", "explain", "run", "test"}
    /\ c.config \in {"good", "refused", "malformed"}
    /\ c.jobs \in Seq(JobType) /\ c.jobs # << >> /\ (c.cmd # "run" => Len(c.jobs) = 1)
    /\ c.threads \in Nat
    /\ c.outputs \in Seq(Output)               \* only `diff` has --output
    /\ c.cmd # "diff" => c.outputs \in {<< >>, << "terminal" >>}

ASSUME AttemptsAssumption == Attempts \in Nat \ {0}

VARIABLES
  call,
  pc,          \* the part of the command that comes next
  job,         \* the number of the current job
  todo,        \* connectors not yet connected, in order
  attempt,     \* number of the next attempt to connect the first of them
  open,        \* connected connectors
  owned,       \* the connectors the `finally` block closes
  finding,     \* what the comparison found
  sent,        \* through which connectors it did so
  reports,     \* of each job, the outputs that are out
  code,        \* the worst exit code so far
  verdicts,    \* how each job ended: a finding or "failed"
  fails        \* history: how often each connector failed in a row

connecting == << todo, attempt, open, owned, fails >>
outcome == << finding, sent, reports, code, verdicts >>
vars == << call, pc, job, connecting, outcome >>

(* Are the counts the same; is any row missing, extra or changed?  While    *)
(* other sessions write, rows may agree although their counts do not.       *)
Findings == {"same", "rows_differ", "counts_differ", "both_differ"}

CountsEqual(found) == found \in {"same", "rows_differ"}

(* DiffResult.is_match *)
IsMatchMutant(found) == found \in {"same", "counts_differ"}   \* mutation: the rows alone

IsMatch(found) == found = "same"

Ended == {"returned", "crashed"}

Job == call.jobs[job]

WorseMutant(a, b) == b   \* mutation: the last job decides

Worse(a, b) == IF a >= b THEN a ELSE b

Elements(s) == { s[i] : i \in DOMAIN s }

-------------------------------------------------------------------------------
(* The connectors of a job in the order they are connected.  Only `diff`    *)
(* has --threads, and it fills both pools whichever algorithm will run.     *)
Connector == [side : {"source", "target"}, n : Nat]

Conn(side, n) == [side |-> side, n |-> n]

Connectors(c) ==
  LET pool(side) == [n \in 1..c.threads |-> Conn(side, n)]
      pair == << Conn("source", 0), Conn("target", 0) >>
  IN  CASE c.cmd = "test"                    -> << Conn("source", 0) >>
        [] c.cmd = "diff" /\ c.threads > 1   -> pair \o pool("source") \o pool("target")
        [] OTHER                             -> pair

(* resolve_algorithm *)
Algorithm(j) ==
  IF j.algorithm # "auto" THEN j.algorithm
  ELSE IF j.same THEN "joindiff" ELSE "hashdiff"

(* --fail-on *)
ExitCode(failOn, found) ==
  CASE failOn = "none"  -> 0
    [] failOn = "count" -> IF CountsEqual(found) THEN 0 ELSE 1
    [] failOn = "any"   -> IF IsMatch(found) THEN 0 ELSE 1

(* The hook that records SQL: _connect_pair installs it for `diff`, on the  *)
(* two connectors that are no pool's.                                       *)
LoggedMutant == {}   \* mutation: no hook

Logged == IF call.cmd = "diff" THEN sent \cap {"pair"} ELSE {}

(* What render_terminal, render_json and render_html state of a result (and *)
(* `explain`, which states nothing): the verdict, and the SQL if the output *)
(* has room for it.                                                         *)
ReportType == [verdict : {"MATCH", "DIFFERENT", "none"}, sql : SUBSET {"pair", "pool"}]

Report(output, found) ==
  [verdict |-> IF call.cmd = "explain" THEN "none"
               ELSE IF IsMatch(found) THEN "MATCH" ELSE "DIFFERENT",
   sql     |-> IF output = "terminal" THEN {} ELSE Logged]

-------------------------------------------------------------------------------
Init ==
  /\ call \in Calls
  /\ pc = IF call.cmd \in {"run", "test"} THEN "config" ELSE "make"
  /\ job = 1
  /\ todo = << >> /\ attempt = 1 /\ open = {} /\ owned = {}
  /\ fails = [c \in Elements(Connectors(call)) |-> 0]
  /\ finding = "none"
  /\ sent = {}
  /\ reports = [j \in DOMAIN call.jobs |-> << >>]
  /\ code = 0 /\ verdicts = << >>

(* An exception in the try block: exit code 2, by way of the `finally`.     *)
Fail ==
  /\ verdicts' = Append(verdicts, "failed")
  /\ code' = Worse(code, 2)
  /\ pc' = "close"

(* load_config reports what it checks for itself (an unreadable file, bad   *)
(* YAML, a missing variable, no tables, no such connection).  A file whose  *)
(* `connections` is no mapping raises something else, which nothing catches *)
(* and Python turns into exit status 1.                                     *)
ReadConfig ==
  /\ pc = "config"
  /\ CASE call.config = "good"      -> pc' = "make"     /\ code' = code
       [] call.config = "refused"   -> pc' = "returned" /\ code' = 2
       [] call.config = "malformed" -> pc' = "crashed"  /\ code' = 1
  /\ UNCHANGED << call, job, connecting, finding, sent, reports, verdicts >>

(* _make_connector for every connector _connect_pair begins with.  _run_one *)
(* _job and cmd_connections_test keep them in variables their `finally`     *)
(* sees at once; cmd_diff and cmd_explain only get _connect_pair's result.  *)
Make ==
  /\ pc = "make" /\ Job.makeable
  /\ pc' = "connect"
  /\ todo' = Connectors(call)
  /\ attempt' = 1
  /\ owned' = IF call.cmd \in {"run", "test"} THEN Elements(Connectors(call)) ELSE {}
  /\ fails' = [c \in DOMAIN fails |-> 0]
  /\ UNCHANGED << call, job, open, outcome >>

MakeFails ==
  /\ pc = "make" /\ ~Job.makeable
  /\ Fail
  /\ UNCHANGED << call, job, connecting, finding, sent, reports >>

(* _connect_with_retry *)
Connect ==
  /\ pc = "connect"
  /\ open' = open \cup {Head(todo)}
  /\ todo' = Tail(todo)
  /\ attempt' = 1
  /\ IF Len(todo) = 1 THEN pc' = "compare" /\ owned' = Elements(Connectors(call))
                      ELSE UNCHANGED << pc, owned >>
  /\ fails' = [fails EXCEPT ![Head(todo)] = 0]
  /\ UNCHANGED << call, job, outcome >>

ConnectFailsOnceMore ==   \* mutation: one attempt too many
  /\ pc = "connect"
  /\ fails' = [fails EXCEPT ![Head(todo)] = @ + 1]
  /\ IF attempt <= Attempts
     THEN attempt' = attempt + 1 /\ UNCHANGED << pc, code, verdicts >>
     ELSE Fail /\ UNCHANGED attempt
  /\ UNCHANGED << call, job, todo, open, owned, finding, sent, reports >>

ConnectFailsMutant ==   \* mutation: one attempt too few
  /\ pc = "connect"
  /\ fails' = [fails EXCEPT ![Head(todo)] = @ + 1]
  /\ IF attempt + 1 < Attempts
     THEN attempt' = attempt + 1 /\ UNCHANGED << pc, code, verdicts >>
     ELSE Fail /\ UNCHANGED attempt
  /\ UNCHANGED << call, job, todo, open, owned, finding, sent, reports >>

ConnectFailsForever ==   \* mutation: start over instead of giving up
  /\ pc = "connect"
  /\ attempt' = IF attempt < Attempts THEN attempt + 1 ELSE 1
  /\ UNCHANGED << call, pc, job, todo, open, owned, fails, outcome >>

ConnectFails ==
  /\ pc = "connect"
  /\ fails' = [fails EXCEPT ![Head(todo)] = @ + 1]
  /\ IF attempt < Attempts
     THEN attempt' = attempt + 1 /\ UNCHANGED << pc, code, verdicts >>
     ELSE Fail /\ UNCHANGED attempt
  /\ UNCHANGED << call, job, todo, open, owned, finding, sent, reports >>

-------------------------------------------------------------------------------
(* joindiff does not sample. *)
Refused ==
  call.cmd = "diff" /\ Algorithm(Job) = "joindiff" /\ Job.sample

Succeed(findings, senders) ==
  /\ pc = "compare"
  /\ finding' \in findings
  /\ sent' \in senders
  /\ pc' = "report"
  /\ UNCHANGED << call, job, connecting, reports, code, verdicts >>

(* run_joindiff or run_hashdiff, of `diff`: hashdiff with a pool sends the  *)
(* statements of its segments there, and finds two empty tables equal       *)
(* without a segment.                                                       *)
Compare ==
  /\ call.cmd = "diff" /\ ~Refused
  /\ IF Algorithm(Job) = "hashdiff" /\ call.threads > 1
     THEN Succeed(Findings, {{"pair", "pool"}}) \/ Succeed({"same"}, {{"pair"}})
     ELSE Succeed(Findings, {{"pair"}})

(* ... and of one table of `run`. *)
CompareTable == call.cmd = "run" /\ Succeed(Findings, {{"pair"}})

(* `explain` only reads the schemas; `connections test` sends SELECT 1.     *)
Explain == call.cmd = "explain" /\ Succeed({"same"}, {{"pair"}})

Test == call.cmd = "test" /\ Succeed({"same"}, {{"pair"}})

CompareFails ==
  /\ pc = "compare"
  /\ Fail
  /\ UNCHANGED << call, job, connecting, finding, sent, reports >>

(* The outputs one after the other, each of them printed or written. *)
MoreOutputs == pc = "report" /\ Len(reports[job]) < Len(call.outputs)

NextOutput == call.outputs[Len(reports[job]) + 1]

Deliver ==
  /\ MoreOutputs /\ NextOutput # "no_path"
  /\ reports' = [reports EXCEPT ![job] = Append(@, Report(NextOutput, finding))]
  /\ UNCHANGED << call, pc, job, connecting, finding, sent, code, verdicts >>

DeliverFailsMutant ==   \* mutation: an output that fails is skipped
  /\ MoreOutputs
  /\ verdicts' = Append(verdicts, finding)
  /\ code' = Worse(code, ExitCode(Job.failOn, finding))
  /\ pc' = "close"
  /\ UNCHANGED << call, job, connecting, finding, sent, reports >>

DeliverFails ==
  /\ MoreOutputs
  /\ Fail
  /\ UNCHANGED << call, job, connecting, finding, sent, reports >>

Judge ==
  /\ pc = "report" /\ Len(reports[job]) = Len(call.outputs)
  /\ verdicts' = Append(verdicts, finding)
  /\ code' = Worse(code, ExitCode(Job.failOn, finding))
  /\ pc' = "close"
  /\ UNCHANGED << call, job, connecting, finding, sent, reports >>

(* The `finally` block, and cmd_run's next table. *)
CloseMutant ==   \* mutation: the pools are not closed
  /\ pc = "close"
  /\ open' = (open \ owned) \cup { c \in open : c.n > 0 }
  /\ IF job < Len(call.jobs) THEN pc' = "make" /\ job' = job + 1
                             ELSE pc' = "returned" /\ job' = job
  /\ owned' = {}
  /\ UNCHANGED << call, todo, attempt, fails, outcome >>

Close ==
  /\ pc = "close"
  /\ open' = open \ owned
  /\ IF job < Len(call.jobs) THEN pc' = "make" /\ job' = job + 1
                             ELSE pc' = "returned" /\ job' = job
  /\ owned' = {}
  /\ UNCHANGED << call, todo, attempt, fails, outcome >>

Step ==
  \/ ReadConfig \/ Make \/ MakeFails \/ Connect \/ ConnectFails
  \/ Compare \/ CompareTable \/ Explain \/ Test \/ CompareFails
  \/ Deliver \/ DeliverFails \/ Judge \/ Close

Terminated == pc \in Ended /\ UNCHANGED vars

Next == Step \/ Terminated

Spec == Init /\ [][Next]_vars

(* A single thread that always goes on. *)
FairSpec == Spec /\ WF_vars(Step)

-------------------------------------------------------------------------------
TypeInv ==
  /\ call \in Calls
  /\ pc \in {"config", "make", "connect", "compare", "report", "close"} \cup Ended
  /\ job \in DOMAIN call.jobs
  /\ todo \in Seq(Connector) /\ (pc = "connect" => todo # << >>)
  /\ attempt \in 1..Attempts
  /\ open \subseteq Connector /\ owned \subseteq Connector
  /\ fails \in [Elements(Connectors(call)) -> 0..Attempts]
  /\ finding \in Findings \cup {"none"}
  /\ sent \subseteq {"pair", "pool"}
  /\ reports \in [DOMAIN call.jobs -> Seq(ReportType)]
  /\ code \in 0..2
  /\ verdicts \in Seq(Findings \cup {"failed"})

(* A comparison starts with every connection it may use, those of the pools *)
(* included, and no connection of one table of a `run` is left when the     *)
(* next begins or the command is over, however the table ended.  The one    *)
(* exception is a `diff` or `explain` that gave up connecting: its caller   *)
(* never learnt of the connectors that were connected before.               *)
ConnectionsBracketed ==
  /\ pc \in {"compare", "report"} => open = Elements(Connectors(call))
  /\ pc \in {"make"} \cup Ended =>
       open = {} \/ (call.cmd \in {"diff", "explain"} /\ todo # << >>)

Acceptable(j) ==
  CASE call.jobs[j].failOn = "any"   -> verdicts[j] = "same"
    [] call.jobs[j].failOn = "count" -> verdicts[j] \in {"same", "rows_differ"}
    [] call.jobs[j].failOn = "none"  -> verdicts[j] # "failed"

(* "0 match, 1 different, 2 could not compare": once the command returns,   *)
(* every table has been tried, whatever happened to those before it, and    *)
(* the exit code tells of the worst: no later success hides a failure, and  *)
(* no failure is taken for a difference.                                    *)
ExitCodeTruthful ==
  pc = "returned" =>
    IF verdicts = << >> THEN code = 2 /\ call.config = "refused"
    ELSE /\ Len(verdicts) = Len(call.jobs)
         /\ code = 2 <=> \E j \in DOMAIN verdicts : verdicts[j] = "failed"
         /\ code = 0 <=> \A j \in DOMAIN verdicts : Acceptable(j)

(* The reports and the exit code agree.  An exit code of 0 or 1 stands for  *)
(* reports that are complete: every output of every table is out (with 2    *)
(* some may be out all the same), and all of one table state one verdict.   *)
(* 1 is never returned over reports that say MATCH, whatever --fail-on; 0   *)
(* over one that says DIFFERENT only where --fail-on forgives it.  A report *)
(* with SQL shows none that was not sent, and all of it where no pool sent  *)
(* any: on the two main connectors the hook misses nothing.                 *)
States(j, verdict) ==
  \A n \in DOMAIN reports[j] : reports[j][n].verdict = verdict

ReportsAgree ==
  pc = "returned" /\ code # 2 /\ call.cmd \in {"diff", "run"} =>
    /\ \A j \in DOMAIN call.jobs :
         /\ Len(reports[j]) = Len(call.outputs)
         /\ States(j, "MATCH") \/ States(j, "DIFFERENT")
         /\ code = 0 /\ call.jobs[j].failOn = "any" => States(j, "MATCH")
    /\ code = 1 => \E j \in DOMAIN call.jobs : States(j, "DIFFERENT")
    /\ \A n \in DOMAIN reports[job] :
         call.outputs[n] # "terminal" =>
           reports[job][n].sql \subseteq sent /\ ("pool" \notin sent => reports[job][n].sql = sent)

(* SPEC.md:300: the JSON output "contains everything in the terminal output *)
(* plus every generated SQL statement", whichever connector it was sent     *)
(* through.                                                                 *)
JsonHoldsEveryStatement ==
  pc = "returned" /\ code # 2 /\ call.cmd = "diff" =>
    \A n \in DOMAIN reports[job] :
      call.outputs[n] = "json" => reports[job][n].sql = sent

(* A table is given up for want of a connection only after one connector    *)
(* failed to connect Attempts times in a row: a shorter outage, even one of *)
(* every server, is survived; and no server is tried more often.            *)
ShortOutagesSurvived ==
  pc \in {"close", "returned"} /\ todo # << >>
    => \/ fails[Head(todo)] = Attempts
       \/ ~Job.makeable

(* Every command ends, the config that crashes it included. *)
Ends == <>(pc \in Ended)
===============================================================================
