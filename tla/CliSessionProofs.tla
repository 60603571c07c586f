--------------------------- MODULE CliSessionProofs ---------------------------
(***************************************************************************)
(* Proofs about CliSession, for any calls with any number of tables,        *)
(* threads and outputs, and any number of attempts.                         *)
(***************************************************************************)
EXTENDS CliSession, TLAPS

(* Every job that is over has a verdict, and no other. *)
Progress ==
  /\ pc = "config" => job = 1
  /\ pc \in {"config", "make", "connect", "compare", "report"}
       => Len(verdicts) = job - 1
  /\ pc = "close" => Len(verdicts) = job
  /\ pc = "returned" =>
       \/ verdicts = << >> /\ code = 2 /\ call.config = "refused"
       \/ job = Len(call.jobs) /\ Len(verdicts) = job

(* The connectors that are still to be connected, and those a `finally`     *)
(* block knows of.                                                          *)
UsesConfig == call.cmd \in {"run", "test"}

Lost == ~UsesConfig /\ todo # << >>

Bracket ==
  /\ pc = "config" => todo = << >>
  /\ pc \in {"config", "make"} => open = {} /\ owned = {}
  /\ pc = "connect" =>
       /\ open \cup Elements(todo) = Elements(Connectors(call))
       /\ owned = IF UsesConfig THEN Elements(Connectors(call)) ELSE {}
  /\ pc \in {"compare", "report"} =>
       /\ todo = << >>
       /\ open = Elements(Connectors(call)) /\ owned = Elements(Connectors(call))
  /\ pc = "close" => (open \subseteq owned) \/ Lost
  /\ pc \in Ended => open = {} \/ Lost

(* Each connector waits once; the attempt is one more than the failures of  *)
(* the first, and those behind it have not failed.                          *)
Retries ==
  /\ pc = "connect" =>
       /\ \A i, k \in DOMAIN todo : todo[i] = todo[k] => i = k
       /\ attempt = fails[Head(todo)] + 1
       /\ \A i \in DOMAIN todo : i # 1 => fails[todo[i]] = 0
  /\ pc = "close" /\ todo # << >> => fails[Head(todo)] = Attempts \/ ~Job.makeable
  /\ pc = "returned" /\ todo # << >> => fails[Head(todo)] = Attempts \/ ~Job.makeable

(* A command that has gone past its configuration has the worst code of     *)
(* the jobs that are over.                                                  *)
Worst ==
  /\ pc = "report" => finding \in Findings
  /\ \/ pc = "crashed"
     \/ pc = "returned" /\ verdicts = << >>
     \/ /\ code = 2 <=> \E j \in DOMAIN verdicts : verdicts[j] = "failed"
        /\ code = 0 <=> \A j \in DOMAIN verdicts : Acceptable(j)

(* What the reports of a table state follows from its verdict; a table that *)
(* has not come so far has none.                                            *)
Says(found) == IF IsMatch(found) THEN "MATCH" ELSE "DIFFERENT"

ListsSql ==
  \A n \in DOMAIN reports[job] :
    call.outputs[n] # "terminal" => reports[job][n].sql = sent \ {"pool"}

Told ==
  call.cmd \in {"diff", "run"} =>
    /\ \A j \in DOMAIN call.jobs :
         (j > Len(verdicts) /\ (j = job => pc # "report")) => reports[j] = << >>
    /\ pc = "report" =>
         Len(reports[job]) <= Len(call.outputs) /\ States(job, Says(finding)) /\ ListsSql
    /\ \A j \in DOMAIN verdicts :
         verdicts[j] # "failed" => Len(reports[j]) = Len(call.outputs) /\ States(j, Says(verdicts[j]))
    /\ pc \in {"close", "returned"} /\ Len(verdicts) = job /\ verdicts[job] # "failed" => ListsSql

Invariants == TypeInv /\ Progress /\ Bracket /\ Retries /\ Worst /\ Told

-------------------------------------------------------------------------------
(* The calls and their connectors. *)
LEMMA CallFacts ==
  ASSUME NEW c \in Calls
  PROVE  /\ c.cmd \in {"diff", "explain", "run", "test"}
         /\ c.config \in {"good", "refused", "malformed"}
         /\ c.jobs \in Seq(JobType) /\ Len(c.jobs) \in Nat \ {0}
         /\ DOMAIN c.jobs = 1..Len(c.jobs)
         /\ \A j \in 1..Len(c.jobs) : c.jobs[j].failOn \in {"any", "count", "none"}
         /\ c.cmd # "run" => Len(c.jobs) = 1
         /\ c.outputs \in Seq(Output) /\ Len(c.outputs) \in Nat
         /\ c.cmd # "diff" => c.outputs \in {<< >>, << "terminal" >>}
<1>1. /\ c.jobs \in Seq(JobType) /\ c.jobs # << >>
      /\ c.outputs \in Seq(Output)
  BY CallAssumption
<1>2. \A j \in 1..Len(c.jobs) : c.jobs[j] \in JobType
  BY <1>1
<1>3. \A j \in 1..Len(c.jobs) : c.jobs[j].failOn \in {"any", "count", "none"}
  BY <1>2 DEF JobType
<1> QED
  BY <1>1, <1>3, CallAssumption

LEMMA FunctionSeq ==
  ASSUME NEW n \in Nat, NEW S, NEW s \in [1..n -> S]
  PROVE  s \in Seq(S) /\ Len(s) = n
  OBVIOUS

LEMMA Joined ==
  ASSUME NEW S, NEW s \in Seq(S), NEW t \in Seq(S)
  PROVE  /\ s \o t \in Seq(S)
         /\ Len(s \o t) = Len(s) + Len(t)
         /\ \A i \in 1..(Len(s) + Len(t)) :
              /\ i <= Len(s) => (s \o t)[i] = s[i]
              /\ i > Len(s) => (s \o t)[i] = t[i - Len(s)]
  OBVIOUS

LEMMA PoolConnectors ==
  ASSUME NEW c \in Calls, c.cmd = "diff" /\ c.threads > 1
  PROVE  /\ Connectors(c) \in Seq(Connector)
         /\ Len(Connectors(c)) = 2 + c.threads + c.threads
         /\ \A i \in 1..Len(Connectors(c)) :
              Connectors(c)[i] =
                IF i = 1 THEN Conn("source", 0)
                ELSE IF i = 2 THEN Conn("target", 0)
                ELSE IF i <= 2 + c.threads THEN Conn("source", i - 2)
                ELSE Conn("target", i - (2 + c.threads))
<1> DEFINE T == c.threads
           pair == << Conn("source", 0), Conn("target", 0) >>
           src == [n \in 1..T |-> Conn("source", n)]
           tgt == [n \in 1..T |-> Conn("target", n)]
<1>1. T \in Nat
  BY CallAssumption
<1>2. Connectors(c) = pair \o src \o tgt
  BY DEF Connectors
<1>3. /\ pair \in Seq(Connector) /\ Len(pair) = 2
      /\ pair[1] = Conn("source", 0) /\ pair[2] = Conn("target", 0)
  BY DEF Conn, Connector
<1>4. /\ src \in Seq(Connector) /\ Len(src) = T
      /\ \A n \in 1..T : src[n] = Conn("source", n)
  <2>1. \A n \in 1..T : Conn("source", n) \in Connector
    BY <1>1 DEF Conn, Connector
  <2>2. src \in [1..T -> Connector]
    BY <2>1
  <2> HIDE DEF T
  <2>3. src \in Seq(Connector) /\ Len(src) = T
    BY <1>1, <2>2, FunctionSeq
  <2> QED
    BY <2>3
<1>5. /\ tgt \in Seq(Connector) /\ Len(tgt) = T
      /\ \A n \in 1..T : tgt[n] = Conn("target", n)
  <2>1. \A n \in 1..T : Conn("target", n) \in Connector
    BY <1>1 DEF Conn, Connector
  <2>2. tgt \in [1..T -> Connector]
    BY <2>1
  <2> HIDE DEF T
  <2>3. tgt \in Seq(Connector) /\ Len(tgt) = T
    BY <1>1, <2>2, FunctionSeq
  <2> QED
    BY <2>3
<1> HIDE DEF T, pair, src, tgt
<1>6. /\ pair \o src \in Seq(Connector) /\ Len(pair \o src) = 2 + T
      /\ \A i \in 1..(2 + T) :
           /\ i <= 2 => (pair \o src)[i] = pair[i]
           /\ i > 2 => (pair \o src)[i] = src[i - 2]
  <2>1. /\ pair \o src \in Seq(Connector)
        /\ Len(pair \o src) = Len(pair) + Len(src)
        /\ \A i \in 1..(Len(pair) + Len(src)) :
              /\ i <= Len(pair) => (pair \o src)[i] = pair[i]
              /\ i > Len(pair) => (pair \o src)[i] = src[i - Len(pair)]
    <3>1. pair \in Seq(Connector) /\ src \in Seq(Connector)
      BY <1>3, <1>4
    <3> QED
      BY <3>1, Joined, ZenonT(60)
  <2>2. Len(pair) = 2 /\ Len(src) = T
    BY <1>3, <1>4
  <2> QED
    BY <2>1, <2>2
<1> DEFINE both == pair \o src
<1> HIDE DEF both
<1>9. both \in Seq(Connector) /\ Len(both) = 2 + T /\ 2 + T \in Nat
  BY <1>1, <1>6 DEF both
<1>7. /\ both \o tgt \in Seq(Connector) /\ Len(both \o tgt) = 2 + T + T
      /\ \A i \in 1..(2 + T + T) :
           /\ i <= 2 + T => (both \o tgt)[i] = both[i]
           /\ i > 2 + T => (both \o tgt)[i] = tgt[i - (2 + T)]
  <2>1. /\ both \o tgt \in Seq(Connector)
        /\ Len(both \o tgt) = Len(both) + Len(tgt)
        /\ \A i \in 1..(Len(both) + Len(tgt)) :
              /\ i <= Len(both) => (both \o tgt)[i] = both[i]
              /\ i > Len(both) => (both \o tgt)[i] = tgt[i - Len(both)]
    <3>1. both \in Seq(Connector) /\ tgt \in Seq(Connector)
      BY <1>5, <1>9
    <3> QED
      BY <3>1, Joined, ZenonT(60)
  <2>2. Len(both) = 2 + T /\ Len(tgt) = T
    BY <1>5, <1>9
  <2> QED
    BY <2>1, <2>2
<1>8. \A i \in 1..(2 + T + T) :
        (both \o tgt)[i] =
          IF i = 1 THEN Conn("source", 0)
          ELSE IF i = 2 THEN Conn("target", 0)
          ELSE IF i <= 2 + T THEN Conn("source", i - 2)
          ELSE Conn("target", i - (2 + T))
  <2> TAKE i \in 1..(2 + T + T)
  <2>1. CASE i <= 2
    <3>1. (both \o tgt)[i] = pair[i]
      BY <1>1, <1>6, <1>7, <2>1 DEF both
    <3> QED
      BY <1>3, <2>1, <3>1
  <2>2. CASE i > 2 /\ i <= 2 + T
    BY <1>1, <1>4, <1>6, <1>7, <2>2 DEF both
  <2>3. CASE i > 2 + T
    BY <1>1, <1>5, <1>7, <2>3
  <2>4. i <= 2 \/ (i > 2 /\ i <= 2 + T) \/ i > 2 + T
    BY <1>1
  <2> QED
    BY <2>1, <2>2, <2>3, <2>4, Zenon
<1> QED
  BY <1>2, <1>7, <1>8 DEF both, T

LEMMA ConnectorsFacts ==
  ASSUME NEW c \in Calls
  PROVE  /\ Connectors(c) \in Seq(Connector) /\ Connectors(c) # << >>
         /\ \A i, k \in DOMAIN Connectors(c) : Connectors(c)[i] = Connectors(c)[k] => i = k
<1>1. CASE c.cmd = "diff" /\ c.threads > 1
  <2>1. c.threads \in Nat
    BY CallAssumption
  <2>2. /\ Connectors(c) \in Seq(Connector)
        /\ Len(Connectors(c)) = 2 + c.threads + c.threads
    BY <1>1, PoolConnectors
  <2> SUFFICES ASSUME NEW i \in 1..(2 + c.threads + c.threads),
                      NEW k \in 1..(2 + c.threads + c.threads),
                      Connectors(c)[i] = Connectors(c)[k]
               PROVE  i = k
    BY <2>1, <2>2
  <2> DEFINE side(n) == IF n = 1 \/ (n > 2 /\ n <= 2 + c.threads) THEN "source" ELSE "target"
             number(n) == IF n <= 2 THEN 0
                          ELSE IF n <= 2 + c.threads THEN n - 2 ELSE n - (2 + c.threads)
  <2>3. \A n \in 1..(2 + c.threads + c.threads) : Connectors(c)[n] = Conn(side(n), number(n))
    <3> TAKE n \in 1..(2 + c.threads + c.threads)
    <3>1. Connectors(c)[n] =
            IF n = 1 THEN Conn("source", 0)
            ELSE IF n = 2 THEN Conn("target", 0)
            ELSE IF n <= 2 + c.threads THEN Conn("source", n - 2)
            ELSE Conn("target", n - (2 + c.threads))
      BY <1>1, <2>2, PoolConnectors
    <3> QED
      BY <2>1, <3>1
  <2>4. Conn(side(i), number(i)) = Conn(side(k), number(k))
    BY <2>3
  <2>5. side(i) = side(k) /\ number(i) = number(k)
    <3> HIDE DEF side, number
    <3> QED
      BY <2>4 DEF Conn
  <2>6. (i = 1 \/ (i > 2 /\ i <= 2 + c.threads)) <=> (k = 1 \/ (k > 2 /\ k <= 2 + c.threads))
    BY <2>5
  <2> QED
    BY <2>1, <2>5, <2>6
<1>2. CASE ~(c.cmd = "diff" /\ c.threads > 1)
  <2>1. \/ Connectors(c) = << Conn("source", 0) >>
        \/ Connectors(c) = << Conn("source", 0), Conn("target", 0) >>
    BY <1>2 DEF Connectors
  <2>2. /\ Conn("source", 0) \in Connector /\ Conn("target", 0) \in Connector
        /\ Conn("source", 0) # Conn("target", 0)
    BY DEF Conn, Connector
  <2>3. CASE Connectors(c) = << Conn("source", 0) >>
    BY <2>2, <2>3
  <2>4. CASE Connectors(c) = << Conn("source", 0), Conn("target", 0) >>
    BY <2>2, <2>4
  <2> QED
    BY <2>1, <2>3, <2>4
<1> QED
  BY <1>1, <1>2

LEMMA HeadAndTail ==
  ASSUME NEW S, NEW s \in Seq(S), s # << >>
  PROVE  /\ Len(s) \in Nat \ {0} /\ Head(s) = s[1] /\ Head(s) \in Elements(s)
         /\ Head(s) \in S
         /\ Tail(s) \in Seq(S) /\ DOMAIN Tail(s) = 1..(Len(s) - 1)
         /\ \A i \in 1..(Len(s) - 1) : Tail(s)[i] = s[i + 1] /\ i + 1 \in DOMAIN s
         /\ Elements(s) = {Head(s)} \cup Elements(Tail(s))
         /\ Len(s) = 1 => Elements(Tail(s)) = {} /\ Tail(s) = << >>
         /\ Len(s) # 1 => Tail(s) # << >>
<1>1. Len(s) \in Nat \ {0} /\ DOMAIN s = 1..Len(s) /\ Head(s) = s[1] /\ Head(s) \in S
  OBVIOUS
<1>2. /\ Tail(s) \in Seq(S) /\ DOMAIN Tail(s) = 1..(Len(s) - 1)
      /\ \A i \in 1..(Len(s) - 1) : Tail(s)[i] = s[i + 1] /\ i + 1 \in DOMAIN s
  OBVIOUS
<1>3. ASSUME NEW x \in Elements(s) PROVE x \in {Head(s)} \cup Elements(Tail(s))
  <2>1. PICK i \in 1..Len(s) : x = s[i]
    BY <1>1, <1>3 DEF Elements
  <2>2. CASE i = 1
    BY <1>1, <2>1, <2>2
  <2>3. CASE i # 1
    <3>1. i - 1 \in 1..(Len(s) - 1) /\ (i - 1) + 1 = i
      BY <1>1, <2>1, <2>3
    <3>2. x = Tail(s)[i - 1]
      BY <1>2, <2>1, <3>1
    <3> QED
      BY <1>2, <3>1, <3>2 DEF Elements
  <2> QED
    BY <2>2, <2>3
<1>4. ASSUME NEW x \in {Head(s)} \cup Elements(Tail(s)) PROVE x \in Elements(s)
  BY <1>1, <1>2, <1>4 DEF Elements
<1>5. Len(s) = 1 => Elements(Tail(s)) = {} /\ Tail(s) = << >>
  BY <1>1, <1>2 DEF Elements
<1>6. ASSUME Len(s) # 1 PROVE Tail(s) # << >>
  <2>1. 1 \in DOMAIN Tail(s)
    BY <1>1, <1>2, <1>6
  <2>2. ~ 1 \in DOMAIN << >>
    OBVIOUS
  <2> QED
    BY <2>1, <2>2
<1>7. Head(s) \in Elements(s)
  BY <1>1 DEF Elements
<1> QED
  BY <1>1, <1>2, <1>3, <1>4, <1>5, <1>6, <1>7

LEMMA WorseType ==
  ASSUME NEW a \in 0..2, NEW b \in 0..2
  PROVE  /\ Worse(a, b) \in 0..2
         /\ Worse(a, b) = 2 <=> a = 2 \/ b = 2
         /\ Worse(a, b) = 0 <=> a = 0 /\ b = 0
  BY DEF Worse

LEMMA ExitCodeType ==
  ASSUME NEW found, NEW failOn \in {"any", "count", "none"}
  PROVE  ExitCode(failOn, found) \in {0, 1}
  BY DEF ExitCode

-------------------------------------------------------------------------------
(* A comparison sends its statements through the connectors it has. *)
LEMMA Compared ==
  ASSUME Compare \/ CompareTable \/ Explain \/ Test
  PROVE  /\ pc = "compare" /\ pc' = "report"
         /\ finding' \in Findings /\ sent' \subseteq {"pair", "pool"}
         /\ UNCHANGED << call, job, connecting, reports, code, verdicts >>
         /\ call.cmd = "run" => sent' = {"pair"}
<1> USE DEF Succeed, Findings
<1>1. CASE Compare
  BY <1>1 DEF Compare
<1>2. CASE CompareTable
  BY <1>2 DEF CompareTable
<1>3. CASE Explain
  BY <1>3 DEF Explain
<1>4. CASE Test
  BY <1>4 DEF Test
<1> QED
  BY <1>1, <1>2, <1>3, <1>4

LEMMA TypeInit == Init => TypeInv /\ Bracket /\ Retries
<1> SUFFICES ASSUME Init PROVE TypeInv /\ Bracket /\ Retries
  OBVIOUS
<1> USE AttemptsAssumption DEF Init
<1>1. /\ call.jobs \in Seq(JobType) /\ Len(call.jobs) \in Nat \ {0}
      /\ DOMAIN call.jobs = 1..Len(call.jobs)
  BY CallFacts
<1>2. reports \in [DOMAIN call.jobs -> Seq(ReportType)]
  BY <1>1
<1>3. todo \in Seq(Connector) /\ verdicts \in Seq(Findings \cup {"failed"})
  OBVIOUS
<1>4. TypeInv
  BY <1>1, <1>2, <1>3 DEF TypeInv
<1>5. Bracket
  BY DEF Bracket, Ended
<1>6. Retries
  BY DEF Retries
<1> QED
  BY <1>4, <1>5, <1>6

LEMMA ReadOutcome ==
  ASSUME TypeInv, ReadConfig
  PROVE  /\ pc' \in {"make", "returned", "crashed"} /\ code' \in 0..2
         /\ pc' = "make" => code' = code
         /\ pc' = "returned" => code' = 2 /\ call.config = "refused"
<1>1. call.config \in {"good", "refused", "malformed"}
  BY CallFacts DEF TypeInv
<1>2. CASE call.config = "good"
  BY <1>2 DEF ReadConfig, TypeInv
<1>3. CASE call.config = "refused"
  BY <1>3 DEF ReadConfig
<1>4. CASE call.config = "malformed"
  BY <1>4 DEF ReadConfig
<1> QED
  BY <1>1, <1>2, <1>3, <1>4

(* What an action leaves alone keeps its type; what is left are these. *)
LEMMA TypeStep == TypeInv /\ Bracket /\ Retries /\ Worst /\ Next => TypeInv'
<1> SUFFICES ASSUME TypeInv, Bracket, Retries, Worst, Next PROVE TypeInv'
  OBVIOUS
<1> USE DEF TypeInv, Ended
<1>0. call' = call
  <2>1. CASE Compare \/ CompareTable \/ Explain \/ Test
    BY <2>1, Compared
  <2> QED
    BY <2>1 DEF Next, Step, ReadConfig, Make, MakeFails, Connect, ConnectFails, CompareFails,
                Deliver, DeliverFails, Judge, Close, Terminated, vars
<1>1. /\ DOMAIN call.jobs = 1..Len(call.jobs) /\ Len(call.jobs) \in Nat \ {0}
      /\ call.config \in {"good", "refused", "malformed"}
      /\ Job.failOn \in {"any", "count", "none"}
      /\ call.outputs \in Seq(Output) /\ Len(call.outputs) \in Nat
  BY CallFacts DEF Job
<1>2. Fail => /\ verdicts' \in Seq(Findings \cup {"failed"})
              /\ code' \in 0..2 /\ pc' = "close"
  BY WorseType DEF Fail
<1>3. CASE ReadConfig
  <2>1. pc' \in {"make", "returned", "crashed"} /\ code' \in 0..2
    BY <1>3, ReadOutcome
  <2>2. UNCHANGED << call, job, connecting, finding, sent, reports, verdicts >>
    BY <1>3 DEF ReadConfig
  <2> QED
    BY <2>1, <2>2 DEF connecting
<1>4. CASE Make
  <2>1. /\ Connectors(call) \in Seq(Connector) /\ Connectors(call) # << >>
    BY ConnectorsFacts
  <2>2. Elements(Connectors(call)) \subseteq Connector
    BY <2>1 DEF Elements
  <2>3. fails' \in [Elements(Connectors(call)) -> 0..Attempts]
    <3>1. fails' = [c \in DOMAIN fails |-> 0]
      BY <1>4 DEF Make
    <3> QED
      BY <3>1, AttemptsAssumption
  <2>4. owned' \subseteq Connector
    BY <1>4, <2>2 DEF Make
  <2>5. /\ pc' = "connect" /\ todo' = Connectors(call) /\ attempt' \in 1..Attempts
        /\ UNCHANGED << call, job, open, finding, sent, reports, code, verdicts >>
    BY <1>4, AttemptsAssumption DEF Make, outcome
  <2> QED
    BY <2>1, <2>3, <2>4, <2>5
<1>5. CASE MakeFails
  BY <1>2, <1>5 DEF MakeFails, connecting
<1>6. CASE Connect
  <2>1. /\ todo \in Seq(Connector) /\ todo # << >>
    BY <1>6 DEF Connect
  <2>2. /\ Tail(todo) \in Seq(Connector) /\ Head(todo) \in Connector
        /\ Len(todo) # 1 => Tail(todo) # << >>
    BY <2>1, HeadAndTail
  <2>3. Elements(Connectors(call)) \subseteq Connector
    BY ConnectorsFacts DEF Elements
  <2>4. fails' \in [Elements(Connectors(call)) -> 0..Attempts]
    <3>1. fails' = [fails EXCEPT ![Head(todo)] = 0] /\ 0 \in 0..Attempts
      BY <1>6, AttemptsAssumption DEF Connect
    <3> QED
      BY <3>1
  <2>5. todo' \in Seq(Connector) /\ (pc' = "connect" => todo' # << >>)
    BY <1>6, <2>2 DEF Connect
  <2>6. open' \subseteq Connector /\ owned' \subseteq Connector
    BY <1>6, <2>2, <2>3 DEF Connect
  <2>7. /\ pc' \in {"connect", "compare"} /\ attempt' \in 1..Attempts
        /\ UNCHANGED << call, job, finding, sent, reports, code, verdicts >>
    BY <1>6, AttemptsAssumption DEF Connect, outcome
  <2> QED
    BY <2>4, <2>5, <2>6, <2>7
<1>7. CASE ConnectFails
  <2>1. /\ todo \in Seq(Connector) /\ todo # << >>
    BY <1>7 DEF ConnectFails
  <2>2. Head(todo) \in Elements(Connectors(call))
    BY <1>7, <2>1, HeadAndTail DEF ConnectFails, Bracket
  <2>3. attempt = fails[Head(todo)] + 1
    BY <1>7 DEF ConnectFails, Retries
  <2>4. fails' \in [Elements(Connectors(call)) -> 0..Attempts]
    BY <1>7, <2>2, <2>3, AttemptsAssumption DEF ConnectFails
  <2>5. /\ attempt' \in 1..Attempts /\ pc' \in {"connect", "close"}
        /\ code' \in 0..2 /\ verdicts' \in Seq(Findings \cup {"failed"})
    BY <1>2, <1>7, AttemptsAssumption DEF ConnectFails
  <2>6. UNCHANGED << call, job, todo, open, owned, finding, sent, reports >>
    BY <1>7 DEF ConnectFails
  <2> QED
    BY <1>7, <2>1, <2>4, <2>5, <2>6
<1>8. CASE Compare \/ CompareTable \/ Explain \/ Test
  BY <1>8, Compared DEF connecting
<1>9. CASE CompareFails
  BY <1>2, <1>9 DEF CompareFails, connecting
<1>10. CASE Deliver
  <2>1. /\ reports' = [reports EXCEPT ![job] = Append(@, Report(NextOutput, finding))]
        /\ pc' = "report"
        /\ UNCHANGED << call, pc, job, connecting, finding, sent, code, verdicts >>
    BY <1>10 DEF Deliver, MoreOutputs
  <2>2. Report(NextOutput, finding) \in ReportType
    BY DEF Report, ReportType, Logged
  <2>3. reports' \in [DOMAIN call.jobs -> Seq(ReportType)]
    BY <2>1, <2>2
  <2> QED
    BY <2>1, <2>3 DEF connecting
<1>11. CASE DeliverFails
  BY <1>2, <1>11 DEF DeliverFails, connecting
<1>12. CASE Judge
  <2>1. code' \in 0..2
    <3>1. ExitCode(Job.failOn, finding) \in 0..2
      BY <1>1, ExitCodeType
    <3> QED
      BY <1>12, <3>1, WorseType DEF Judge
  <2>2. finding \in Findings \cup {"failed"}
    BY <1>12 DEF Judge, Worst
  <2> QED
    BY <1>12, <2>1, <2>2 DEF Judge, connecting
<1>13. CASE Close
  <2>1. job' \in DOMAIN call'.jobs
    BY <1>0, <1>1, <1>13 DEF Close
  <2>2. pc' \in {"make", "returned"} /\ open' \subseteq Connector /\ owned' = {}
    BY <1>13 DEF Close
  <2>3. UNCHANGED << call, todo, attempt, fails, finding, sent, reports, code, verdicts >>
    BY <1>13 DEF Close, outcome
  <2> QED
    BY <2>1, <2>2, <2>3
<1>14. CASE Terminated
  BY <1>14 DEF Terminated, vars, connecting, outcome
<1> QED
  BY <1>3, <1>4, <1>5, <1>6, <1>7, <1>8, <1>9, <1>10, <1>11, <1>12, <1>13, <1>14 DEF Next, Step

-------------------------------------------------------------------------------
LEMMA JobFacts ==
  ASSUME TypeInv
  PROVE  /\ DOMAIN call.jobs = 1..Len(call.jobs) /\ Len(call.jobs) \in Nat \ {0}
         /\ job \in 1..Len(call.jobs)
         /\ Len(verdicts) \in Nat /\ DOMAIN verdicts = 1..Len(verdicts)
         /\ call.cmd \in {"diff", "explain", "run", "test"}
         /\ call.cmd # "run" => Len(call.jobs) = 1
  BY CallFacts DEF TypeInv

LEMMA MoreTables ==
  ASSUME TypeInv, job < Len(call.jobs)
  PROVE  call.cmd = "run"
<1>1. \A n \in Nat : \A j \in 1..n : j < n => n # 1
  OBVIOUS
<1>2. Len(call.jobs) \in Nat /\ job \in 1..Len(call.jobs)
  BY JobFacts
<1>3. Len(call.jobs) # 1
  BY <1>1, <1>2
<1> QED
  BY <1>3, JobFacts

LEMMA SameCall == Next => call' = call
<1> SUFFICES ASSUME Next PROVE call' = call
  OBVIOUS
<1>1. CASE Compare \/ CompareTable \/ Explain \/ Test
  BY <1>1, Compared
<1> QED
  BY <1>1 DEF Next, Step, ReadConfig, Make, MakeFails, Connect, ConnectFails, CompareFails,
              Deliver, DeliverFails, Judge, Close, Terminated, vars

(* One more verdict. *)
LEMMA OneMore ==
  ASSUME TypeInv, NEW v, verdicts' = Append(verdicts, v)
  PROVE  /\ Len(verdicts') = Len(verdicts) + 1
         /\ DOMAIN verdicts' = 1..(Len(verdicts) + 1)
         /\ \A j \in 1..Len(verdicts) : verdicts'[j] = verdicts[j]
         /\ verdicts'[Len(verdicts) + 1] = v
  BY DEF TypeInv

LEMMA ProgressStep == TypeInv /\ Progress /\ Next => Progress'
<1> SUFFICES ASSUME TypeInv, Progress, Next PROVE Progress'
  OBVIOUS
<1> USE SameCall, JobFacts DEF Progress
<1>1. Fail => /\ pc' = "close" /\ Len(verdicts') = Len(verdicts) + 1
  BY OneMore DEF Fail
<1>3. CASE ReadConfig
  <2>1. UNCHANGED << job, verdicts >> /\ pc = "config" /\ Len(verdicts) = 0
    BY <1>3 DEF ReadConfig
  <2>2. verdicts = << >>
    BY <2>1 DEF TypeInv
  <2> QED
    BY <1>3, <2>1, <2>2, ReadOutcome
<1>4. CASE Make
  BY <1>4 DEF Make, outcome
<1>5. CASE MakeFails
  BY <1>1, <1>5 DEF MakeFails
<1>6. CASE Connect
  BY <1>6 DEF Connect, outcome
<1>7. CASE ConnectFails
  <2>1. CASE attempt < Attempts
    BY <1>7, <2>1 DEF ConnectFails
  <2>2. CASE ~(attempt < Attempts)
    BY <1>1, <1>7, <2>2 DEF ConnectFails
  <2> QED
    BY <2>1, <2>2
<1>8. CASE Compare \/ CompareTable \/ Explain \/ Test
  BY <1>8, Compared
<1>9. CASE CompareFails
  BY <1>1, <1>9 DEF CompareFails
<1>10. CASE Deliver
  BY <1>10 DEF Deliver, MoreOutputs
<1>11. CASE DeliverFails
  BY <1>1, <1>11 DEF DeliverFails, MoreOutputs
<1>12. CASE Judge
  BY <1>12, OneMore DEF Judge
<1>13. CASE Close
  BY <1>13 DEF Close, outcome
<1>14. CASE Terminated
  BY <1>14 DEF Terminated, vars, outcome
<1> QED
  BY <1>3, <1>4, <1>5, <1>6, <1>7, <1>8, <1>9, <1>10, <1>11, <1>12, <1>13, <1>14 DEF Next, Step

LEMMA BracketStep == TypeInv /\ Bracket /\ Next => Bracket'
<1> SUFFICES ASSUME TypeInv, Bracket, Next PROVE Bracket'
  OBVIOUS
<1> USE SameCall, JobFacts DEF Bracket, UsesConfig, Lost, Ended
<1>1. Fail => pc' = "close"
  BY DEF Fail
<1>3. CASE ReadConfig
  BY <1>3, ReadOutcome DEF ReadConfig, connecting
<1>4. CASE Make
  <2>1. Elements(Connectors(call')) = Elements(Connectors(call))
    BY SameCall
  <2> QED
    BY <1>4, <2>1 DEF Make
<1>5. CASE MakeFails
  BY <1>1, <1>5 DEF MakeFails, connecting
<1>6. CASE Connect
  <2>1. todo \in Seq(Connector) /\ todo # << >>
    BY <1>6 DEF Connect, TypeInv
  <2>2. /\ Elements(todo) = {Head(todo)} \cup Elements(Tail(todo))
        /\ Len(todo) = 1 => Elements(Tail(todo)) = {} /\ Tail(todo) = << >>
    BY <2>1, HeadAndTail
  <2>3. open' \cup Elements(todo') = Elements(Connectors(call'))
    BY <1>6, <2>2 DEF Connect
  <2>4. CASE Len(todo) = 1
    BY <1>6, <2>2, <2>3, <2>4 DEF Connect
  <2>5. CASE Len(todo) # 1
    BY <1>6, <2>3, <2>5 DEF Connect
  <2> QED
    BY <2>4, <2>5
<1>7. CASE ConnectFails
  <2>1. todo # << >> /\ UNCHANGED << todo, open, owned >>
    BY <1>7 DEF ConnectFails, TypeInv
  <2>2. CASE attempt < Attempts
    BY <1>7, <2>1, <2>2 DEF ConnectFails
  <2>3. CASE ~(attempt < Attempts)
    <3>1. open \subseteq Elements(Connectors(call))
      BY <1>7 DEF ConnectFails
    <3> QED
      BY <1>1, <1>7, <2>1, <2>3, <3>1 DEF ConnectFails
  <2> QED
    BY <2>2, <2>3
<1>8. CASE Compare \/ CompareTable \/ Explain \/ Test
  BY <1>8, Compared DEF connecting
<1>9. CASE CompareFails
  BY <1>1, <1>9 DEF CompareFails, connecting
<1>10. CASE Deliver
  BY <1>10 DEF Deliver, MoreOutputs, connecting
<1>11. CASE DeliverFails
  BY <1>1, <1>11 DEF DeliverFails, MoreOutputs, connecting
<1>12. CASE Judge
  BY <1>12 DEF Judge, connecting
<1>13. CASE Close
  <2>1. /\ open' = {} \/ Lost
        /\ owned' = {} /\ todo' = todo /\ pc' \in {"make", "returned"}
    BY <1>13 DEF Close
  <2>2. ASSUME pc' = "make" PROVE ~Lost
    <3>1. job < Len(call.jobs)
      BY <1>13, <2>2 DEF Close
    <3>3. call.cmd = "run"
      BY <3>1, MoreTables
    <3> QED
      BY <3>3
  <2> QED
    BY <2>1, <2>2
<1>14. CASE Terminated
  BY <1>14 DEF Terminated, vars, connecting
<1> QED
  BY <1>3, <1>4, <1>5, <1>6, <1>7, <1>8, <1>9, <1>10, <1>11, <1>12, <1>13, <1>14 DEF Next, Step

LEMMA RetriesStep == TypeInv /\ Bracket /\ Retries /\ Progress /\ Next => Retries'
<1> SUFFICES ASSUME TypeInv, Bracket, Retries, Progress, Next PROVE Retries'
  OBVIOUS
<1> USE SameCall DEF Retries
<1>1. Fail => pc' = "close"
  BY DEF Fail
<1>3. CASE ReadConfig
  <2>1. pc' \in {"make", "returned", "crashed"} /\ todo' = << >>
    BY <1>3, ReadOutcome DEF ReadConfig, connecting, Bracket
  <2> QED
    BY <2>1
<1>4. CASE Make
  <2>1. /\ Connectors(call) \in Seq(Connector) /\ Connectors(call) # << >>
        /\ \A i, k \in DOMAIN Connectors(call) :
             Connectors(call)[i] = Connectors(call)[k] => i = k
    BY ConnectorsFacts DEF TypeInv
  <2>2. /\ pc' = "connect" /\ todo' = Connectors(call) /\ attempt' = 1
        /\ fails' = [c \in Elements(Connectors(call)) |-> 0]
    BY <1>4 DEF Make, TypeInv
  <2>3. \A i \in DOMAIN todo' : todo'[i] \in Elements(Connectors(call))
    BY <2>2 DEF Elements
  <2>4. Head(todo') \in Elements(Connectors(call))
    BY <2>1, <2>2, HeadAndTail
  <2> QED
    BY <2>1, <2>2, <2>3, <2>4
<1>5. CASE MakeFails
  <2>1. ~Job.makeable /\ UNCHANGED << call, job, connecting >> /\ pc' = "close"
    BY <1>1, <1>5 DEF MakeFails
  <2> QED
    BY <2>1 DEF Job
<1>6. CASE Connect
  <2>1. todo \in Seq(Connector) /\ todo # << >>
    BY <1>6 DEF Connect, TypeInv
  <2> DEFINE n == Len(todo)
  <2>2. /\ n \in Nat \ {0} /\ DOMAIN todo = 1..n /\ Head(todo) = todo[1]
        /\ DOMAIN Tail(todo) = 1..(n - 1)
        /\ \A i \in 1..(n - 1) : Tail(todo)[i] = todo[i + 1] /\ i + 1 \in DOMAIN todo
        /\ n = 1 => Tail(todo) = << >>
        /\ n # 1 => Tail(todo) # << >> /\ Tail(todo) \in Seq(Connector)
    BY <2>1, HeadAndTail
  <2> HIDE DEF n
  <2>3. /\ todo' = Tail(todo) /\ attempt' = 1 /\ fails' = [fails EXCEPT ![Head(todo)] = 0]
        /\ pc' \in {"connect", "compare"} /\ (pc' = "connect" => n # 1)
    BY <1>6 DEF Connect, n
  <2>4. /\ \A i, k \in DOMAIN todo : todo[i] = todo[k] => i = k
        /\ \A i \in DOMAIN todo : i # 1 => fails[todo[i]] = 0
    BY <1>6 DEF Connect
  <2>5. \A i, k \in DOMAIN todo' : todo'[i] = todo'[k] => i = k
    BY <2>2, <2>3, <2>4
  <2>6. \A i \in DOMAIN todo' : fails'[todo'[i]] = 0
    <3> TAKE i \in DOMAIN todo'
    <3>1. todo'[i] = todo[i + 1] /\ i + 1 \in DOMAIN todo /\ i + 1 # 1
      BY <2>2, <2>3
    <3>2. fails[todo[i + 1]] = 0
      BY <2>4, <3>1
    <3>3. todo[i + 1] \in DOMAIN fails
      <4>1. todo[i + 1] \in Elements(todo)
        BY <3>1 DEF Elements
      <4>2. Elements(todo) \subseteq Elements(Connectors(call))
        BY <1>6 DEF Connect, Bracket
      <4> QED
        BY <4>1, <4>2 DEF TypeInv
    <3> QED
      BY <2>3, <3>1, <3>2, <3>3 DEF TypeInv
  <2>7. ASSUME pc' = "connect" PROVE Head(todo') = todo'[1] /\ 1 \in DOMAIN todo'
    <3>1. Tail(todo) # << >> /\ Tail(todo) \in Seq(Connector)
      BY <2>2, <2>3, <2>7
    <3>2. Head(Tail(todo)) = Tail(todo)[1] /\ Len(Tail(todo)) \in Nat \ {0}
      BY <3>1, HeadAndTail
    <3>3. 1 \in DOMAIN Tail(todo)
      BY <3>1, <3>2
    <3> QED
      BY <2>3, <3>2, <3>3
  <2>8. CASE pc' = "connect"
    <3>1. attempt' = fails'[Head(todo')] + 1
      <4> HIDE SameCall DEF Retries
      <4>1. fails'[todo'[1]] = 0 /\ Head(todo') = todo'[1]
        BY <2>6, <2>7, <2>8
      <4>2. attempt' = 1
        BY <2>3
      <4> QED
        BY <4>1, <4>2
    <3> QED
      BY <2>5, <2>6, <2>8, <3>1
  <2>9. CASE pc' = "compare"
    BY <2>9
  <2> QED
    BY <2>3, <2>8, <2>9
<1>7. CASE ConnectFails
  <2>1. todo \in Seq(Connector) /\ todo # << >>
    BY <1>7 DEF ConnectFails, TypeInv
  <2>2. /\ Head(todo) = todo[1] /\ 1 \in DOMAIN todo
        /\ Head(todo) \in Elements(Connectors(call))
    BY <1>7, <2>1, HeadAndTail DEF ConnectFails, Bracket
  <2>3. /\ attempt = fails[Head(todo)] + 1 /\ todo' = todo /\ job' = job
        /\ fails' = [fails EXCEPT ![Head(todo)] = @ + 1]
        /\ attempt \in 1..Attempts /\ Head(todo) \in DOMAIN fails
    BY <1>7, <2>2 DEF ConnectFails, TypeInv
  <2>4. fails'[Head(todo)] = attempt
    BY <2>3 DEF TypeInv
  <2>5. \A i \in DOMAIN todo : i # 1 => fails'[todo[i]] = 0
    <3> SUFFICES ASSUME NEW i \in DOMAIN todo, i # 1 PROVE fails'[todo[i]] = 0
      OBVIOUS
    <3>1. todo[i] # todo[1] /\ fails[todo[i]] = 0
      BY <1>7, <2>2 DEF ConnectFails
    <3>2. todo[i] \in DOMAIN fails
      BY <1>7 DEF ConnectFails, Bracket, Elements, TypeInv
    <3> QED
      BY <2>2, <2>3, <3>1, <3>2 DEF TypeInv
  <2>6. CASE attempt < Attempts
    <3>1. pc' = "connect" /\ attempt' = attempt + 1 /\ pc = "connect"
      BY <1>7, <2>6 DEF ConnectFails
    <3> QED
      BY <2>3, <2>4, <2>5, <3>1
  <2>7. CASE ~(attempt < Attempts)
    <3>1. pc' = "close" /\ attempt = Attempts
      BY <1>1, <1>7, <2>3, <2>7, AttemptsAssumption DEF ConnectFails
    <3> QED
      BY <2>3, <2>4, <3>1
  <2> QED
    BY <2>6, <2>7
<1>8. CASE Compare \/ CompareTable \/ Explain \/ Test
  BY <1>8, Compared
<1>9. CASE CompareFails
  <2>1. todo' = << >> /\ pc' = "close"
    BY <1>1, <1>9 DEF CompareFails, connecting, Bracket
  <2> QED
    BY <2>1
<1>10. CASE Deliver
  BY <1>10 DEF Deliver, MoreOutputs
<1>11. CASE DeliverFails
  <2>1. todo' = << >> /\ pc' = "close"
    BY <1>1, <1>11 DEF DeliverFails, MoreOutputs, connecting, Bracket
  <2> QED
    BY <2>1
<1>12. CASE Judge
  <2>1. todo' = << >> /\ pc' = "close"
    BY <1>12 DEF Judge, connecting, Bracket
  <2> QED
    BY <2>1
<1>13. CASE Close
  <2>1. UNCHANGED << call, todo, fails >> /\ pc = "close"
    BY <1>13 DEF Close
  <2>2. \/ pc' = "make"
        \/ pc' = "returned" /\ job' = job
    BY <1>13 DEF Close
  <2> QED
    BY <2>1, <2>2 DEF Job
<1>14. CASE Terminated
  BY <1>14 DEF Terminated, vars, connecting, Job
<1> QED
  BY <1>3, <1>4, <1>5, <1>6, <1>7, <1>8, <1>9, <1>10, <1>11, <1>12, <1>13, <1>14 DEF Next, Step

-------------------------------------------------------------------------------
(* The code of the jobs that are over. *)
Accepts(failOn, verdict) ==
  CASE failOn = "any"   -> verdict = "same"
    [] failOn = "count" -> verdict \in {"same", "rows_differ"}
    [] failOn = "none"  -> verdict # "failed"

Judged ==
  /\ code = 2 <=> \E j \in DOMAIN verdicts : verdicts[j] = "failed"
  /\ code = 0 <=> \A j \in DOMAIN verdicts : Accepts(call.jobs[j].failOn, verdicts[j])

LEMMA JudgedMore ==
  ASSUME TypeInv, Judged, call' = call, NEW v, NEW c \in 0..2,
         verdicts' = Append(verdicts, v), code' = Worse(code, c),
         Len(verdicts) = job - 1,
         c = 2 <=> v = "failed",
         c = 0 <=> Accepts(call.jobs[job].failOn, v)
  PROVE  Judged'
<1>1. /\ Len(verdicts) + 1 = job /\ job \in Nat /\ Len(verdicts) \in Nat
      /\ DOMAIN verdicts = 1..Len(verdicts)
  BY JobFacts
<1>2. /\ DOMAIN verdicts' = 1..job
      /\ \A j \in 1..Len(verdicts) : verdicts'[j] = verdicts[j]
      /\ verdicts'[job] = v
  BY <1>1, OneMore
<1>3. \A j \in 1..Len(verdicts) : Accepts(call'.jobs[j].failOn, verdicts'[j])
                                   <=> Accepts(call.jobs[j].failOn, verdicts[j])
  BY <1>2
<1>4. Accepts(call'.jobs[job].failOn, verdicts'[job]) <=> c = 0
  BY <1>2
<1>5. /\ code' = 2 <=> code = 2 \/ c = 2
      /\ code' = 0 <=> code = 0 /\ c = 0
  BY WorseType DEF TypeInv
<1>6. DOMAIN verdicts' = DOMAIN verdicts \cup {job}
  BY <1>1, <1>2
<1>7. (\E j \in DOMAIN verdicts' : verdicts'[j] = "failed")
        <=> (\E j \in DOMAIN verdicts : verdicts[j] = "failed") \/ v = "failed"
  BY <1>1, <1>2, <1>6
<1>8. (\A j \in DOMAIN verdicts' : Accepts(call'.jobs[j].failOn, verdicts'[j]))
        <=> (\A j \in DOMAIN verdicts : Accepts(call.jobs[j].failOn, verdicts[j])) /\ c = 0
  BY <1>1, <1>3, <1>4, <1>6, Zenon
<1>9. code' = 2 <=> \E j \in DOMAIN verdicts' : verdicts'[j] = "failed"
  BY <1>5, <1>7, Zenon DEF Judged
<1>10. code' = 0 <=> \A j \in DOMAIN verdicts' : Accepts(call'.jobs[j].failOn, verdicts'[j])
  BY <1>5, <1>8, Zenon DEF Judged
<1> QED
  BY <1>9, <1>10 DEF Judged

WorstJudged ==
  /\ pc = "report" => finding \in Findings
  /\ pc = "crashed" \/ (pc = "returned" /\ verdicts = << >>) \/ Judged

LEMMA WorstIs == Worst <=> WorstJudged
  BY DEF Worst, WorstJudged, Judged, Acceptable, Accepts

LEMMA WorstStep == TypeInv /\ Progress /\ Worst /\ Next => Worst'
<1> SUFFICES ASSUME TypeInv, Progress, Worst, Next PROVE Worst'
  OBVIOUS
<1> DEFINE Running == pc \notin Ended
<1>0. Worst' <=> /\ pc' = "report" => finding' \in Findings
                 /\ pc' = "crashed" \/ (pc' = "returned" /\ verdicts' = << >>) \/ Judged'
  <2>1. Worst' <=> WorstJudged'
    BY WorstIs, PTL
  <2> QED
    BY <2>1 DEF WorstJudged
<1>1. Running => Judged
  BY WorstIs DEF WorstJudged, Ended
<1>2. ASSUME UNCHANGED << verdicts, code >>, Judged PROVE Judged'
  BY <1>2, SameCall DEF Judged
<1>3. ASSUME Fail, Running, Len(verdicts) = job - 1
      PROVE  Judged' /\ pc' = "close"
  <2>1. code' = Worse(code, 2) /\ verdicts' = Append(verdicts, "failed") /\ pc' = "close"
    BY <1>3 DEF Fail
  <2>2. call.jobs[job].failOn \in {"any", "count", "none"}
    BY CallFacts, JobFacts DEF TypeInv
  <2>3. ~Accepts(call.jobs[job].failOn, "failed")
    BY <2>2 DEF Accepts
  <2>4. 2 \in 0..2 /\ 2 # 0
    OBVIOUS
  <2> QED
    BY <1>1, <1>3, <2>1, <2>3, <2>4, JudgedMore, SameCall
<1>4. CASE ReadConfig
  <2>1. pc' # "report" /\ verdicts' = verdicts /\ pc = "config"
    BY <1>4, ReadOutcome DEF ReadConfig
  <2>2. verdicts = << >>
    BY <2>1, JobFacts DEF Progress, TypeInv
  <2>3. CASE pc' = "make"
    BY <1>0, <1>1, <1>2, <1>4, <2>1, <2>3, ReadOutcome DEF Ended
  <2>4. CASE pc' # "make"
    BY <1>0, <1>4, <2>1, <2>2, <2>4, ReadOutcome
  <2> QED
    BY <2>3, <2>4
<1>5. CASE Make
  BY <1>0, <1>1, <1>2, <1>5 DEF Make, outcome, Ended
<1>6. CASE MakeFails
  BY <1>0, <1>3, <1>6 DEF MakeFails, Progress, Ended
<1>7. CASE Connect
  BY <1>0, <1>1, <1>2, <1>7 DEF Connect, outcome, Ended
<1>8. CASE ConnectFails
  <2>1. CASE attempt < Attempts
    BY <1>0, <1>1, <1>2, <1>8, <2>1 DEF ConnectFails, Ended
  <2>2. CASE ~(attempt < Attempts)
    BY <1>0, <1>3, <1>8, <2>2 DEF ConnectFails, Progress, Ended
  <2> QED
    BY <2>1, <2>2
<1>9. CASE Compare \/ CompareTable \/ Explain \/ Test
  BY <1>0, <1>1, <1>2, <1>9, Compared DEF Ended
<1>10. CASE CompareFails
  BY <1>0, <1>3, <1>10 DEF CompareFails, Progress, Ended
<1>11. CASE Deliver
  <2>1. pc = "report" /\ UNCHANGED << pc, finding, verdicts, code >>
    BY <1>11 DEF Deliver, MoreOutputs
  <2> QED
    BY <1>0, <1>1, <1>2, <2>1 DEF Worst, Ended
<1>12. CASE DeliverFails
  BY <1>0, <1>3, <1>12 DEF DeliverFails, MoreOutputs, Progress, Ended
<1>13. CASE Judge
  <2> DEFINE c == ExitCode(Job.failOn, finding)
  <2>1. /\ finding \in Findings /\ pc' = "close" /\ Len(verdicts) = job - 1
        /\ verdicts' = Append(verdicts, finding) /\ code' = Worse(code, c)
        /\ Running
    BY <1>13 DEF Judge, Worst, Progress, Ended
  <2>2. Job.failOn \in {"any", "count", "none"}
    BY CallFacts, JobFacts DEF TypeInv, Job
  <2>3. c \in 0..2 /\ c # 2 /\ finding # "failed"
    BY <2>1, <2>2, ExitCodeType DEF Findings
  <2>4. c = 0 <=> Accepts(call.jobs[job].failOn, finding)
    BY <2>2, <2>3 DEF Accepts, ExitCode, IsMatch, CountsEqual, Job
  <2> HIDE DEF c
  <2>5. Judged'
    BY <1>1, <2>1, <2>3, <2>4, JudgedMore, SameCall
  <2> QED
    BY <1>0, <2>1, <2>5
<1>14. CASE Close
  BY <1>0, <1>1, <1>2, <1>14 DEF Close, outcome, Ended
<1>15. CASE Terminated
  <2>1. UNCHANGED << pc, finding, verdicts, code >>
    BY <1>15 DEF Terminated, vars, outcome
  <2> QED
    BY <1>0, <1>2, <2>1, WorstIs DEF WorstJudged
<1> QED
  BY <1>4, <1>5, <1>6, <1>7, <1>8, <1>9, <1>10, <1>11, <1>12, <1>13, <1>14, <1>15 DEF Next, Step

-------------------------------------------------------------------------------
(* The parts of Told, of the reports of one table. *)
Uniform(r, verdict) == \A n \in DOMAIN r : r[n].verdict = verdict

AllSql(r) ==
  \A n \in DOMAIN r : call.outputs[n] # "terminal" => r[n].sql = sent \ {"pool"}

Unreported ==
  \A j \in DOMAIN call.jobs :
    (j > Len(verdicts) /\ (j = job => pc # "report")) => reports[j] = << >>

Reporting ==
  pc = "report" => /\ Len(reports[job]) <= Len(call.outputs)
                   /\ Uniform(reports[job], Says(finding)) /\ AllSql(reports[job])

Reported ==
  \A j \in DOMAIN verdicts :
    verdicts[j] # "failed" =>
      Len(reports[j]) = Len(call.outputs) /\ Uniform(reports[j], Says(verdicts[j]))

LastSql ==
  pc \in {"close", "returned"} /\ Len(verdicts) = job /\ verdicts[job] # "failed"
    => AllSql(reports[job])

ToldParts ==
  call.cmd \in {"diff", "run"} => Unreported /\ Reporting /\ Reported /\ LastSql

LEMMA ToldIs == Told <=> ToldParts
<1> USE DEF Uniform, AllSql, Unreported, Reporting, Reported, LastSql, States, ListsSql
<1>1. Told => ToldParts
  BY Zenon DEF Told, ToldParts
<1>2. ToldParts => Told
  BY Zenon DEF Told, ToldParts
<1> QED
  BY <1>1, <1>2

(* A job that fails leaves its reports as they are. *)
LEMMA ToldFails ==
  ASSUME TypeInv, ToldParts, call' = call, Fail, Len(verdicts) = job - 1,
         UNCHANGED << job, sent, reports >>
  PROVE  ToldParts'
<1> SUFFICES ASSUME call.cmd \in {"diff", "run"}
             PROVE  Unreported' /\ Reporting' /\ Reported' /\ LastSql'
  BY DEF ToldParts
<1>1. /\ verdicts' = Append(verdicts, "failed") /\ pc' = "close"
      /\ Unreported /\ Reported
  BY DEF Fail, ToldParts
<1>2. /\ Len(verdicts) + 1 = job /\ job \in Nat /\ Len(verdicts) \in Nat
      /\ DOMAIN verdicts = 1..Len(verdicts)
      /\ DOMAIN call.jobs = 1..Len(call.jobs) /\ Len(call.jobs) \in Nat
  BY JobFacts
<1>3. /\ DOMAIN verdicts' = 1..job /\ Len(verdicts') = job
      /\ \A j \in 1..Len(verdicts) : verdicts'[j] = verdicts[j]
      /\ verdicts'[job] = "failed"
  BY <1>1, <1>2, OneMore
<1>4. Unreported'
  <2>1. ASSUME NEW j \in DOMAIN call.jobs, j > Len(verdicts') PROVE reports[j] = << >>
    <3>1. j > Len(verdicts) /\ j # job
      BY <1>2, <1>3, <2>1
    <3> QED
      BY <1>1, <3>1 DEF Unreported
  <2> QED
    BY <2>1 DEF Unreported
<1>5. Reporting'
  BY <1>1 DEF Reporting
<1>6. Reported'
  <2>1. ASSUME NEW j \in DOMAIN verdicts', verdicts'[j] # "failed"
        PROVE  j \in DOMAIN verdicts /\ verdicts'[j] = verdicts[j]
    BY <1>2, <1>3, <2>1
  <2> QED
    BY <1>1, <2>1 DEF Reported, Uniform
<1>7. LastSql'
  BY <1>3 DEF LastSql
<1> QED
  BY <1>4, <1>5, <1>6, <1>7

(* So does an action that neither begins nor ends a comparison. *)
LEMMA ToldKept ==
  ASSUME TypeInv, ToldParts, call' = call,
         UNCHANGED << job, sent, reports, verdicts >>,
         pc # "report", pc' # "report",
         pc' \in {"close", "returned"} => pc \in {"close", "returned"} \/ Len(verdicts) # job
  PROVE  ToldParts'
<1> SUFFICES ASSUME call.cmd \in {"diff", "run"}
             PROVE  Unreported' /\ Reporting' /\ Reported' /\ LastSql'
  BY DEF ToldParts
<1>1. Unreported /\ Reported /\ LastSql
  BY DEF ToldParts
<1>2. Unreported'
  BY <1>1 DEF Unreported
<1>3. Reporting'
  BY DEF Reporting
<1>4. Reported'
  BY <1>1 DEF Reported, Uniform
<1>5. LastSql'
  BY <1>1 DEF LastSql, AllSql
<1> QED
  BY <1>2, <1>3, <1>4, <1>5

(* Every statement of `run` and, but for the pools, of `diff` is recorded. *)
LEMMA ReportSays ==
  ASSUME TypeInv, call.cmd \in {"diff", "run"}, NEW output
  PROVE  /\ Report(output, finding).verdict = Says(finding)
         /\ call.cmd = "diff" /\ output # "terminal"
              => Report(output, finding).sql = sent \ {"pool"}
<1>1. sent \cap {"pair"} = sent \ {"pool"}
  BY DEF TypeInv
<1> QED
  BY <1>1 DEF Report, Says, Logged

LEMMA ToldStep == TypeInv /\ Progress /\ Worst /\ ToldParts /\ Next => ToldParts'
<1> SUFFICES ASSUME TypeInv, Progress, Worst, ToldParts, Next PROVE ToldParts'
  OBVIOUS
<1>0. call' = call
  BY SameCall
<1>1. /\ Len(verdicts) \in Nat /\ job \in 1..Len(call.jobs) /\ Len(call.jobs) \in Nat
      /\ DOMAIN verdicts = 1..Len(verdicts)
      /\ DOMAIN call.jobs = 1..Len(call.jobs)
      /\ DOMAIN reports = DOMAIN call.jobs /\ reports[job] \in Seq(ReportType)
      /\ Len(reports[job]) \in Nat
      /\ call.outputs \in Seq(Output) /\ Len(call.outputs) \in Nat
  BY CallFacts, JobFacts DEF TypeInv
<1>3. CASE ReadConfig
  <2>1. UNCHANGED << job, sent, reports, verdicts >> /\ pc = "config"
    BY <1>3 DEF ReadConfig
  <2>2. Len(verdicts) = job - 1 /\ Len(verdicts) # job
    BY <1>1, <2>1 DEF Progress
  <2> QED
    BY <1>0, <1>3, <2>1, <2>2, ReadOutcome, ToldKept
<1>4. CASE Make
  BY <1>0, <1>4, ToldKept DEF Make, outcome
<1>5. CASE MakeFails
  BY <1>0, <1>5, ToldFails DEF MakeFails, Progress
<1>6. CASE Connect
  BY <1>0, <1>6, ToldKept DEF Connect, outcome
<1>7. CASE ConnectFails
  <2>1. CASE attempt < Attempts
    BY <1>0, <1>7, <2>1, ToldKept DEF ConnectFails
  <2>2. CASE ~(attempt < Attempts)
    BY <1>0, <1>7, <2>2, ToldFails DEF ConnectFails, Progress
  <2> QED
    BY <2>1, <2>2
<1>8. CASE Compare \/ CompareTable \/ Explain \/ Test
  <2> SUFFICES ASSUME call.cmd \in {"diff", "run"}
               PROVE  Unreported' /\ Reporting' /\ Reported' /\ LastSql'
    BY <1>0 DEF ToldParts
  <2>1. /\ pc = "compare" /\ pc' = "report" /\ Len(verdicts) = job - 1
        /\ UNCHANGED << job, reports, verdicts >>
        /\ Unreported /\ Reported
    BY <1>8, Compared DEF Progress, ToldParts
  <2>2. reports[job] = << >>
    BY <1>1, <2>1 DEF Unreported
  <2>3. Unreported'
    BY <1>0, <2>1 DEF Unreported
  <2>4. Reporting'
    BY <1>0, <1>1, <2>1, <2>2 DEF Reporting, Uniform, AllSql
  <2>5. Reported'
    BY <1>0, <2>1 DEF Reported, Uniform
  <2>6. LastSql'
    BY <2>1 DEF LastSql
  <2> QED
    BY <2>3, <2>4, <2>5, <2>6
<1>9. CASE CompareFails
  BY <1>0, <1>9, ToldFails DEF CompareFails, Progress
<1>10. CASE Deliver
  <2> SUFFICES ASSUME call.cmd \in {"diff", "run"}
               PROVE  Unreported' /\ Reporting' /\ Reported' /\ LastSql'
    BY <1>0 DEF ToldParts
  <2> DEFINE r == reports[job]
             n == Len(r) + 1
             more == Report(call.outputs[n], finding)
  <2>1. /\ pc = "report" /\ pc' = "report" /\ Len(verdicts) = job - 1
        /\ Len(r) < Len(call.outputs)
        /\ UNCHANGED << job, finding, sent, verdicts >>
        /\ reports' = [reports EXCEPT ![job] = Append(r, more)]
        /\ Unreported /\ Reporting /\ Reported
    BY <1>10 DEF Deliver, MoreOutputs, NextOutput, Progress, ToldParts
  <2>2. n \in 1..Len(call.outputs)
    BY <1>1, <2>1
  <2>3. /\ more.verdict = Says(finding)
        /\ call.outputs[n] # "terminal" => more.sql = sent \ {"pool"}
    <3>1. CASE call.cmd = "diff"
      BY <3>1, ReportSays
    <3>2. CASE call.cmd # "diff"
      <4>1. call.outputs \in {<< >>, << "terminal" >>}
        BY <3>2, CallFacts DEF TypeInv
      <4>2. call.outputs[n] = "terminal"
        BY <2>2, <4>1
      <4> QED
        BY <4>2, ReportSays
    <3> QED
      BY <3>1, <3>2
  <2> DEFINE r2 == Append(r, more)
  <2>4. /\ Len(r2) = n /\ DOMAIN r2 = 1..n /\ r2[n] = more
        /\ \A i \in 1..n : i # n => i \in DOMAIN r /\ r2[i] = r[i]
    BY <1>1
  <2>5. reports'[job] = r2 /\ \A j \in DOMAIN call.jobs : j # job => reports'[j] = reports[j]
    BY <1>1, <2>1
  <2> HIDE DEF n, more, r2
  <2>6. Unreported'
    BY <1>0, <1>1, <2>1, <2>5 DEF Unreported
  <2>7. Reporting'
    <3>1. Uniform(r, Says(finding)) /\ AllSql(r)
      BY <2>1 DEF Reporting
    <3>2. Uniform(r2, Says(finding))
      BY <2>3, <2>4, <3>1 DEF Uniform
    <3>3. AllSql(r2)
      BY <2>3, <2>4, <3>1 DEF AllSql
    <3>5. \A i \in DOMAIN r2 : call'.outputs[i] # "terminal" => r2[i].sql = sent' \ {"pool"}
      BY <1>0, <2>1, <3>3 DEF AllSql
    <3>6. Len(r2) <= Len(call.outputs)
      BY <1>1, <2>2, <2>4
    <3> QED
      BY <1>0, <2>1, <2>5, <3>2, <3>5, <3>6 DEF Reporting, AllSql
  <2>8. Reported'
    <3>1. \A j \in DOMAIN verdicts : reports'[j] = reports[j]
      BY <1>1, <2>1, <2>5
    <3> QED
      BY <1>0, <2>1, <3>1 DEF Reported
  <2>9. LastSql'
    BY <2>1 DEF LastSql
  <2> QED
    BY <2>6, <2>7, <2>8, <2>9
<1>11. CASE DeliverFails
  BY <1>0, <1>11, ToldFails DEF DeliverFails, MoreOutputs, Progress
<1>12. CASE Judge
  <2> SUFFICES ASSUME call.cmd \in {"diff", "run"}
               PROVE  Unreported' /\ Reporting' /\ Reported' /\ LastSql'
    BY <1>0 DEF ToldParts
  <2>1. /\ pc = "report" /\ pc' = "close" /\ Len(verdicts) = job - 1
        /\ Len(reports[job]) = Len(call.outputs)
        /\ verdicts' = Append(verdicts, finding)
        /\ UNCHANGED << job, sent, reports >>
        /\ Unreported /\ Reporting /\ Reported
    BY <1>12 DEF Judge, Progress, ToldParts
  <2>2. /\ DOMAIN verdicts' = 1..job /\ Len(verdicts') = job
        /\ \A j \in 1..Len(verdicts) : verdicts'[j] = verdicts[j]
        /\ verdicts'[job] = finding
    BY <1>1, <2>1, OneMore
  <2>3. Unreported'
    <3>1. ASSUME NEW j \in DOMAIN call.jobs, j > Len(verdicts') PROVE reports[j] = << >>
      <4>1. j > Len(verdicts) /\ j # job
        BY <1>1, <2>1, <2>2, <3>1
      <4> QED
        BY <2>1, <4>1 DEF Unreported
    <3> QED
      BY <1>0, <2>1, <3>1 DEF Unreported
  <2>4. Reporting'
    BY <2>1 DEF Reporting
  <2>5. Reported'
    <3>1. Uniform(reports[job], Says(finding))
      BY <2>1 DEF Reporting
    <3>2. ASSUME NEW j \in DOMAIN verdicts', verdicts'[j] # "failed"
          PROVE  /\ Len(reports[j]) = Len(call.outputs)
                 /\ Uniform(reports[j], Says(verdicts'[j]))
      <4>1. CASE j = job
        BY <2>1, <2>2, <3>1, <4>1
      <4>2. CASE j # job
        <5>1. j \in DOMAIN verdicts /\ verdicts'[j] = verdicts[j]
          BY <1>1, <2>1, <2>2, <4>2
        <5> QED
          BY <2>1, <3>2, <5>1 DEF Reported
      <4> QED
        BY <4>1, <4>2
    <3> QED
      BY <1>0, <2>1, <3>2 DEF Reported
  <2>6. LastSql'
    BY <1>0, <2>1 DEF LastSql, Reporting, AllSql
  <2> QED
    BY <2>3, <2>4, <2>5, <2>6
<1>13. CASE Close
  <2> SUFFICES ASSUME call.cmd \in {"diff", "run"}
               PROVE  Unreported' /\ Reporting' /\ Reported' /\ LastSql'
    BY <1>0 DEF ToldParts
  <2>1. /\ pc = "close" /\ pc' \in {"make", "returned"}
        /\ pc' = "returned" => job' = job
        /\ UNCHANGED << sent, reports, verdicts >>
        /\ Unreported /\ Reported /\ LastSql
    BY <1>13 DEF Close, outcome, ToldParts
  <2>2. Unreported'
    BY <1>0, <2>1 DEF Unreported
  <2>3. Reporting'
    BY <2>1 DEF Reporting
  <2>4. Reported'
    BY <1>0, <2>1 DEF Reported
  <2>5. LastSql'
    BY <1>0, <2>1 DEF LastSql, AllSql
  <2> QED
    BY <2>2, <2>3, <2>4, <2>5
<1>14. CASE Terminated
  <2>1. UNCHANGED << call, pc, job, finding, sent, reports, verdicts >>
    BY <1>14 DEF Terminated, vars, outcome
  <2> QED
    BY <2>1 DEF ToldParts, Unreported, Reporting, Reported, LastSql, AllSql, Uniform
<1> QED
  BY <1>3, <1>4, <1>5, <1>6, <1>7, <1>8, <1>9, <1>10, <1>11, <1>12, <1>13, <1>14 DEF Next, Step

-------------------------------------------------------------------------------
LEMMA InvariantsInit == Init => Invariants
<1> SUFFICES ASSUME Init PROVE Invariants
  OBVIOUS
<1>1. TypeInv /\ Bracket /\ Retries
  BY TypeInit
<1>2. verdicts = << >> /\ Len(verdicts) = 0 /\ DOMAIN verdicts = {} /\ job = 1
  BY DEF Init
<1>3. pc \in {"config", "make"}
  BY DEF Init
<1>4. Progress
  BY <1>2, <1>3 DEF Progress
<1>5. Worst
  BY <1>2, <1>3 DEF Worst, Init
<1>6. Told
  <2>1. ToldParts
    BY <1>2, <1>3 DEF Init, ToldParts, Unreported, Reporting, Reported, LastSql
  <2> QED
    BY <2>1, ToldIs
<1> QED
  BY <1>1, <1>4, <1>5, <1>6 DEF Invariants

LEMMA InvariantsStep == Invariants /\ [Next]_vars => Invariants'
<1> SUFFICES ASSUME Invariants, [Next]_vars PROVE Invariants'
  OBVIOUS
<1> USE DEF Invariants
<1>1. CASE Next
  <2>1. TypeInv'
    BY <1>1, TypeStep
  <2>2. Progress'
    BY <1>1, ProgressStep
  <2>3. Bracket'
    BY <1>1, BracketStep
  <2>4. Retries'
    BY <1>1, RetriesStep
  <2>5. Worst'
    BY <1>1, WorstStep
  <2>6. Told'
    <3>1. ToldParts'
      BY <1>1, ToldStep, ToldIs
    <3>2. Told' <=> ToldParts'
      BY ToldIs, PTL
    <3> QED
      BY <3>1, <3>2
  <2> QED
    BY <2>1, <2>2, <2>3, <2>4, <2>5, <2>6
<1>2. CASE UNCHANGED vars
  <2>1. UNCHANGED << call, pc, job, todo, attempt, open, owned, finding, sent, reports, code,
                     verdicts, fails >>
    BY <1>2 DEF vars, connecting, outcome
  <2>2. TypeInv' /\ Progress'
    BY <2>1 DEF TypeInv, Progress
  <2>3. Bracket' /\ Retries'
    BY <2>1 DEF Bracket, Retries, UsesConfig, Lost, Job
  <2>4. Worst'
    BY <2>1 DEF Worst, Acceptable
  <2>5. Told'
    <3>1. ToldParts'
      BY <2>1, ToldIs DEF ToldParts, Unreported, Reporting, Reported, LastSql, AllSql, Uniform
    <3>2. Told' <=> ToldParts'
      BY ToldIs, PTL
    <3> QED
      BY <3>1, <3>2
  <2> QED
    BY <2>2, <2>3, <2>4, <2>5
<1> QED
  BY <1>1, <1>2

LEMMA Inductive == Spec => []Invariants
  BY InvariantsInit, InvariantsStep, PTL DEF Spec

(* Whatever the calls, every variable of a session keeps its type; a server *)
(* is tried no more than Attempts times in a row (_connect_with_retry).     *)
THEOREM TypeCorrect == Spec => []TypeInv
<1>1. Invariants => TypeInv
  BY DEF Invariants
<1> QED
  BY <1>1, Inductive, PTL

(* A comparison has all its connections, and none is left open between two  *)
(* tables of a `run` or when the command is over, but for those a `diff` or *)
(* `explain` opened before one failed (main.py, the `finally` blocks).      *)
THEOREM Bracketed == Spec => []ConnectionsBracketed
<1>1. Invariants => ConnectionsBracketed
  <2> SUFFICES ASSUME Invariants PROVE ConnectionsBracketed
    OBVIOUS
  <2>1. Bracket /\ call.cmd \in {"diff", "explain", "run", "test"}
    BY JobFacts DEF Invariants
  <2> QED
    BY <2>1 DEF Bracket, ConnectionsBracketed, UsesConfig, Lost
<1> QED
  BY <1>1, Inductive, PTL

(* The exit code is that of the worst table, and every table was tried.     *)
THEOREM Truthful == Spec => []ExitCodeTruthful
<1>1. Invariants => ExitCodeTruthful
  <2> SUFFICES ASSUME Invariants, pc = "returned" PROVE ExitCodeTruthful
    BY DEF ExitCodeTruthful
  <2>1. Progress /\ Worst /\ TypeInv
    BY DEF Invariants
  <2>2. CASE verdicts = << >>
    <3>1. Len(verdicts) = 0
      BY <2>2
    <3>2. job # 0
      BY <2>1, JobFacts
    <3> QED
      BY <2>1, <2>2, <3>1, <3>2 DEF Progress, ExitCodeTruthful
  <2>3. CASE verdicts # << >>
    BY <2>1, <2>3 DEF Progress, Worst, ExitCodeTruthful
  <2> QED
    BY <2>2, <2>3
<1> QED
  BY <1>1, Inductive, PTL

(* An exit code of 0 or 1 stands for complete reports that state one        *)
(* verdict per table, the one the code tells of; their SQL was sent, and is *)
(* all that was if no pool sent any (the hook of _connect_pair).            *)
THEOREM Agree == Spec => []ReportsAgree
<1>1. Invariants => ReportsAgree
  <2> SUFFICES ASSUME Invariants, pc = "returned", code # 2, call.cmd \in {"diff", "run"}
               PROVE  ReportsAgree
    BY DEF ReportsAgree
  <2>1. TypeInv /\ Progress /\ WorstJudged /\ ToldParts
    BY WorstIs, ToldIs DEF Invariants
  <2>2. /\ job = Len(call.jobs) /\ Len(verdicts) = job /\ job # 0
        /\ DOMAIN verdicts = DOMAIN call.jobs /\ job \in DOMAIN verdicts
    BY <2>1, JobFacts DEF Progress
  <2>3. verdicts # << >>
    BY <2>2
  <2>4. /\ \A j \in DOMAIN verdicts : verdicts[j] # "failed"
        /\ code = 0 <=> \A j \in DOMAIN verdicts : Accepts(call.jobs[j].failOn, verdicts[j])
    BY <2>1, <2>3, Zenon DEF WorstJudged, Judged
  <2>5. /\ \A j \in DOMAIN verdicts :
             Len(reports[j]) = Len(call.outputs) /\ Uniform(reports[j], Says(verdicts[j]))
        /\ AllSql(reports[job])
    BY <2>1, <2>2, <2>4 DEF ToldParts, Reported, LastSql
  <2>6. \A j \in DOMAIN verdicts : States(j, Says(verdicts[j]))
    BY <2>5 DEF States, Uniform
  <2>7. \A j \in DOMAIN call.jobs :
          /\ Len(reports[j]) = Len(call.outputs)
          /\ States(j, "MATCH") \/ States(j, "DIFFERENT")
          /\ code = 0 /\ call.jobs[j].failOn = "any" => States(j, "MATCH")
    <3> TAKE j \in DOMAIN call.jobs
    <3>1. Len(reports[j]) = Len(call.outputs) /\ States(j, Says(verdicts[j]))
      BY <2>2, <2>5, <2>6
    <3>2. ASSUME code = 0, call.jobs[j].failOn = "any" PROVE verdicts[j] = "same"
      BY <2>2, <2>4, <3>2 DEF Accepts
    <3> QED
      BY <3>1, <3>2 DEF Says, IsMatch
  <2>8. ASSUME code = 1 PROVE \E j \in DOMAIN call.jobs : States(j, "DIFFERENT")
    <3>1. PICK j \in DOMAIN verdicts : ~Accepts(call.jobs[j].failOn, verdicts[j])
      BY <2>4, <2>8
    <3>2. call.jobs[j].failOn \in {"any", "count", "none"}
      BY <2>1, <2>2, CallFacts DEF TypeInv
    <3>3. verdicts[j] # "same"
      BY <2>4, <3>1, <3>2 DEF Accepts
    <3>4. States(j, "DIFFERENT")
      BY <2>6, <3>3 DEF Says, IsMatch
    <3> QED
      BY <2>2, <3>4
  <2>9. ASSUME NEW n \in DOMAIN reports[job], call.outputs[n] # "terminal"
        PROVE  /\ reports[job][n].sql \subseteq sent
               /\ "pool" \notin sent => reports[job][n].sql = sent
    <3>1. reports[job][n].sql = sent \ {"pool"}
      BY <2>5, <2>9 DEF AllSql
    <3> QED
      BY <3>1
  <2> QED
    BY <2>5, <2>7, <2>8, <2>9 DEF ReportsAgree
<1> QED
  BY <1>1, Inductive, PTL

(* A job gives up connecting only after Attempts failures of one server.    *)
THEOREM Survived == Spec => []ShortOutagesSurvived
<1>1. Invariants => ShortOutagesSurvived
  BY DEF Invariants, Retries, ShortOutagesSurvived
<1> QED
  BY <1>1, Inductive, PTL
===============================================================================
