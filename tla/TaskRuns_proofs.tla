--------------------------- MODULE TaskRuns_proofs ---------------------------
(***************************************************************************)
(* What holds of TaskRuns for every set of runs, runners and task trees.   *)
(***************************************************************************)
EXTENDS TaskMeaning, TLAPS, SequenceTheorems, WellFoundedInduction

\* A context is a record; what its fields may hold depends on the user's tasks.
IsContext(c) ==
    c \in [task : {c.task}, input : {c.input}, count : {c.count}, to : {c.to}, as : {c.as}]

\* A stack of contexts each of which reports to the one below it.
Linked(s) ==
    /\ s \in Seq({s[i] : i \in DOMAIN s})
    /\ \A i \in DOMAIN s : IsContext(s[i]) /\ s[i].to = i - 1

LEMMA EmptyLinked == Linked(<<>>)
  BY DEF Linked

LEMMA LinkedLength ==
    ASSUME NEW s, Linked(s)
    PROVE  Len(s) \in Nat /\ DOMAIN s = 1..Len(s) /\ (s # <<>> <=> Len(s) > 0)
<1> DEFINE S == {s[i] : i \in DOMAIN s}
<1>1. s \in Seq(S)
    BY DEF Linked
<1> HIDE DEF S
<1> QED
    BY <1>1, LenProperties, EmptySeq

LEMMA ContextIsOne ==
    ASSUME NEW t, NEW i, NEW n, NEW b, NEW a
    PROVE  IsContext([task |-> t, input |-> i, count |-> n, to |-> b, as |-> a])
  BY DEF IsContext

LEMMA ContextChanged ==
    ASSUME NEW c, IsContext(c), NEW v, NEW n
    PROVE  LET d == [c EXCEPT !.input = v, !.count = n]
           IN  IsContext(d) /\ d.to = c.to /\ d.task = c.task
<1> DEFINE e == [c EXCEPT !.input = v]
           d == [e EXCEPT !.count = n]
<1>1. e \in [task : {c.task}, input : {v}, count : {c.count}, to : {c.to}, as : {c.as}]
    BY DEF IsContext
<1> HIDE DEF e
<1>2. d \in [task : {c.task}, input : {v}, count : {n}, to : {c.to}, as : {c.as}]
    BY <1>1
<1> HIDE DEF d
<1>3. d.task = c.task /\ d.input = v /\ d.count = n /\ d.to = c.to /\ d.as = c.as
    BY <1>2
<1>4. IsContext(d) /\ d.to = c.to /\ d.task = c.task
    BY <1>2, <1>3 DEF IsContext
<1> QED
    BY <1>4 DEF d, e

LEMMA PushLinked ==
    ASSUME NEW s, Linked(s), NEW c, IsContext(c), c.to = Len(s)
    PROVE  LET z == Append(s, c)
           IN  Linked(z) /\ Len(z) = Len(s) + 1 /\ z # <<>> /\ Last(z) = c
<1> DEFINE S == {s[i] : i \in DOMAIN s}
           T == S \cup {c}
           z == Append(s, c)
<1>1. s \in Seq(T) /\ c \in T
    BY DEF Linked
<1>2. Len(s) \in Nat /\ DOMAIN s = 1..Len(s)
    BY LinkedLength
<1> HIDE DEF T
<1>3. /\ z \in Seq(T) /\ Len(z) = Len(s) + 1 /\ z[Len(s) + 1] = c
      /\ \A i \in 1..Len(s) : z[i] = s[i]
    BY <1>1, AppendProperties
<1>4. DOMAIN z = 1..(Len(s) + 1)
    BY <1>1, <1>3
<1> HIDE DEF z
<1>5. z \in Seq({z[i] : i \in DOMAIN z})
    BY <1>2, <1>3, <1>4
<1>6. \A i \in DOMAIN z : IsContext(z[i]) /\ z[i].to = i - 1
    BY <1>2, <1>3, <1>4 DEF Linked
<1>7. z # <<>>
    BY <1>2, <1>3
<1> QED
    BY <1>3, <1>5, <1>6, <1>7 DEF Linked, Last, z

LEMMA PopLinked ==
    ASSUME NEW s, Linked(s), s # <<>>
    PROVE  Linked(Front(s)) /\ Len(Front(s)) = Len(s) - 1 /\ Last(s).to = Len(s) - 1
<1> DEFINE S == {s[i] : i \in DOMAIN s}
           z == Front(s)
<1>1. s \in Seq(S)
    BY DEF Linked
<1>2. Len(s) \in Nat /\ DOMAIN s = 1..Len(s) /\ Len(s) > 0
    BY LinkedLength
<1> HIDE DEF S
<1>3. /\ z \in Seq(S) /\ Len(z) = Len(s) - 1
      /\ \A i \in 1..(Len(s) - 1) : z[i] = s[i]
    BY <1>1, <1>2, SubSeqProperties DEF Front
<1>4. DOMAIN z = 1..(Len(s) - 1)
    BY <1>2, <1>3
<1> HIDE DEF z
<1>5. z \in Seq({z[i] : i \in DOMAIN z})
    BY <1>2, <1>3, <1>4
<1>6. \A i \in DOMAIN s : IsContext(s[i]) /\ s[i].to = i - 1
    BY DEF Linked
<1>7. \A i \in DOMAIN z : IsContext(z[i]) /\ z[i].to = i - 1
  <2> TAKE i \in DOMAIN z
  <2>1. i \in DOMAIN s /\ z[i] = s[i]
      BY <1>2, <1>3, <1>4
  <2> QED
      BY <1>6, <2>1
<1>8. Last(s).to = Len(s) - 1
    BY <1>2, <1>6 DEF Last
<1>9. Linked(z)
    BY <1>5, <1>7 DEF Linked
<1> QED
    BY <1>3, <1>8, <1>9 DEF z

LEMMA ChangeLinked ==
    ASSUME NEW s, Linked(s), NEW k \in DOMAIN s, NEW v, NEW n
    PROVE  LET z == [s EXCEPT ![k].input = v, ![k].count = n]
           IN  Linked(z) /\ Len(z) = Len(s)
<1> DEFINE c == [s[k] EXCEPT !.input = v, !.count = n]
           z == [s EXCEPT ![k].input = v, ![k].count = n]
           S == {s[i] : i \in DOMAIN s}
<1>1. s \in Seq(S) /\ Len(s) \in Nat /\ DOMAIN s = 1..Len(s)
    BY LinkedLength DEF Linked
<1> HIDE DEF S
<1>2. DOMAIN z = DOMAIN s /\ z[k] = c /\ \A i \in DOMAIN s \ {k} : z[i] = s[i]
    OBVIOUS
<1>3. z \in Seq({z[i] : i \in DOMAIN z}) /\ Len(z) = Len(s)
  <2>1. z = [i \in 1..Len(s) |-> z[i]]
      BY <1>1
  <2> HIDE DEF z
  <2> QED
      BY <1>1, <1>2, <2>1
<1>4. IsContext(s[k]) /\ IsContext(c) /\ c.to = s[k].to
  <2>1. IsContext(s[k])
      BY DEF Linked
  <2>2. \A e : IsContext(e) => LET d == [e EXCEPT !.input = v, !.count = n]
                               IN  IsContext(d) /\ d.to = e.to
      BY ContextChanged
  <2> QED
      BY <2>1, <2>2
<1> HIDE DEF z, c
<1>5. \A i \in DOMAIN s : IsContext(z[i]) /\ z[i].to = i - 1
    BY <1>2, <1>4 DEF Linked
<1>6. Linked(z)
    BY <1>2, <1>3, <1>5 DEF Linked
<1> QED
    BY <1>3, <1>6 DEF z
-----------------------------------------------------------------------------
Places == {"new", "starting", "kickstart", "queued", "executing", "reporting", "tail", "over"}

InCall == {"starting", "reporting"}

\* A run by itself: a call is made of the context on top, and while none is made
\* a simple task is on top or nothing is left.
RunInv(r) ==
    /\ Linked(stack[r])
    /\ at[r] \in InCall <=> call[r] # NoCall
    /\ call[r] # NoCall => call[r].to = Len(stack[r])
    /\ at[r] = "starting" => call[r].op = "create"
    /\ at[r] \in {"new", "over"} => stack[r] = <<>>
    /\ at[r] \in {"kickstart", "queued", "executing"} => stack[r] # <<>> /\ Simple(r)
    /\ at[r] = "tail" => stack[r] = <<>> \/ Simple(r)

\* A stack waits in one queue, once, and only a stack that is posted does.
QueuesInv ==
    /\ \A q \in Runners : queue[q] \in Seq(Runs)
    /\ \A q \in Runners : \A i \in DOMAIN queue[q] : at[queue[q][i]] = "queued"
    /\ \A p, q \in Runners : \A i \in DOMAIN queue[p], j \in DOMAIN queue[q] :
          queue[p][i] = queue[q][j] => p = q /\ i = j

RunsShape ==
    /\ DOMAIN stack = Runs /\ DOMAIN call = Runs /\ DOMAIN queue = Runners
    /\ at \in [Runs -> Places]

TaskInv ==
    /\ RunsShape
    /\ \A r \in Runs : RunInv(r)
    /\ QueuesInv

\* The condition under which it holds: a repeat has something to repeat.
NoZeroRepeat == \A r \in Runs : Creates(r, "repeat") => call[r].value > 0

OnlyRun(r) ==
    \A s \in Runs \ {r} : stack'[s] = stack[s] /\ call'[s] = call[s] /\ at'[s] = at[s]

LEMMA OneRun ==
    ASSUME TaskInv, RunsShape', NEW r \in Runs, OnlyRun(r), RunInv(r)'
    PROVE  \A s \in Runs : RunInv(s)'
<1> SUFFICES ASSUME NEW s \in Runs, s # r PROVE RunInv(s)'
    OBVIOUS
<1>1. stack'[s] = stack[s] /\ call'[s] = call[s] /\ at'[s] = at[s]
    BY DEF OnlyRun
<1>2. RunInv(s)
    BY DEF TaskInv
<1> QED
    BY <1>1, <1>2 DEF RunInv, Simple, Top

LEMMA QueuesStay ==
    ASSUME TaskInv, NEW r \in Runs, OnlyRun(r), at[r] # "queued", queue' = queue
    PROVE  QueuesInv'
<1>1. \A q \in Runners : \A i \in DOMAIN queue[q] : queue[q][i] \in Runs \ {r}
  <2> TAKE q \in Runners
  <2> TAKE i \in DOMAIN queue[q]
  <2>1. queue[q] \in Seq(Runs) /\ at[queue[q][i]] = "queued"
      BY DEF TaskInv, QueuesInv
  <2>2. queue[q][i] \in Runs
      BY <2>1
  <2> QED
      BY <2>1, <2>2
<1> QED
    BY <1>1 DEF TaskInv, QueuesInv, OnlyRun

LEMMA SpawnStep ==
    ASSUME TaskInv, NEW r \in Runs, call[r] # NoCall, NEW s, Linked(s),
           NEW t, NEW input, NEW as, Spawn(r, s, t, input, as)
    PROVE  TaskInv'
<1> USE DEF TaskInv
<1>1. RunsShape' /\ OnlyRun(r)
    BY DEF Spawn, RunsShape, OnlyRun
<1>2. stack'[r] = s /\ at'[r] = at[r]
      /\ call'[r] = [op |-> "create", task |-> t, value |-> input, to |-> Len(s), as |-> as]
    BY DEF Spawn, RunsShape
<1>3. at[r] \in InCall
    BY DEF RunInv
<1>4. call'[r] # NoCall
    BY <1>2 DEF NoCall
<1>5. Linked(stack[r])' /\ call'[r].to = Len(stack'[r]) /\ call'[r].op = "create"
    BY <1>2
<1>6. RunInv(r)'
    BY <1>2, <1>3, <1>4, <1>5 DEF RunInv, InCall
<1>7. QueuesInv'
    BY <1>1, <1>3, QueuesStay DEF InCall, Spawn
<1> QED
    BY <1>1, <1>6, <1>7, OneRun

LEMMA PassOnStep ==
    ASSUME TaskInv, NEW r \in Runs, call[r] # NoCall, call[r].op # "create", call[r].to > 0,
           NEW op \in {"report", "throw"}, NEW v, PassOn(r, op, v)
    PROVE  TaskInv'
<1> USE DEF TaskInv
<1>1. RunsShape' /\ OnlyRun(r)
    BY DEF PassOn, RunsShape, OnlyRun
<1>2. at[r] = "reporting" /\ at'[r] = "reporting"
    BY DEF RunInv, InCall, PassOn
<1>3. call[r].to = Len(stack[r]) /\ Linked(stack[r])
    BY DEF RunInv
<1>4. stack[r] # <<>>
    BY <1>3, LinkedLength
<1>5. /\ stack'[r] = Front(stack[r])
      /\ call'[r] = [op |-> op, value |-> v, to |-> Last(stack[r]).to, as |-> Last(stack[r]).as]
    BY <1>3 DEF PassOn, RunsShape, Last
<1>6. Linked(stack[r])' /\ call'[r].to = Len(stack'[r])
    BY <1>3, <1>4, <1>5, PopLinked
<1>7. call'[r] # NoCall
    BY <1>5 DEF NoCall
<1>8. RunInv(r)'
    BY <1>2, <1>6, <1>7 DEF RunInv, InCall
<1>9. QueuesInv'
    BY <1>1, <1>2, QueuesStay DEF PassOn
<1> QED
    BY <1>1, <1>8, <1>9, OneRun

\* A call ends: kickstart posts what run() made, task_executor goes on.
LEMMA ReturnStep ==
    ASSUME TaskInv, NEW r \in Runs, call[r] # NoCall, Return(r), UNCHANGED queue,
           DOMAIN stack' = Runs, \A s \in Runs \ {r} : stack'[s] = stack[s],
           Linked(stack[r])', stack'[r] = <<>> \/ Simple(r)',
           call[r].op = "create" => stack'[r] # <<>>
    PROVE  TaskInv'
<1> USE DEF TaskInv
<1>1. RunsShape' /\ OnlyRun(r)
    BY DEF Return, RunsShape, OnlyRun, Places
<1>2. at[r] \in InCall
    BY DEF RunInv
<1>3. call'[r] = NoCall /\ at'[r] = IF at[r] = "starting" THEN "kickstart" ELSE "tail"
    BY DEF Return, RunsShape
<1>4. at[r] = "starting" => call[r].op = "create"
    BY DEF RunInv
<1>5. RunInv(r)'
    BY <1>2, <1>3, <1>4 DEF RunInv, InCall
<1>6. QueuesInv'
    BY <1>1, <1>2, QueuesStay DEF InCall
<1> QED
    BY <1>1, <1>5, <1>6, OneRun

LEMMA CreateAndSpawnStep ==
    ASSUME TaskInv, NEW r \in Runs, call[r].op = "create", NEW n, NEW as, CreateAndSpawn(r, n, as)
    PROVE  TaskInv'
<1> DEFINE c == [Created(r) EXCEPT !.input = Copied(@), !.count = n]
<1>1. call[r] # NoCall
    BY DEF NoCall
<1>2. Linked(stack[r]) /\ call[r].to = Len(stack[r])
    BY <1>1 DEF TaskInv, RunInv
<1>3. IsContext(Created(r)) /\ Created(r).to = Len(stack[r])
    BY <1>2, ContextIsOne DEF Created, Context
<1>4. IsContext(c) /\ c.to = Len(stack[r])
  <2>1. \A v : LET d == [Created(r) EXCEPT !.input = v, !.count = n]
               IN  IsContext(d) /\ d.to = Len(stack[r])
      BY <1>3, ContextChanged
  <2>2. c = [Created(r) EXCEPT !.input = Copied(Created(r).input), !.count = n]
      OBVIOUS
  <2> QED
      BY <2>1, <2>2
<1> HIDE DEF c
<1>5. Linked(Append(stack[r], c))
    BY <1>2, <1>4, PushLinked
<1>6. Spawn(r, Append(stack[r], c), Sub[call[r].task][1], call[r].value, as)
    BY DEF CreateAndSpawn, c
<1> QED
    BY <1>1, <1>5, <1>6, SpawnStep

LEMMA CreateSteps ==
    ASSUME TaskInv, NoZeroRepeat, NEW r \in Runs, Create(r)
    PROVE  TaskInv'
<1>1. CASE CreateSimple(r)
  <2> USE <1>1 DEF CreateSimple, Creates
  <2>1. call[r] # NoCall
      BY DEF NoCall
  <2>2. Linked(stack[r]) /\ call[r].to = Len(stack[r])
      BY <2>1 DEF TaskInv, RunInv
  <2>3. IsContext(Created(r)) /\ Created(r).to = Len(stack[r]) /\ Kind[Created(r).task] = "simple"
      BY <2>2, ContextIsOne DEF Created, Context
  <2>4. /\ stack'[r] = Append(stack[r], Created(r)) /\ DOMAIN stack' = Runs
        /\ \A s \in Runs \ {r} : stack'[s] = stack[s]
      BY DEF TaskInv, RunsShape
  <2>5. Linked(stack[r])' /\ stack'[r] # <<>> /\ Last(stack'[r]) = Created(r)
      BY <2>2, <2>3, <2>4, PushLinked
  <2>6. Simple(r)'
      BY <2>3, <2>5 DEF Simple, Top
  <2> QED
      BY <2>1, <2>4, <2>5, <2>6, ReturnStep
<1>2. CASE CreateRepeat(r)
  <2> USE <1>2 DEF CreateRepeat, Creates
  <2>1. call[r] # NoCall
      BY DEF NoCall
  <2>2. Linked(stack[r]) /\ call[r].to = Len(stack[r])
      BY <2>1 DEF TaskInv, RunInv
  <2>3. IsContext(Created(r)) /\ Created(r).to = Len(stack[r])
      BY <2>2, ContextIsOne DEF Created, Context
  <2>4. Linked(Append(stack[r], Created(r)))
      BY <2>2, <2>3, PushLinked
  <2>5. Spawn(r, Append(stack[r], Created(r)), Sub[call[r].task][1], 0, "result")
      BY DEF NoZeroRepeat
  <2> QED
      BY <2>1, <2>4, <2>5, SpawnStep
<1> QED
    BY <1>1, <1>2, CreateAndSpawnStep
       DEF Create, Creates, CreateSequential, CreateConditional, CreateLoop, CreateIntercept

LEMMA SpawnAgainStep ==
    ASSUME TaskInv, NEW r \in Runs, call[r] # NoCall, call[r].to > 0, NEW v, NEW n,
           NEW t, NEW input, NEW as, Spawn(r, WithInput(r, v, n), t, input, as)
    PROVE  TaskInv'
<1>1. Linked(stack[r]) /\ call[r].to = Len(stack[r])
    BY DEF TaskInv, RunInv
<1>2. call[r].to \in DOMAIN stack[r]
    BY <1>1, LinkedLength
<1>3. Linked(WithInput(r, v, n))
    BY <1>1, <1>2, ChangeLinked DEF WithInput
<1> QED
    BY <1>3, SpawnStep

LEMMA ReportSteps ==
    ASSUME TaskInv, NEW r \in Runs, Report(r)
    PROVE  TaskInv'
<1>1. call[r] # NoCall /\ call[r].op \in {"report", "throw"}
    BY DEF Report, ReportToNobody, ReportSequential, ReportConditional, ReportLoopPredicate,
           ReportLoopBody, ReportRepeat, ReportIntercept, ReportException, Reports, NoCall
<1>2. CASE ReportToNobody(r)
  <2> USE <1>2 DEF ReportToNobody
  <2>1. Linked(stack[r]) /\ call[r].to = Len(stack[r])
      BY <1>1 DEF TaskInv, RunInv
  <2>2. stack[r] = <<>>
      BY <2>1, LinkedLength
  <2> QED
      BY <1>1, <2>1, <2>2, ReturnStep DEF TaskInv, RunsShape
<1>3. ASSUME call[r].to > 0, NEW v, PassOn(r, "report", v) PROVE TaskInv'
    BY <1>1, <1>3, PassOnStep
<1>4. CASE ReportSequential(r)
    BY <1>1, <1>3, <1>4, SpawnAgainStep DEF ReportSequential, Reports
<1>5. CASE ReportConditional(r)
  <2> DEFINE branch == IF call[r].value = Yes THEN 2 ELSE 3
  <2>1. \/ PassOn(r, "report", call[r].value)
        \/ Spawn(r, WithInput(r, Copied(Self(r).input), 1), Subtasks(r)[branch], Self(r).input,
                 "result")
        \/ PassOn(r, "report", NoValue)
      BY <1>5 DEF ReportConditional
  <2>2. call[r].to > 0
      BY <1>5 DEF ReportConditional, Reports
  <2> HIDE DEF branch
  <2> QED
      BY <1>1, <1>3, <2>1, <2>2, SpawnAgainStep
<1>6. CASE ReportLoopPredicate(r)
  <2>1. PICK t, as :
            \/ PassOn(r, "report", Self(r).input)
            \/ Spawn(r, WithInput(r, Copied(Self(r).input), 0), t, Self(r).input, as)
      BY <1>6 DEF ReportLoopPredicate
  <2>2. call[r].to > 0
      BY <1>6 DEF ReportLoopPredicate, Reports
  <2> QED
      BY <1>1, <1>3, <2>1, <2>2, SpawnAgainStep
<1>7. CASE ReportLoopBody(r)
    BY <1>1, <1>7, SpawnAgainStep DEF ReportLoopBody, Reports
<1>8. CASE ReportRepeat(r)
  <2>1. PICK n, v :
            \/ PassOn(r, "report", v)
            \/ Spawn(r, WithInput(r, Self(r).input, n), Subtasks(r)[1], n, "result")
      BY <1>8 DEF ReportRepeat
  <2>2. call[r].to > 0
      BY <1>8 DEF ReportRepeat, Reports
  <2> QED
      BY <1>1, <1>3, <2>1, <2>2, SpawnAgainStep
<1>9. CASE ReportIntercept(r)
    BY <1>3, <1>9 DEF ReportIntercept, Reports
<1>10. CASE ReportException(r)
  <2> USE <1>10 DEF ReportException
  <2>1. CASE Accepting(r) = {}
      BY <1>1, <2>1, PassOnStep
  <2>2. CASE Accepting(r) # {}
    <3>1. Linked(stack[r])
        BY DEF TaskInv, RunInv
    <3>2. Spawn(r, stack[r], Subtasks(r)[1 + Min(Accepting(r))], call[r].value, "caught")
        BY <2>2
    <3> QED
        BY <1>1, <3>1, <3>2, SpawnStep
  <2> QED
      BY <2>1, <2>2
<1> QED
    BY <1>2, <1>4, <1>5, <1>6, <1>7, <1>8, <1>9, <1>10 DEF Report

LEMMA QueuesKept ==
    ASSUME TaskInv, NEW r \in Runs, OnlyRun(r), NEW p,
           at[r] # "queued", at'[r] = "queued", queue' = [queue EXCEPT ![p] = Append(@, r)]
    PROVE  QueuesInv'
<1> USE DEF TaskInv, RunsShape, QueuesInv
<1>1. \A q \in Runners : queue[q] \in Seq(Runs) /\ DOMAIN queue[q] = 1..Len(queue[q])
                          /\ Len(queue[q]) \in Nat
    OBVIOUS
<1>2. \A q \in Runners : \A i \in DOMAIN queue[q] : queue[q][i] \in Runs \ {r}
    BY <1>1
<1>3. CASE p \notin Runners
  <2>1. \A q \in Runners : queue'[q] = queue[q]
      BY <1>3
  <2> QED
      BY <1>2, <2>1 DEF OnlyRun
<1>4. CASE p \in Runners
  <2> DEFINE z == Append(queue[p], r)
             n == Len(queue[p]) + 1
  <2>1. /\ z \in Seq(Runs) /\ Len(z) = n /\ z[n] = r
        /\ \A i \in 1..Len(queue[p]) : z[i] = queue[p][i]
      BY <1>1, <1>4, AppendProperties
  <2>2. DOMAIN z = 1..n
      BY <2>1
  <2>3. queue'[p] = z /\ \A q \in Runners \ {p} : queue'[q] = queue[q]
      BY <1>4
  <2> HIDE DEF z
  <2>4. \A q \in Runners : queue'[q] \in Seq(Runs)
      BY <1>1, <2>1, <2>3
  <2>5. \A q \in Runners : \A i \in DOMAIN queue'[q] :
            \/ i \in DOMAIN queue[q] /\ queue'[q][i] = queue[q][i]
            \/ q = p /\ i = n /\ queue'[q][i] = r
      BY <1>1, <1>4, <2>1, <2>2, <2>3
  <2>6. \A q \in Runners : \A i \in DOMAIN queue'[q] : at'[queue'[q][i]] = "queued"
      BY <1>2, <2>5 DEF OnlyRun
  <2>7. \A q, q2 \in Runners : \A i \in DOMAIN queue'[q], j \in DOMAIN queue'[q2] :
            queue'[q][i] = queue'[q2][j] => q = q2 /\ i = j
      BY <1>2, <2>5
  <2> QED
      BY <2>4, <2>6, <2>7
<1> QED
    BY <1>3, <1>4

LEMMA KickstartStep ==
    ASSUME TaskInv, NEW r \in Runs, Kickstart(r)
    PROVE  TaskInv'
<1> USE DEF TaskInv
<1>1. at[r] = "kickstart" /\ RunInv(r)
    BY DEF Kickstart
<1>2. DOMAIN queue' = Runners
    BY DEF Kickstart, RunsShape
<1>3. RunsShape' /\ OnlyRun(r)
    BY <1>2 DEF Kickstart, Discard, RunsShape, OnlyRun, Places
<1>4. CASE at'[r] = "queued"
  <2>1. stack' = stack /\ call' = call
        /\ \E p : queue' = [queue EXCEPT ![p] = Append(@, r)]
      BY <1>4 DEF Kickstart, Discard, RunsShape
  <2>2. RunInv(r)'
      BY <1>1, <1>4, <2>1 DEF RunInv, InCall, Simple, Top
  <2>3. QueuesInv'
      BY <1>1, <1>3, <1>4, <2>1, QueuesKept
  <2> QED
      BY <1>3, <2>2, <2>3, OneRun
<1>5. CASE at'[r] # "queued"
  <2>1. stack'[r] = <<>> /\ at'[r] = "over" /\ call' = call /\ queue' = queue
      BY <1>5 DEF Kickstart, Discard, RunsShape
  <2>2. Linked(stack[r])'
      BY <2>1, EmptyLinked
  <2>3. RunInv(r)'
      BY <1>1, <2>1, <2>2 DEF RunInv, InCall
  <2>4. QueuesInv'
      BY <1>1, <1>3, <2>1, QueuesStay
  <2> QED
      BY <1>3, <2>3, <2>4, OneRun
<1> QED
    BY <1>4, <1>5

LEMMA CallEndsStep ==
    ASSUME TaskInv, NEW r \in Runs, NEW op \in {"report", "throw"}, NEW v,
           CallEnds(r, op, v, Front(stack[r]))
    PROVE  TaskInv'
<1> USE DEF TaskInv
<1>1. at[r] = "executing" /\ RunInv(r)
    BY DEF CallEnds
<1>2. RunsShape' /\ OnlyRun(r)
    BY DEF CallEnds, RunsShape, OnlyRun, Places
<1>3. /\ stack'[r] = Front(stack[r]) /\ at'[r] = "reporting"
      /\ call'[r] = [op |-> op, value |-> v, to |-> Top(r).to, as |-> Top(r).as]
    BY DEF CallEnds, RunsShape
<1>4. Linked(stack[r])' /\ call'[r].to = Len(stack'[r])
    BY <1>1, <1>3, PopLinked DEF RunInv, Top
<1>5. call'[r] # NoCall
    BY <1>3 DEF NoCall
<1>6. RunInv(r)'
    BY <1>3, <1>4, <1>5 DEF RunInv, InCall
<1>7. QueuesInv'
    BY <1>1, <1>2, QueuesStay DEF CallEnds
<1> QED
    BY <1>2, <1>6, <1>7, OneRun

LEMMA EndStep ==
    ASSUME TaskInv, NEW r \in Runs, End(r)
    PROVE  TaskInv'
<1> USE DEF TaskInv
<1>1. at[r] = "tail" /\ RunInv(r)
    BY DEF End, EndWith
<1>2. DOMAIN queue' = Runners
    BY DEF End, EndWith, RunsShape
<1>3. RunsShape' /\ OnlyRun(r)
    BY <1>2 DEF End, EndWith, RunsShape, OnlyRun, Places
<1>4. stack' = stack /\ call' = call /\ at'[r] = IF stack[r] = <<>> THEN "over" ELSE "queued"
    BY DEF End, EndWith, RunsShape
<1>5. RunInv(r)'
    BY <1>1, <1>4 DEF RunInv, InCall, Simple, Top
<1>6. QueuesInv'
    BY <1>1, <1>3, <1>4, QueuesKept, QueuesStay DEF End, EndWith
<1> QED
    BY <1>3, <1>5, <1>6, OneRun

LEMMA RunStep ==
    ASSUME TaskInv, NEW r \in Runs, NEW t, NEW input, Run(r, t, input)
    PROVE  TaskInv'
<1> USE DEF TaskInv
<1>1. at[r] = "new" /\ RunInv(r)
    BY DEF Run
<1>2. RunsShape' /\ OnlyRun(r)
    BY DEF Run, RunsShape, OnlyRun, Places
<1>3. /\ stack' = stack /\ at'[r] = "starting"
      /\ call'[r] = [op |-> "create", task |-> t, value |-> input, to |-> 0, as |-> "none"]
    BY DEF Run, RunsShape
<1>4. call'[r] # NoCall /\ call'[r].op = "create"
    BY <1>3 DEF NoCall
<1>5. stack'[r] = <<>> /\ call'[r].to = 0 /\ Len(<<>>) = 0
    BY <1>1, <1>3 DEF RunInv
<1>6. RunInv(r)'
    BY <1>3, <1>4, <1>5, EmptyLinked DEF RunInv, InCall
<1>7. QueuesInv'
    BY <1>1, <1>2, QueuesStay DEF Run
<1> QED
    BY <1>2, <1>6, <1>7, OneRun

\* The stack that is taken was posted once: it waits nowhere any more.
LEMMA TaskExecutorStep ==
    ASSUME TaskInv, NEW q \in Runners, TaskExecutor(q)
    PROVE  TaskInv'
<1> USE DEF TaskInv
<1>1. queue[q] \in Seq(Runs) /\ queue[q] # <<>>
    BY DEF TaskExecutor, QueuesInv
<1> PICK r \in Runs : r = Head(queue[q])
    BY <1>1, HeadTailProperties
<1>2. /\ r = queue[q][1] /\ Len(queue[q]) \in Nat \ {0}
      /\ DOMAIN queue[q] = 1..Len(queue[q])
      /\ Tail(queue[q]) \in Seq(Runs) /\ Len(Tail(queue[q])) = Len(queue[q]) - 1
      /\ \A i \in 1..(Len(queue[q]) - 1) : Tail(queue[q])[i] = queue[q][i + 1]
    BY <1>1, HeadTailProperties, EmptySeq
<1>3. at[r] = "queued" /\ RunInv(r)
    BY <1>2 DEF QueuesInv
<1>4. call' = call /\ queue' = [queue EXCEPT ![q] = Tail(@)]
      /\ \/ stack' = stack /\ at' = [at EXCEPT ![r] = IF Simple(r) THEN "executing" ELSE "tail"]
         \/ stack' = [stack EXCEPT ![r] = <<>>] /\ at' = [at EXCEPT ![r] = "over"]
    BY DEF TaskExecutor, Discard
<1>5. RunsShape' /\ OnlyRun(r)
    BY <1>2, <1>4 DEF RunsShape, OnlyRun, Places
<1>6. RunInv(r)'
  <2>1. CASE stack' = stack /\ at' = [at EXCEPT ![r] = IF Simple(r) THEN "executing" ELSE "tail"]
      BY <1>2, <1>3, <1>4, <2>1 DEF RunInv, RunsShape, InCall, Simple, Top
  <2>2. CASE stack' = [stack EXCEPT ![r] = <<>>] /\ at' = [at EXCEPT ![r] = "over"]
    <3>1. stack'[r] = <<>> /\ at'[r] = "over"
        BY <1>2, <2>2 DEF RunsShape
    <3>2. Linked(stack[r])'
        BY <3>1, EmptyLinked
    <3> QED
        BY <1>3, <1>4, <3>1, <3>2 DEF RunInv, InCall
  <2> QED
      BY <1>4, <2>1, <2>2
<1>7. QueuesInv'
  <2>1. queue'[q] = Tail(queue[q]) /\ \A p \in Runners \ {q} : queue'[p] = queue[p]
      BY <1>4 DEF RunsShape
  <2>2. DOMAIN queue'[q] = 1..(Len(queue[q]) - 1)
      BY <1>2, <2>1
  <2> DEFINE Before(p, i) == IF p = q THEN i + 1 ELSE i
  <2>3. \A p \in Runners : \A i \in DOMAIN queue'[p] :
            Before(p, i) \in DOMAIN queue[p] /\ queue'[p][i] = queue[p][Before(p, i)]
    <3> TAKE p \in Runners
    <3> TAKE i \in DOMAIN queue'[p]
    <3>1. CASE p = q
      <4>1. i \in 1..(Len(queue[q]) - 1)
          BY <2>2, <3>1
      <4>2. i + 1 \in 1..Len(queue[q]) /\ queue'[q][i] = queue[q][i + 1]
          BY <1>2, <2>1, <4>1
      <4> QED
          BY <1>2, <3>1, <4>2
    <3>2. CASE p # q
        BY <2>1, <3>2
    <3> QED
        BY <3>1, <3>2
  <2>4. \A i \in DOMAIN queue'[q] : i + 1 # 1 /\ i \in Nat
      BY <1>2, <2>2
  <2>5. \A p \in Runners : queue'[p] \in Seq(Runs)
      BY <1>2, <2>1 DEF QueuesInv
  <2>6. \A p \in Runners : \A i \in DOMAIN queue'[p] : queue'[p][i] \in Runs \ {r}
    <3> TAKE p \in Runners
    <3> TAKE i \in DOMAIN queue'[p]
    <3>1. queue'[p][i] \in Runs
        BY <2>5
    <3>2. p = q => Before(p, i) # 1
        BY <2>4
    <3>3. queue[p][Before(p, i)] # queue[q][1]
        BY <1>2, <2>3, <3>2 DEF QueuesInv
    <3> QED
        BY <1>2, <2>3, <3>1, <3>3
  <2>7. \A p \in Runners : \A i \in DOMAIN queue'[p] : at'[queue'[p][i]] = "queued"
      BY <1>5, <2>3, <2>6 DEF OnlyRun, QueuesInv
  <2>8. \A p, o \in Runners : \A i \in DOMAIN queue'[p], j \in DOMAIN queue'[o] :
            queue'[p][i] = queue'[o][j] => p = o /\ i = j
    <3> TAKE p, o \in Runners
    <3> TAKE i \in DOMAIN queue'[p]
    <3> TAKE j \in DOMAIN queue'[o]
    <3> HAVE queue'[p][i] = queue'[o][j]
    <3>1. p = o /\ Before(p, i) = Before(o, j)
        BY <2>3 DEF QueuesInv
    <3>2. p = q => i \in Nat /\ j \in Nat
        BY <2>4, <3>1
    <3> QED
        BY <3>1, <3>2
  <2> QED
      BY <2>5, <2>7, <2>8 DEF QueuesInv
<1> QED
    BY <1>2, <1>5, <1>6, <1>7, OneRun

LEMMA TaskStep == TaskInv /\ NoZeroRepeat /\ [Next]_vars => TaskInv'
<1> SUFFICES ASSUME TaskInv, NoZeroRepeat, [Next]_vars PROVE TaskInv'
    OBVIOUS
<1>1. ASSUME NEW r \in Runs, NEW t, NEW input, Run(r, t, input) PROVE TaskInv'
    BY <1>1, RunStep
<1>2. ASSUME NEW r \in Runs, Step(r) PROVE TaskInv'
  <2>1. CASE CallEndsSomehow(r)
      BY <2>1, CallEndsStep DEF CallEndsSomehow, CallReturns, CallThrows
  <2> QED
      BY <1>2, <2>1, CreateSteps, ReportSteps, KickstartStep, EndStep DEF Step
<1>3. ASSUME NEW q \in Runners, TaskExecutor(q) PROVE TaskInv'
    BY <1>3, TaskExecutorStep
<1>4. CASE UNCHANGED <<stack, call, at, queue>>
    BY <1>4 DEF TaskInv, RunsShape, RunInv, QueuesInv, Simple, Top
<1> QED
    BY <1>1, <1>2, <1>3, <1>4 DEF Next, DropRunner, vars

LEMMA TaskInit == Init => TaskInv
<1> SUFFICES ASSUME Init PROVE TaskInv
    OBVIOUS
<1> USE DEF Init
<1>1. RunsShape
    BY DEF RunsShape, Places
<1>2. ASSUME NEW r \in Runs PROVE RunInv(r)
    BY EmptyLinked DEF RunInv, InCall
<1>3. QueuesInv
    BY DEF QueuesInv
<1> QED
    BY <1>1, <1>2, <1>3 DEF TaskInv

(***************************************************************************)
(* For every tree of tasks and any number of runs and runners: each        *)
(* context reports to the one below it, only the one on top is called, a   *)
(* stack that is posted has a simple task on top, and when a run ends      *)
(* every context was deleted (the reporters, kickstart, task_executor), as *)
(* long as no repeat is given zero repetitions (repeat_impl.h 86 creates  *)
(* no subtask then, and the run goes round with a repeat on top).          *)
(***************************************************************************)
THEOREM StacksAreKept == Spec /\ []NoZeroRepeat => []StackDiscipline
<1>1. TaskInv => StackDiscipline
    BY DEF TaskInv, RunInv, Linked, StackDiscipline
<1> QED
    BY <1>1, TaskInit, TaskStep, PTL DEF Spec
-----------------------------------------------------------------------------
(***************************************************************************)
(* What a run computes.  A place in the code that a run has reached: the   *)
(* evaluation of a task with an input, begun at a place of the trace.      *)
(***************************************************************************)
Code(t, v, k) == [task |-> t, input |-> v, k |-> k]

Has(R, a, y) == Yields(R, a.task, a.input, a.k, y)

\* It follows from the rules that a yields y.
Follows(tr, a, y) == \A R : Closed(R, tr) => Has(R, a, y)

\* What is left of the task of the context c, once the subtask that was asked
\* to report `as' has yielded y, yields z.
Rest(R, c, as, y, z) ==
    /\ Kind[c.task] = "sequential" => AfterTurn(R, c.task, c.count, y, z)
    /\ Kind[c.task] = "conditional" =>
          IF c.count = 0 THEN AfterIf(R, c.task, c.input, y, z) ELSE z = y
    /\ Kind[c.task] = "loop" =>
          IF as = "predicate" THEN AfterTest(R, c.task, c.input, y, z)
          ELSE AfterBody(R, c.task, y, z)
    /\ Kind[c.task] = "repeat" => AfterRound(R, c.task, c.count, c.input, y, z)
    /\ Kind[c.task] = "intercept" => IF as = "caught" THEN z = y ELSE AfterTry(R, c.task, y, z)

\* The context is at some turn of its task.
AtTurn(c, as) ==
    /\ c.task \in Tasks
    /\ Kind[c.task] = "sequential" => c.count \in DOMAIN Sub[c.task]
    /\ Kind[c.task] = "conditional" => c.count \in {0, 1} /\ c.input \notin Movable
    /\ Kind[c.task] = "loop" => as \in {"predicate", "body"} /\ c.input \notin Movable
    /\ Kind[c.task] = "repeat" => c.count \in Nat /\ c.input \in Nat /\ c.count < c.input

\* What the subtask b yields leads to what the context's own task a yields.
Leads(tr, c, as, a, b) ==
    \A R : Closed(R, tr) =>
        \A y, z : Has(R, b, y) /\ Rest(R, c, as, y, z) => Has(R, a, z)

Frame(tr, c, as, a, b) ==
    /\ AtTurn(c, as)
    /\ b.task \in Tasks
    /\ Leads(tr, c, as, a, b)

\* Every set of natural numbers has a least one.
LessThan == {ss \in Nat \X Nat : ss[1] < ss[2]}

LEMMA LessThanIsWellFounded == IsWellFoundedOn(LessThan, Nat)
  BY NatLessThanWellFounded, Zenon DEF OpToRel, LessThan

LEMMA LeastOne ==
    ASSUME NEW T, T \subseteq Nat, T # {}
    PROVE  \E x \in T : \A y \in T : x <= y
<1>1. PICK x \in T : \A y \in T : ~ (<<y, x>> \in LessThan)
    BY LessThanIsWellFounded, WFMin
<1>2. \A y, z \in Nat : y < z => <<y, z>> \in LessThan
    BY DEF LessThan
<1>3. \A y \in T : x <= y
  <2> TAKE y \in T
  <2>1. ~ (y < x)
      BY <1>1, <1>2
  <2> QED
      BY <2>1
<1> QED
    BY <1>3

LEMMA LeastIsOne ==
    ASSUME NEW T, T \subseteq Nat, T # {}
    PROVE  Min(T) \in T /\ \A y \in T : Min(T) <= y
<1>1. \E x \in T : \A y \in T : x <= y
    BY LeastOne
<1> QED
    BY <1>1 DEF Min

LEMMA SubtaskIsTask ==
    ASSUME NEW t \in Tasks, Kind[t] # "simple", NEW n \in DOMAIN Sub[t]
    PROVE  Sub[t][n] \in Tasks
  BY TasksAssumption

LEMMA FirstSubtask ==
    ASSUME NEW t \in Tasks, Kind[t] # "simple"
    PROVE  1 \in DOMAIN Sub[t] /\ Sub[t][1] \in Tasks /\ DOMAIN Sub[t] = 1..Len(Sub[t])
           /\ Len(Sub[t]) \in Nat
<1>1. Sub[t] \in Seq(Tasks) /\ Sub[t] # <<>>
    BY TasksAssumption
<1>2. Len(Sub[t]) \in Nat /\ DOMAIN Sub[t] = 1..Len(Sub[t]) /\ Len(Sub[t]) # 0
    BY <1>1, EmptySeq
<1> QED
    BY <1>1, <1>2

\* Whatever the kind of task, what stops a subtask stops it, unless it is caught.
LEMMA StopsAll ==
    ASSUME NEW R, NEW c, NEW as, NEW y, Stops(y),
           Kind[c.task] = "intercept" =>
               y.as # "exception" \/ as = "caught" \/ Handlers(c.task, y.value) = {}
    PROVE  Rest(R, c, as, y, y)
  BY DEF Rest, AfterTurn, AfterIf, AfterTest, AfterBody, AfterRound, AfterTry

LEMMA PassedOn ==
    ASSUME NEW tr, NEW c, NEW as, NEW a, NEW b, Frame(tr, c, as, a, b),
           NEW y, Follows(tr, b, y), NEW z, \A R : Rest(R, c, as, y, z)
    PROVE  Follows(tr, a, z)
  BY DEF Frame, Leads, Follows

\* The next subtask, d, is called in place of b.
LEMMA LedOn ==
    ASSUME NEW tr, NEW c, NEW as, NEW a, NEW b, Frame(tr, c, as, a, b),
           NEW y, Follows(tr, b, y), NEW e, NEW ds, NEW d,
           \A R : Closed(R, tr) =>
               \A u, z : Has(R, d, u) /\ Rest(R, e, ds, u, z) => Rest(R, c, as, y, z)
    PROVE  Leads(tr, e, ds, a, d)
<1> SUFFICES ASSUME NEW R, Closed(R, tr), NEW u, NEW z, Has(R, d, u), Rest(R, e, ds, u, z)
             PROVE  Has(R, a, z)
    BY DEF Leads
<1>1. Rest(R, c, as, y, z)
    OBVIOUS
<1>2. Has(R, b, y)
    BY DEF Follows
<1> QED
    BY <1>1, <1>2 DEF Frame, Leads
-----------------------------------------------------------------------------
(***************************************************************************)
(* A context created, by the kind of its task: the rule of the task begins *)
(* with its first subtask.                                                 *)
(***************************************************************************)
LEMMA SequenceBegins ==
    ASSUME NEW tr, NEW t \in Tasks, Kind[t] = "sequential", NEW v, NEW k, NEW c, NEW as,
           c.task = t, c.count = 1
    PROVE  Frame(tr, c, as, Code(t, v, k), Code(Sub[t][1], v, k))
<1>1. 1 \in DOMAIN Sub[t] /\ Sub[t][1] \in Tasks
    BY FirstSubtask
<1>2. AtTurn(c, as)
    BY <1>1 DEF AtTurn
<1>3. ASSUME NEW R, Closed(R, tr), NEW y, NEW z, Has(R, Code(Sub[t][1], v, k), y),
             Rest(R, c, as, y, z)
      PROVE  Has(R, Code(t, v, k), z)
  <2>1. SequentialRule(R) /\ AfterTurn(R, t, 1, y, z) /\ Yields(R, Sub[t][1], v, k, y)
      BY <1>3 DEF Closed, Rest, Has, Code
  <2>2. TurnYields(R, t, 1, v, k, z)
      BY <1>1, <2>1 DEF SequentialRule
  <2>3. Yields(R, t, v, k, z)
      BY <2>1, <2>2 DEF SequentialRule
  <2> QED
      BY <2>3 DEF Has, Code
<1> QED
    BY <1>1, <1>2, <1>3 DEF Frame, Leads, Code

LEMMA ConditionalBegins ==
    ASSUME NEW tr, NEW t \in Tasks, Kind[t] = "conditional", NEW v, NEW k, NEW c, NEW as,
           c.task = t, c.count = 0, c.input = v, v \notin Movable
    PROVE  Frame(tr, c, as, Code(t, v, k), Code(Sub[t][1], v, k))
<1>1. Sub[t][1] \in Tasks
    BY FirstSubtask
<1>2. AtTurn(c, as)
    BY DEF AtTurn
<1>3. ASSUME NEW R, Closed(R, tr), NEW y, NEW z, Has(R, Code(Sub[t][1], v, k), y),
             Rest(R, c, as, y, z)
      PROVE  Has(R, Code(t, v, k), z)
  <2>1. ConditionalRule(R) /\ AfterIf(R, t, v, y, z) /\ Yields(R, Sub[t][1], v, k, y)
      BY <1>3 DEF Closed, Rest, Has, Code
  <2>2. Yields(R, t, v, k, z)
      BY <2>1 DEF ConditionalRule
  <2> QED
      BY <2>2 DEF Has, Code
<1> QED
    BY <1>1, <1>2, <1>3 DEF Frame, Leads, Code

LEMMA LoopBegins ==
    ASSUME NEW tr, NEW t \in Tasks, Kind[t] = "loop", NEW v, NEW k, NEW c,
           c.task = t, c.input = v, v \notin Movable
    PROVE  Frame(tr, c, "predicate", Code(t, v, k), Code(Sub[t][1], v, k))
<1>1. Sub[t][1] \in Tasks
    BY FirstSubtask
<1>2. AtTurn(c, "predicate")
    BY DEF AtTurn
<1>3. ASSUME NEW R, Closed(R, tr), NEW y, NEW z, Has(R, Code(Sub[t][1], v, k), y),
             Rest(R, c, "predicate", y, z)
      PROVE  Has(R, Code(t, v, k), z)
  <2>1. LoopRule(R) /\ AfterTest(R, t, v, y, z) /\ Yields(R, Sub[t][1], v, k, y)
      BY <1>3 DEF Closed, Rest, Has, Code
  <2>2. WhileYields(R, t, v, k, z)
      BY <2>1 DEF LoopRule
  <2>3. Yields(R, t, v, k, z)
      BY <2>1, <2>2 DEF LoopRule
  <2> QED
      BY <2>3 DEF Has, Code
<1> QED
    BY <1>1, <1>2, <1>3 DEF Frame, Leads, Code

LEMMA RepeatBegins ==
    ASSUME NEW tr, NEW t \in Tasks, Kind[t] = "repeat", NEW n \in Nat, n > 0, NEW k \in Nat,
           NEW c, NEW as, c.task = t, c.count = 0, c.input = n
    PROVE  Frame(tr, c, as, Code(t, n, k), Code(Sub[t][1], 0, k))
<1>1. Sub[t][1] \in Tasks
    BY FirstSubtask
<1>2. AtTurn(c, as)
  <2>1. c.count \in Nat /\ c.input \in Nat /\ c.count < c.input
      OBVIOUS
  <2> QED
      BY <2>1 DEF AtTurn
<1>3. ASSUME NEW R, Closed(R, tr), NEW y, NEW z, Has(R, Code(Sub[t][1], 0, k), y),
             Rest(R, c, as, y, z)
      PROVE  Has(R, Code(t, n, k), z)
  <2>1. RepeatRule(R) /\ AfterRound(R, t, 0, n, y, z) /\ Yields(R, Sub[t][1], 0, k, y)
      BY <1>3 DEF Closed, Rest, Has, Code
  <2>2. ForYields(R, t, 0, n, k, z)
      BY <2>1 DEF RepeatRule
  <2>3. Yields(R, t, n, k, z)
      BY <2>1, <2>2 DEF RepeatRule
  <2> QED
      BY <2>3 DEF Has, Code
<1> QED
    BY <1>1, <1>2, <1>3 DEF Frame, Leads, Code

LEMMA InterceptBegins ==
    ASSUME NEW tr, NEW t \in Tasks, Kind[t] = "intercept", NEW v, NEW k, NEW c,
           c.task = t
    PROVE  Frame(tr, c, "result", Code(t, v, k), Code(Sub[t][1], v, k))
<1>1. Sub[t][1] \in Tasks
    BY FirstSubtask
<1>2. AtTurn(c, "result")
    BY DEF AtTurn
<1>3. ASSUME NEW R, Closed(R, tr), NEW y, NEW z, Has(R, Code(Sub[t][1], v, k), y),
             Rest(R, c, "result", y, z)
      PROVE  Has(R, Code(t, v, k), z)
  <2>1. InterceptRule(R) /\ AfterTry(R, t, y, z) /\ Yields(R, Sub[t][1], v, k, y)
      BY <1>3 DEF Closed, Rest, Has, Code
  <2>2. Yields(R, t, v, k, z)
      BY <2>1 DEF InterceptRule
  <2> QED
      BY <2>2 DEF Has, Code
<1> QED
    BY <1>1, <1>2, <1>3 DEF Frame, Leads, Code
-----------------------------------------------------------------------------
(***************************************************************************)
(* A subtask has yielded y and the context calls the next one.             *)
(***************************************************************************)
LEMMA SequenceGoesOn ==
    ASSUME NEW tr, NEW c, NEW as, NEW a, NEW b, Frame(tr, c, as, a, b),
           NEW y, Follows(tr, b, y), y.as = "value", Kind[c.task] = "sequential",
           c.count # Len(Sub[c.task]), NEW e, NEW es, e.task = c.task, e.count = c.count + 1
    PROVE  Frame(tr, e, es, a, Code(Sub[c.task][c.count + 1], y.value, y.k))
<1> DEFINE t == c.task
           d == Code(Sub[t][c.count + 1], y.value, y.k)
<1>1. t \in Tasks /\ c.count \in DOMAIN Sub[t]
    BY DEF Frame, AtTurn
<1>2. c.count + 1 \in DOMAIN Sub[t]
    BY <1>1, FirstSubtask
<1>3. AtTurn(e, es) /\ Sub[t][c.count + 1] \in Tasks
    BY <1>1, <1>2, SubtaskIsTask DEF AtTurn
<1>4. ASSUME NEW R, Closed(R, tr), NEW u, NEW z, Has(R, d, u), Rest(R, e, es, u, z)
      PROVE  Rest(R, c, as, y, z)
  <2>1. SequentialRule(R) /\ AfterTurn(R, t, c.count + 1, u, z)
        /\ Yields(R, Sub[t][c.count + 1], y.value, y.k, u)
      BY <1>4 DEF Closed, Rest, Has, Code
  <2>2. TurnYields(R, t, c.count + 1, y.value, y.k, z)
      BY <1>1, <1>2, <2>1 DEF SequentialRule
  <2> QED
      BY <2>2 DEF Rest, AfterTurn, Stops
<1> HIDE DEF d
<1>5. Leads(tr, e, es, a, d)
    BY <1>4, LedOn
<1> QED
    BY <1>3, <1>5 DEF Frame, Code, d

LEMMA OneBranch ==
    ASSUME NEW len \in {2, 3}, NEW n \in {2, 3}, n <= len
    PROVE  n \in 1..len /\ (n = 3 => len = 3)
  OBVIOUS

LEMMA ConditionalGoesOn ==
    ASSUME NEW tr, NEW c, NEW as, NEW a, NEW b, Frame(tr, c, as, a, b),
           NEW y, Follows(tr, b, y), y.as = "value", Kind[c.task] = "conditional",
           c.count = 0, NEW n, n = (IF y.value = Yes THEN 2 ELSE 3), n <= Len(Sub[c.task]),
           NEW e, NEW es, e.task = c.task, e.count = 1, e.input = c.input
    PROVE  Frame(tr, e, es, a, Code(Sub[c.task][n], c.input, y.k))
<1> DEFINE t == c.task
           d == Code(Sub[t][n], c.input, y.k)
<1>1. t \in Tasks /\ c.input \notin Movable
    BY DEF Frame, AtTurn
<1>2. n \in DOMAIN Sub[t] /\ (n = 3 => Len(Sub[t]) = 3)
  <2>1. Len(Sub[t]) \in {2, 3}
      BY <1>1, ShapesAssumption
  <2>2. DOMAIN Sub[t] = 1..Len(Sub[t])
      BY <1>1, FirstSubtask
  <2>3. n \in {2, 3}
      OBVIOUS
  <2> QED
      BY <2>1, <2>2, <2>3, OneBranch
<1>3. AtTurn(e, es) /\ Sub[t][n] \in Tasks
    BY <1>1, <1>2, SubtaskIsTask DEF AtTurn
<1>4. ASSUME NEW R, Closed(R, tr), NEW u, NEW z, Has(R, d, u), Rest(R, e, es, u, z)
      PROVE  Rest(R, c, as, y, z)
  <2>1. z = u /\ Yields(R, Sub[t][n], c.input, y.k, u)
      BY <1>4 DEF Rest, Has, Code
  <2>2. AfterIf(R, t, c.input, y, z)
      BY <1>2, <2>1 DEF AfterIf, Stops
  <2> QED
      BY <2>2 DEF Rest
<1> HIDE DEF d
<1>5. Leads(tr, e, es, a, d)
    BY <1>4, LedOn
<1> QED
    BY <1>3, <1>5 DEF Frame, Code, d

LEMMA LoopEntersBody ==
    ASSUME NEW tr, NEW c, NEW a, NEW b, Frame(tr, c, "predicate", a, b),
           NEW y, Follows(tr, b, y), y.as = "value", Kind[c.task] = "loop",
           y.value # No, Len(Sub[c.task]) = 2,
           NEW e, e.task = c.task, e.input = c.input
    PROVE  Frame(tr, e, "body", a, Code(Sub[c.task][2], c.input, y.k))
<1> DEFINE t == c.task
           d == Code(Sub[t][2], c.input, y.k)
<1>1. t \in Tasks /\ c.input \notin Movable
    BY DEF Frame, AtTurn
<1>2. 2 \in DOMAIN Sub[t]
    BY <1>1, FirstSubtask
<1>3. AtTurn(e, "body") /\ Sub[t][2] \in Tasks
    BY <1>1, <1>2, SubtaskIsTask DEF AtTurn
<1>4. ASSUME NEW R, Closed(R, tr), NEW u, NEW z, Has(R, d, u), Rest(R, e, "body", u, z)
      PROVE  Rest(R, c, "predicate", y, z)
  <2>1. AfterBody(R, t, u, z) /\ Yields(R, Sub[t][2], c.input, y.k, u)
      BY <1>4 DEF Rest, Has, Code
  <2>2. AfterTest(R, t, c.input, y, z)
      BY <2>1 DEF AfterTest, Stops
  <2> QED
      BY <2>2 DEF Rest
<1> HIDE DEF d
<1>5. Leads(tr, e, "body", a, d)
    BY <1>4, LedOn
<1> QED
    BY <1>3, <1>5 DEF Frame, Code, d

\* The predicate is called, after a body or because there is none, with the result v.
LEMMA LoopTestsAgain ==
    ASSUME NEW tr, NEW c, NEW as, NEW a, NEW b, Frame(tr, c, as, a, b),
           NEW y, Follows(tr, b, y), y.as = "value", Kind[c.task] = "loop", NEW v,
           \/ as = "predicate" /\ y.value # No /\ Len(Sub[c.task]) = 1 /\ v = c.input
           \/ as = "body" /\ v = y.value,
           NEW e, e.task = c.task, e.input = v, v \notin Movable
    PROVE  Frame(tr, e, "predicate", a, Code(Sub[c.task][1], v, y.k))
<1> DEFINE t == c.task
           d == Code(Sub[t][1], v, y.k)
<1>1. t \in Tasks
    BY DEF Frame, AtTurn
<1>2. Sub[t][1] \in Tasks
    BY <1>1, FirstSubtask
<1>3. AtTurn(e, "predicate")
    BY <1>1 DEF AtTurn
<1>4. ASSUME NEW R, Closed(R, tr), NEW u, NEW z, Has(R, d, u), Rest(R, e, "predicate", u, z)
      PROVE  Rest(R, c, as, y, z)
  <2>1. LoopRule(R) /\ AfterTest(R, t, v, u, z) /\ Yields(R, Sub[t][1], v, y.k, u)
      BY <1>4 DEF Closed, Rest, Has, Code
  <2>2. WhileYields(R, t, v, y.k, z)
      BY <1>1, <2>1 DEF LoopRule
  <2>3. as = "predicate" => AfterTest(R, t, c.input, y, z)
      BY <2>2 DEF AfterTest, Stops
  <2>4. as = "body" => AfterBody(R, t, y, z)
      BY <2>2 DEF AfterBody, Stops
  <2> QED
      BY <2>3, <2>4 DEF Rest
<1> HIDE DEF d
<1>5. Leads(tr, e, "predicate", a, d)
    BY <1>4, LedOn
<1> QED
    BY <1>2, <1>3, <1>5 DEF Frame, Code, d

LEMMA RepeatGoesOn ==
    ASSUME NEW tr, NEW c, NEW as, NEW a, NEW b, Frame(tr, c, as, a, b),
           NEW y, Follows(tr, b, y), y.as = "value", y.k \in Nat, Kind[c.task] = "repeat",
           c.count + 1 < c.input,
           NEW e, NEW es, e.task = c.task, e.count = c.count + 1, e.input = c.input
    PROVE  Frame(tr, e, es, a, Code(Sub[c.task][1], c.count + 1, y.k))
<1> DEFINE t == c.task
           i == c.count + 1
           n == c.input
           d == Code(Sub[t][1], i, y.k)
<1>1. t \in Tasks /\ c.count \in Nat /\ n \in Nat
    BY DEF Frame, AtTurn
<1>2. Sub[t][1] \in Tasks
    BY <1>1, FirstSubtask
<1>3. i \in Nat /\ i < n
    BY <1>1
<1>4. AtTurn(e, es)
    BY <1>1, <1>3 DEF AtTurn
<1> HIDE DEF i
<1>5. ASSUME NEW R, Closed(R, tr), NEW u, NEW z, Has(R, d, u), Rest(R, e, es, u, z)
      PROVE  Rest(R, c, as, y, z)
  <2>1. RepeatRule(R) /\ AfterRound(R, t, i, n, u, z) /\ Yields(R, Sub[t][1], i, y.k, u)
      BY <1>5 DEF Closed, Rest, Has, Code, i
  <2>2. ForYields(R, t, i, n, y.k, z)
      BY <1>1, <1>3, <2>1 DEF RepeatRule
  <2>3. AfterRound(R, t, c.count, n, y, z)
      BY <1>3, <2>2 DEF AfterRound, Stops, i
  <2> QED
      BY <2>3 DEF Rest
<1> HIDE DEF d
<1>6. Leads(tr, e, es, a, d)
    BY <1>5, LedOn
<1> QED
    BY <1>2, <1>4, <1>6 DEF Frame, Code, d, i

LEMMA InterceptCatches ==
    ASSUME NEW tr, NEW c, NEW as, NEW a, NEW b, Frame(tr, c, as, a, b), as # "caught",
           NEW y, Follows(tr, b, y), y.as = "exception", Kind[c.task] = "intercept",
           Handlers(c.task, y.value) # {}, NEW e, e.task = c.task
    PROVE  Frame(tr, e, "caught", a,
                 Code(Sub[c.task][1 + Min(Handlers(c.task, y.value))], y.value, y.k))
<1> DEFINE t == c.task
           m == Min(Handlers(t, y.value))
           d == Code(Sub[t][1 + m], y.value, y.k)
<1>1. t \in Tasks
    BY DEF Frame, AtTurn
<1>2. Handlers(t, y.value) \subseteq 1..(Len(Sub[t]) - 1) /\ Len(Sub[t]) \in Nat
    BY <1>1, FirstSubtask, ShapesAssumption DEF Handlers
<1>3. m \in 1..(Len(Sub[t]) - 1)
    BY <1>2, LeastIsOne
<1>4. Sub[t][1 + m] \in Tasks
  <2>1. 1 + m \in DOMAIN Sub[t]
      BY <1>1, <1>2, <1>3, FirstSubtask
  <2> QED
      BY <1>1, <2>1, SubtaskIsTask
<1>5. AtTurn(e, "caught")
    BY <1>1 DEF AtTurn, Frame
<1> HIDE DEF m
<1>6. ASSUME NEW R, Closed(R, tr), NEW u, NEW z, Has(R, d, u), Rest(R, e, "caught", u, z)
      PROVE  Rest(R, c, as, y, z)
  <2>1. z = u /\ Yields(R, Sub[t][1 + m], y.value, y.k, u)
      BY <1>6 DEF Rest, Has, Code
  <2>2. AfterTry(R, t, y, z)
      BY <2>1 DEF AfterTry, m
  <2> QED
      BY <2>2 DEF Rest
<1> HIDE DEF d
<1>7. Leads(tr, e, "caught", a, d)
    BY <1>6, LedOn
<1> QED
    BY <1>4, <1>5, <1>7 DEF Frame, Code, d, m
-----------------------------------------------------------------------------
(***************************************************************************)
(* The contexts of a stack: each evaluates a place in the code, the first  *)
(* the whole task of the run, and waits for the place of the one above it; *)
(* the last place is the one the run has reached.                          *)
(***************************************************************************)
Here(tr) == Len(tr) + 1

\* What a context reports, or the function of a simple task returns or throws.
Outcome(k, op, v) == Yield(k, IF op = "report" THEN "value" ELSE "exception", v)

\* The contexts that wait for a subtask, all but a simple task on top.
Waiting(st, cl) == IF cl = NoCall THEN 1..(Len(st) - 1) ELSE 1..Len(st)

\* As what the subtask of the i-th context reports.
Asked(st, cl, i) == IF i < Len(st) THEN st[i + 1].as ELSE cl.as

Reached(tr, st, cl, b) ==
    /\ cl = NoCall => b = Code(st[Len(st)].task, st[Len(st)].input, Here(tr))
    /\ cl.op = "create" => b = Code(cl.task, cl.value, Here(tr))
    /\ cl.op \in {"report", "throw"} => Follows(tr, b, Outcome(Here(tr), cl.op, cl.value))

Chain(tr, root, st, cl, g) ==
    /\ g[1] = root
    /\ \A i \in Waiting(st, cl) : Frame(tr, st[i], Asked(st, cl, i), g[i], g[i + 1])
    /\ Reached(tr, st, cl, g[IF cl = NoCall THEN Len(st) ELSE Len(st) + 1])

Chained(tr, root, st, cl) == \E g : Chain(tr, root, st, cl, g)

LEMMA Pushed ==
    ASSUME NEW st, Linked(st), NEW c
    PROVE  /\ Len(st) \in Nat /\ Len(Append(st, c)) = Len(st) + 1
           /\ Append(st, c)[Len(st) + 1] = c
           /\ \A i \in 1..Len(st) : Append(st, c)[i] = st[i]
<1> DEFINE T == {st[i] : i \in DOMAIN st} \cup {c}
<1>1. st \in Seq(T) /\ c \in T
    BY DEF Linked
<1>2. Len(st) \in Nat
    BY LinkedLength
<1> HIDE DEF T
<1> QED
    BY <1>1, <1>2, AppendProperties

LEMMA Popped ==
    ASSUME NEW st, Linked(st), Len(st) > 0
    PROVE  /\ Len(st) \in Nat /\ Len(Front(st)) = Len(st) - 1
           /\ \A i \in 1..(Len(st) - 1) : Front(st)[i] = st[i]
<1> DEFINE S == {st[i] : i \in DOMAIN st}
<1>1. st \in Seq(S)
    BY DEF Linked
<1>2. Len(st) \in Nat /\ DOMAIN st = 1..Len(st)
    BY LinkedLength
<1> HIDE DEF S
<1>3. /\ Front(st) \in Seq(S) /\ Len(Front(st)) = Len(st) - 1
      /\ \A i \in 1..(Len(st) - 1) : Front(st)[i] = st[i]
    BY <1>1, <1>2, SubSeqProperties DEF Front
<1> QED
    BY <1>2, <1>3

LEMMA ContextFields ==
    ASSUME NEW c, IsContext(c), NEW v, NEW n
    PROVE  LET d == [c EXCEPT !.input = v, !.count = n]
           IN  d.task = c.task /\ d.input = v /\ d.count = n /\ d.to = c.to /\ d.as = c.as
<1> DEFINE e == [c EXCEPT !.input = v]
<1>1. e \in [task : {c.task}, input : {v}, count : {c.count}, to : {c.to}, as : {c.as}]
    BY DEF IsContext
<1> DEFINE d == [e EXCEPT !.count = n]
<1> HIDE DEF e
<1>3. d \in [task : {c.task}, input : {v}, count : {n}, to : {c.to}, as : {c.as}]
    BY <1>1
<1> HIDE DEF d
<1>4. d.task = c.task /\ d.input = v /\ d.count = n /\ d.to = c.to /\ d.as = c.as
    BY <1>3
<1> QED
    BY <1>4 DEF d, e

\* A context is created and calls its first subtask.
LEMMA ChainExtends ==
    ASSUME NEW tr, NEW root, NEW st, Linked(st), NEW cl, cl # NoCall, NEW g,
           Chain(tr, root, st, cl, g), NEW c, c.as = cl.as, NEW n, n = Len(st),
           NEW dl, dl.op = "create",
           Frame(tr, c, dl.as, g[n + 1], Code(dl.task, dl.value, Here(tr)))
    PROVE  Chained(tr, root, Append(st, c), dl)
<1> DEFINE b == Code(dl.task, dl.value, Here(tr))
           z == Append(st, c)
           h == [i \in 1..(n + 2) |-> IF i = n + 2 THEN b ELSE g[i]]
<1>1. /\ n \in Nat /\ Len(z) = n + 1 /\ z[n + 1] = c
      /\ \A i \in 1..n : z[i] = st[i]
    BY Pushed
<1>2. dl # NoCall
    BY DEF NoCall
<1>3. h[n + 2] = b /\ \A i \in 1..(n + 1) : h[i] = g[i]
    BY <1>1
<1> HIDE DEF z, h, b
<1>4. ASSUME NEW i \in 1..(n + 1) PROVE Frame(tr, z[i], Asked(z, dl, i), h[i], h[i + 1])
  <2>1. CASE i = n + 1
    <3>1. z[i] = c /\ Asked(z, dl, i) = dl.as /\ h[i] = g[n + 1] /\ h[i + 1] = b
        BY <1>1, <1>3, <2>1 DEF Asked
    <3> QED
        BY <3>1 DEF b
  <2>2. CASE i # n + 1
    <3>1. i \in 1..n /\ i + 1 \in 1..(n + 1)
        BY <1>1, <2>2
    <3>2. z[i] = st[i] /\ h[i] = g[i] /\ h[i + 1] = g[i + 1]
        BY <1>1, <1>3, <3>1
    <3>3. Asked(z, dl, i) = Asked(st, cl, i)
      <4>1. CASE i = n
          BY <1>1, <4>1 DEF Asked
      <4>2. CASE i # n
        <5>1. i + 1 \in 1..n /\ i < Len(z) /\ i < Len(st)
            BY <1>1, <3>1, <4>2
        <5> QED
            BY <1>1, <5>1 DEF Asked
      <4> QED
          BY <4>1, <4>2
    <3> QED
        BY <3>1, <3>2, <3>3 DEF Chain, Waiting
  <2> QED
      BY <2>1, <2>2
<1>5. Reached(tr, z, dl, h[n + 2])
    BY <1>2, <1>3 DEF Reached, b
<1>6. h[1] = root /\ Waiting(z, dl) = 1..(n + 1) /\ Len(z) + 1 = n + 2
    BY <1>1, <1>2, <1>3 DEF Chain, Waiting
<1> QED
    BY <1>2, <1>4, <1>5, <1>6 DEF Chained, Chain, z

\* The context of a simple task is created.
LEMMA ChainCreated ==
    ASSUME NEW tr, NEW root, NEW st, Linked(st), NEW cl, cl # NoCall, cl.op = "create",
           Chained(tr, root, st, cl),
           NEW c, c.as = cl.as, c.task = cl.task, c.input = cl.value
    PROVE  Chained(tr, root, Append(st, c), NoCall)
<1> DEFINE n == Len(st)
           z == Append(st, c)
<1>1. /\ n \in Nat /\ Len(z) = n + 1 /\ z[n + 1] = c
      /\ \A i \in 1..n : z[i] = st[i]
    BY Pushed
<1> HIDE DEF z, n
<1> PICK g : Chain(tr, root, st, cl, g)
    BY DEF Chained
<1>2. ASSUME NEW i \in 1..n PROVE Frame(tr, z[i], Asked(z, NoCall, i), g[i], g[i + 1])
  <2>1. Asked(z, NoCall, i) = Asked(st, cl, i)
    <3>1. i < Len(z) /\ i + 1 \in 1..(n + 1)
        BY <1>1
    <3>2. CASE i = n
        BY <1>1, <3>1, <3>2 DEF Asked, n
    <3>3. CASE i # n
      <4>1. i + 1 \in 1..n /\ i < n
          BY <1>1, <3>3
      <4> QED
          BY <1>1, <3>1, <4>1 DEF Asked, n
    <3> QED
        BY <3>2, <3>3
  <2>2. z[i] = st[i] /\ i \in Waiting(st, cl)
      BY <1>1 DEF Waiting, n
  <2> QED
      BY <2>1, <2>2 DEF Chain
<1>3. g[n + 1] = Code(cl.task, cl.value, Here(tr))
    BY DEF Chain, Reached, n
<1>4. Reached(tr, z, NoCall, g[n + 1])
    BY <1>1, <1>3 DEF Reached, NoCall
<1>5. Waiting(z, NoCall) = 1..n
    BY <1>1 DEF Waiting
<1> QED
    BY <1>1, <1>2, <1>4, <1>5 DEF Chained, Chain, z

\* The context on top calls, by dl, its next subtask.
TopAsks(tr, st, z, g, dl) ==
    /\ Len(z) = Len(st) /\ \A i \in 1..(Len(st) - 1) : z[i] = st[i]
    /\ z[Len(st)].as = st[Len(st)].as /\ dl.op = "create"
    /\ Frame(tr, z[Len(st)], dl.as, g[Len(st)], Code(dl.task, dl.value, Here(tr)))

LEMMA ChainTurns ==
    ASSUME NEW tr, NEW root, NEW st, Linked(st), st # <<>>, NEW cl, cl # NoCall,
           NEW g, Chain(tr, root, st, cl, g), NEW z, NEW dl, TopAsks(tr, st, z, g, dl)
    PROVE  Chained(tr, root, z, dl)
<1> PICK n : n = Len(st)
    OBVIOUS
<1>0. /\ n \in Nat \ {0} /\ Len(z) = n /\ \A i \in 1..(n - 1) : z[i] = st[i]
      /\ z[n].as = st[n].as /\ dl.op = "create"
      /\ Frame(tr, z[n], dl.as, g[n], Code(dl.task, dl.value, Here(tr)))
    BY LinkedLength DEF TopAsks
<1> USE <1>0
<1> DEFINE b == Code(dl.task, dl.value, Here(tr))
           h == [i \in 1..(n + 1) |-> IF i = n + 1 THEN b ELSE g[i]]
<1>1. dl # NoCall
    BY DEF NoCall
<1>2. h[n + 1] = b /\ \A i \in 1..n : h[i] = g[i]
    OBVIOUS
<1> HIDE DEF h, b
<1>3. ASSUME NEW i \in 1..n PROVE Frame(tr, z[i], Asked(z, dl, i), h[i], h[i + 1])
  <2>1. CASE i = n
    <3>1. Asked(z, dl, i) = dl.as /\ h[i] = g[n] /\ h[i + 1] = b
        BY <1>2, <2>1 DEF Asked
    <3> QED
        BY <2>1, <3>1 DEF b
  <2>2. CASE i # n
    <3>1. i \in 1..(n - 1) /\ i + 1 \in 1..n /\ i < n
        BY <2>2
    <3>2. z[i] = st[i] /\ h[i] = g[i] /\ h[i + 1] = g[i + 1] /\ z[i + 1].as = st[i + 1].as
      <4>1. CASE i + 1 = n
          BY <1>2, <3>1, <4>1
      <4>2. CASE i + 1 # n
          BY <1>2, <3>1, <4>2
      <4> QED
          BY <4>1, <4>2
    <3>3. Asked(z, dl, i) = Asked(st, cl, i)
        BY <3>1, <3>2 DEF Asked
    <3> QED
        BY <3>2, <3>3 DEF Chain, Waiting
  <2> QED
      BY <2>1, <2>2
<1>4. Reached(tr, z, dl, h[n + 1])
    BY <1>1, <1>2 DEF Reached, b
<1>5. h[1] = root /\ Waiting(z, dl) = 1..n
    BY <1>1, <1>2 DEF Chain, Waiting
<1> QED
    BY <1>1, <1>3, <1>4, <1>5 DEF Chained, Chain

\* The context on top reports, by the call dl, what its task yields.
TopYields(tr, st, g, dl) ==
    /\ dl.op \in {"report", "throw"} /\ dl.as = st[Len(st)].as
    /\ Follows(tr, g[Len(st)], Outcome(Here(tr), dl.op, dl.value))

LEMMA ChainPops ==
    ASSUME NEW tr, NEW root, NEW st, Linked(st), st # <<>>, NEW cl, cl # NoCall,
           NEW g, Chain(tr, root, st, cl, g), NEW dl, TopYields(tr, st, g, dl)
    PROVE  Chained(tr, root, Front(st), dl)
<1> PICK n : n = Len(st)
    OBVIOUS
<1>0. /\ n \in Nat \ {0} /\ dl.op \in {"report", "throw"} /\ dl.as = st[n].as
      /\ Follows(tr, g[n], Outcome(Here(tr), dl.op, dl.value))
    BY LinkedLength DEF TopYields
<1> DEFINE z == Front(st)
<1>1. n \in Nat /\ Len(z) = n - 1 /\ \A i \in 1..(n - 1) : z[i] = st[i]
  <2>1. Len(st) > 0
      BY <1>0
  <2> QED
      BY <1>0, <2>1, Popped
<1> HIDE DEF z
<1>2. dl # NoCall
    BY <1>0 DEF NoCall
<1>3. ASSUME NEW i \in 1..(n - 1) PROVE Frame(tr, z[i], Asked(z, dl, i), g[i], g[i + 1])
  <2>1. Asked(z, dl, i) = Asked(st, cl, i)
    <3>1. CASE i + 1 = n
        BY <1>0, <1>1, <3>1 DEF Asked
    <3>2. CASE i + 1 # n
      <4>1. i + 1 \in 1..(n - 1) /\ i < n - 1 /\ i < n
          BY <1>0, <1>1, <3>2
      <4> QED
          BY <1>0, <1>1, <4>1 DEF Asked
    <3> QED
        BY <3>1, <3>2
  <2>2. z[i] = st[i] /\ i \in Waiting(st, cl)
      BY <1>0, <1>1 DEF Waiting
  <2> QED
      BY <2>1, <2>2 DEF Chain
<1>4. Reached(tr, z, dl, g[n])
    BY <1>0, <1>2 DEF Reached
<1>5. Waiting(z, dl) = 1..(n - 1) /\ Len(z) + 1 = n
    BY <1>0, <1>1, <1>2 DEF Waiting
<1> QED
    BY <1>0, <1>2, <1>3, <1>4, <1>5 DEF Chained, Chain, z
-----------------------------------------------------------------------------
(***************************************************************************)
(* The trace grows by a call.                                              *)
(***************************************************************************)
Traced(tr) == tr \in Seq({tr[i] : i \in DOMAIN tr})

LEMMA TraceGrows ==
    ASSUME NEW tr, Traced(tr), NEW x, NEW ux, ux = Append(tr, x)
    PROVE  /\ Traced(ux) /\ Len(tr) \in Nat /\ Len(ux) = Len(tr) + 1 /\ DOMAIN tr = 1..Len(tr)
           /\ DOMAIN ux = 1..(Len(tr) + 1) /\ ux[Len(tr) + 1] = x
           /\ \A i \in DOMAIN tr : ux[i] = tr[i]
<1> DEFINE T == {tr[i] : i \in DOMAIN tr} \cup {x}
<1>1. tr \in Seq(T) /\ x \in T
    BY DEF Traced
<1>2. Len(tr) \in Nat /\ DOMAIN tr = 1..Len(tr)
    BY <1>1
<1> HIDE DEF T
<1>3. /\ ux \in Seq(T) /\ Len(ux) = Len(tr) + 1 /\ ux[Len(tr) + 1] = x
      /\ \A i \in 1..Len(tr) : ux[i] = tr[i]
    BY <1>1, AppendProperties
<1>4. DOMAIN ux = 1..(Len(tr) + 1)
    BY <1>2, <1>3
<1>5. ux \in Seq({ux[i] : i \in DOMAIN ux})
    BY <1>2, <1>3, <1>4
<1> QED
    BY <1>2, <1>3, <1>4, <1>5 DEF Traced

\* What follows from a trace follows from a longer one.
LEMMA ClosedBefore ==
    ASSUME NEW tr, Traced(tr), NEW x, NEW R, Closed(R, Append(tr, x))
    PROVE  Closed(R, tr)
<1> DEFINE ux == Append(tr, x)
<1>1. DOMAIN tr \subseteq DOMAIN ux /\ \A i \in DOMAIN tr : ux[i] = tr[i]
  <2>1. /\ Len(tr) \in Nat /\ DOMAIN tr = 1..Len(tr) /\ DOMAIN ux = 1..(Len(tr) + 1)
        /\ \A i \in DOMAIN tr : ux[i] = tr[i]
      BY TraceGrows
  <2> HIDE DEF ux
  <2> QED
      BY <2>1
<1> HIDE DEF ux
<1>2. CallRule(R, ux)
    BY DEF Closed, ux
<1>3. CallRule(R, tr)
    BY <1>1, <1>2 DEF CallRule
<1> QED
    BY <1>3 DEF Closed

LEMMA FrameAfter ==
    ASSUME NEW tr, Traced(tr), NEW x, NEW c, NEW as, NEW a, NEW b, Frame(tr, c, as, a, b)
    PROVE  Frame(Append(tr, x), c, as, a, b)
<1>1. Leads(tr, c, as, a, b)
    BY DEF Frame
<1>2. Leads(Append(tr, x), c, as, a, b)
    BY <1>1, ClosedBefore DEF Leads
<1> QED
    BY <1>2 DEF Frame

\* The function called is the one the rules evaluate at that place.
LEMMA CallFollows ==
    ASSUME NEW tr, Traced(tr), NEW t, NEW v, NEW o, NEW as \in {"value", "exception"},
           as = "value" => o \in Returns[t], as = "exception" => o \in Throws[t],
           NEW x, x = [task |-> t, input |-> v, outcome |-> o]
    PROVE  Follows(Append(tr, x), Code(t, v, Here(tr)), Yield(Here(tr) + 1, as, o))
<1> DEFINE ux == Append(tr, x)
           k == Len(tr) + 1
<1>1. k \in DOMAIN ux /\ ux[k] = x
  <2>1. Len(tr) \in Nat /\ DOMAIN ux = 1..k /\ ux[k] = x
      BY TraceGrows
  <2> HIDE DEF ux
  <2> QED
      BY <2>1
<1> HIDE DEF ux, k
<1> SUFFICES ASSUME NEW R, Closed(R, ux)
             PROVE  Has(R, Code(t, v, k), Yield(k + 1, as, o))
    BY DEF Follows, Here, ux, k
<1>2. CallRule(R, ux)
    BY DEF Closed
<1>3. x.task = t /\ x.input = v /\ x.outcome = o
    OBVIOUS
<1>4. Yields(R, t, v, k, Yield(k + 1, as, o))
  <2>1. CASE as = "value"
      BY <1>1, <1>2, <1>3, <2>1 DEF CallRule
  <2>2. CASE as = "exception"
      BY <1>1, <1>2, <1>3, <2>2 DEF CallRule
  <2> QED
      BY <2>1, <2>2
<1> QED
    BY <1>4 DEF Has, Code

\* The function of the simple task on top ends.
LEMMA ChainCalls ==
    ASSUME NEW tr, Traced(tr), NEW root, NEW st, Linked(st), NEW n, n = Len(st), n > 0,
           Chained(tr, root, st, NoCall),
           NEW dl, dl.op \in {"report", "throw"}, dl.as = st[n].as,
           IF dl.op = "report" THEN dl.value \in Returns[st[n].task]
           ELSE dl.value \in Throws[st[n].task],
           NEW x, x = [task |-> st[n].task, input |-> st[n].input, outcome |-> dl.value]
    PROVE  Chained(Append(tr, x), root, Front(st), dl)
<1> DEFINE z == Front(st)
           ux == Append(tr, x)
           as == IF dl.op = "report" THEN "value" ELSE "exception"
<1> PICK g : Chain(tr, root, st, NoCall, g)
    BY DEF Chained
<1>1. n \in Nat /\ Len(z) = n - 1 /\ \A i \in 1..(n - 1) : z[i] = st[i]
    BY Popped
<1>2. dl # NoCall
    BY DEF NoCall
<1>3. Here(ux) = Here(tr) + 1
  <2>1. Len(ux) = Len(tr) + 1
      BY TraceGrows
  <2> QED
      BY <2>1 DEF Here
<1>4. g[n] = Code(st[n].task, st[n].input, Here(tr))
    BY DEF Chain, Reached
<1>5. /\ as \in {"value", "exception"}
      /\ as = "value" => dl.value \in Returns[st[n].task]
      /\ as = "exception" => dl.value \in Throws[st[n].task]
    OBVIOUS
<1> HIDE DEF z, ux, as
<1>6. Follows(ux, g[n], Yield(Here(ux), as, dl.value))
    BY <1>3, <1>4, <1>5, CallFollows DEF ux
<1>7. ASSUME NEW i \in 1..(n - 1) PROVE Frame(ux, z[i], Asked(z, dl, i), g[i], g[i + 1])
  <2>1. Asked(z, dl, i) = Asked(st, NoCall, i)
    <3>1. CASE i + 1 = n
        BY <1>1, <3>1 DEF Asked
    <3>2. CASE i + 1 # n
      <4>1. i + 1 \in 1..(n - 1) /\ i < n - 1 /\ i < n
          BY <1>1, <3>2
      <4> QED
          BY <1>1, <4>1 DEF Asked
    <3> QED
        BY <3>1, <3>2
  <2>2. z[i] = st[i] /\ i \in Waiting(st, NoCall)
      BY <1>1 DEF Waiting
  <2>3. Frame(tr, z[i], Asked(z, dl, i), g[i], g[i + 1])
      BY <2>1, <2>2 DEF Chain
  <2> QED
      BY <2>3, FrameAfter DEF ux
<1>8. Reached(ux, z, dl, g[n])
    BY <1>2, <1>6 DEF Reached, Outcome, as
<1>9. Waiting(z, dl) = 1..(n - 1) /\ Len(z) + 1 = n
    BY <1>1, <1>2 DEF Waiting
<1> QED
    BY <1>2, <1>7, <1>8, <1>9 DEF Chained, Chain, z, ux

\* While the function on top does not end nothing ends.
LEMMA ChainPends ==
    ASSUME NEW tr, NEW root, NEW st, Linked(st), NEW n \in Nat \ {0}, n = Len(st),
           Chained(tr, root, st, NoCall), NEW R, Closed(R, tr),
           NEW y, y.as = "pending", Has(R, Code(st[n].task, st[n].input, Here(tr)), y)
    PROVE  Has(R, root, y)
<1> PICK g : Chain(tr, root, st, NoCall, g)
    BY DEF Chained
<1> DEFINE T == {i \in 1..n : Has(R, g[i], y)}
<1>1. n \in Nat
    BY LinkedLength
<1>2. n \in T
  <2>1. g[n] = Code(st[n].task, st[n].input, Here(tr))
      BY DEF Chain, Reached
  <2> QED
      BY <1>1, <2>1
<1>3. PICK m \in T : \A i \in T : m <= i
  <2>1. T \subseteq Nat /\ T # {}
      BY <1>1, <1>2
  <2> HIDE DEF T
  <2> QED
      BY <2>1, LeastOne
<1>4. m = 1
  <2> SUFFICES ASSUME m # 1 PROVE FALSE
      OBVIOUS
  <2> DEFINE i == m - 1
  <2>1. i \in 1..(n - 1) /\ i + 1 = m /\ ~(m <= i)
      BY <1>1
  <2> HIDE DEF i
  <2>2. Frame(tr, st[i], Asked(st, NoCall, i), g[i], g[m])
      BY <2>1 DEF Chain, Waiting
  <2>3. Rest(R, st[i], Asked(st, NoCall, i), y, y)
      BY StopsAll DEF Stops
  <2>4. Has(R, g[i], y)
      BY <2>2, <2>3 DEF Frame, Leads
  <2>5. i \in T
      BY <1>1, <2>1, <2>4
  <2> QED
      BY <1>3, <2>1, <2>5
<1> QED
    BY <1>4 DEF Chain
-----------------------------------------------------------------------------
(***************************************************************************)
(* The runs.                                                               *)
(***************************************************************************)
Root(r) == Code(job[r].task, job[r].input, 1)

\* What the call in progress among the contexts reports.
Reported(r) == Outcome(Here(trace[r]), call[r].op, call[r].value)

Done(r) ==
    \E as \in {"value", "exception"} : \E v :
        Follows(trace[r], Root(r), Yield(Here(trace[r]), as, v))

MeaningOf(r) ==
    /\ Traced(trace[r])
    /\ at[r] = "new" => trace[r] = <<>>
    /\ at[r] # "new" => job[r].task \in Tasks
    /\ at[r] \notin {"new", "over"} /\ (at[r] = "tail" => stack[r] # <<>>) =>
          Chained(trace[r], Root(r), stack[r], call[r])
    /\ at[r] = "tail" /\ stack[r] = <<>> => Done(r)
    /\ at[r] = "over" => Done(r) \/ \E q \in Runners : ~owned[q]

MeaningInv ==
    /\ DOMAIN job = Runs /\ DOMAIN trace = Runs
    /\ \A r \in Runs : MeaningOf(r)

LEMMA OthersMean ==
    ASSUME MeaningInv, NEW r \in Runs, OnlyRun(r), UNCHANGED owned,
           DOMAIN job' = Runs, DOMAIN trace' = Runs,
           \A s \in Runs \ {r} : job'[s] = job[s] /\ trace'[s] = trace[s],
           MeaningOf(r)'
    PROVE  MeaningInv'
<1> SUFFICES ASSUME NEW s \in Runs, s # r PROVE MeaningOf(s)'
    BY DEF MeaningInv
<1>1. /\ stack'[s] = stack[s] /\ call'[s] = call[s] /\ at'[s] = at[s]
      /\ job'[s] = job[s] /\ trace'[s] = trace[s]
    BY DEF OnlyRun
<1>2. MeaningOf(s)
    BY DEF MeaningInv
<1> QED
    BY <1>1, <1>2 DEF MeaningOf, Root, Done

LEMMA OneBefore ==
    ASSUME NEW n \in Nat, n > 0, n # 1
    PROVE  n - 1 \in 1..(n - 1) /\ n - 1 + 1 = n
  OBVIOUS

\* The place that a run has reached is in a task.
LEMMA PlaceInTask ==
    ASSUME NEW tr, NEW root, root.task \in Tasks, NEW st, Linked(st), NEW cl, NEW g,
           Chain(tr, root, st, cl, g), NEW n,
           n = (IF cl = NoCall THEN Len(st) ELSE Len(st) + 1), n > 0
    PROVE  g[n].task \in Tasks
<1>1. Len(st) \in Nat
    BY LinkedLength
<1>2. CASE n = 1
    BY <1>2 DEF Chain
<1>3. CASE n # 1
  <2> DEFINE i == n - 1
  <2>1. i \in Waiting(st, cl) /\ i + 1 = n
    <3>3. n \in Nat
        BY <1>1
    <3>1. i \in 1..(n - 1) /\ i + 1 = n
        BY <1>3, <3>3, OneBefore
    <3>2. Waiting(st, cl) = 1..(n - 1)
        BY <1>1 DEF Waiting
    <3> QED
        BY <3>1, <3>2
  <2> HIDE DEF i
  <2>2. Frame(tr, st[i], Asked(st, cl, i), g[i], g[n])
      BY <2>1 DEF Chain
  <2> QED
      BY <2>2 DEF Frame
<1> QED
    BY <1>2, <1>3

LEMMA InCallMeans ==
    ASSUME TaskInv, MeaningInv, NEW r \in Runs, call[r] # NoCall
    PROVE  /\ Linked(stack[r]) /\ call[r].to = Len(stack[r]) /\ Len(stack[r]) \in Nat
           /\ at[r] \in InCall /\ Traced(trace[r]) /\ Root(r).task \in Tasks
           /\ Chained(trace[r], Root(r), stack[r], call[r])
<1>1. RunInv(r) /\ MeaningOf(r)
    BY DEF TaskInv, MeaningInv
<1>2. Linked(stack[r]) /\ call[r].to = Len(stack[r]) /\ at[r] \in InCall
    BY <1>1 DEF RunInv
<1>3. Len(stack[r]) \in Nat
    BY <1>2, LinkedLength
<1>4. Root(r).task = job[r].task
    BY DEF Root, Code
<1> QED
    BY <1>1, <1>2, <1>3, <1>4 DEF MeaningOf, InCall

LEMMA SpawnMeans ==
    ASSUME TaskInv, MeaningInv, NEW r \in Runs, call[r] # NoCall,
           NEW s, NEW t, NEW v, NEW as, Spawn(r, s, t, v, as), NEW dl,
           dl = [op |-> "create", task |-> t, value |-> v, to |-> Len(s), as |-> as],
           Chained(trace[r], Root(r), s, dl)
    PROVE  MeaningInv'
<1>1. OnlyRun(r) /\ stack'[r] = s /\ call'[r] = dl /\ at' = at /\ trace' = trace /\ job' = job
      /\ owned' = owned
    BY DEF Spawn, OnlyRun, TaskInv, RunsShape
<1>2. at[r] \in InCall
    BY InCallMeans
<1>3. MeaningOf(r)
    BY DEF MeaningInv
<1>4. Root(r)' = Root(r)
    BY <1>1 DEF Root
<1>5. MeaningOf(r)'
    BY <1>1, <1>2, <1>3, <1>4 DEF MeaningOf, InCall
<1> QED
    BY <1>1, <1>5, OthersMean DEF MeaningInv

\* A context is created that calls its first subtask with w.
LEMMA CreateMeans ==
    ASSUME TaskInv, MeaningInv, NEW r \in Runs, call[r] # NoCall, call[r].op = "create",
           NEW c, c.as = call[r].as, NEW t, NEW w, NEW as,
           Spawn(r, Append(stack[r], c), t, w, as),
           Frame(trace[r], c, as, Code(call[r].task, call[r].value, Here(trace[r])),
                 Code(t, w, Here(trace[r])))
    PROVE  MeaningInv'
<1> DEFINE z == Append(stack[r], c)
           dl == [op |-> "create", task |-> t, value |-> w, to |-> Len(z), as |-> as]
           n == Len(stack[r])
<1>1. Linked(stack[r]) /\ Chained(trace[r], Root(r), stack[r], call[r])
    BY InCallMeans
<1> PICK g : Chain(trace[r], Root(r), stack[r], call[r], g)
    BY <1>1 DEF Chained
<1>2. g[n + 1] = Code(call[r].task, call[r].value, Here(trace[r]))
    BY DEF Chain, Reached
<1>3. dl.op = "create" /\ dl.task = t /\ dl.value = w /\ dl.as = as
    OBVIOUS
<1> HIDE DEF dl, n
<1>4. Chained(trace[r], Root(r), z, dl)
    BY <1>1, <1>2, <1>3, ChainExtends DEF n
<1> QED
    BY <1>4, SpawnMeans DEF dl

LEMMA CreatedFields ==
    ASSUME NEW r
    PROVE  /\ IsContext(Created(r)) /\ Created(r).task = call[r].task
           /\ Created(r).input = call[r].value /\ Created(r).count = 0
           /\ Created(r).as = call[r].as
  BY DEF Created, Context, IsContext

LEMMA CreateAndSpawnMeans ==
    ASSUME TaskInv, MeaningInv, NEW r \in Runs, call[r].op = "create", NEW n, NEW as,
           CreateAndSpawn(r, n, as),
           \A c : /\ c.task = call[r].task /\ c.input = Copied(call[r].value) /\ c.count = n
                  => Frame(trace[r], c, as, Code(call[r].task, call[r].value, Here(trace[r])),
                           Code(Sub[call[r].task][1], call[r].value, Here(trace[r])))
    PROVE  MeaningInv'
<1> PICK c : c = [Created(r) EXCEPT !.input = Copied(@), !.count = n]
    OBVIOUS
<1>1. c = [Context(call[r].task, call[r].value, call[r].to, call[r].as)
              EXCEPT !.input = Copied(call[r].value), !.count = n]
    BY DEF Created, Context
<1>2. /\ c.task = call[r].task /\ c.input = Copied(call[r].value) /\ c.count = n
      /\ c.as = call[r].as
    BY <1>1 DEF Context
<1>3. Spawn(r, Append(stack[r], c), Sub[call[r].task][1], call[r].value, as)
    BY DEF CreateAndSpawn
<1>4. call[r] # NoCall
    BY DEF NoCall
<1> QED
    BY <1>2, <1>3, <1>4, CreateMeans

LEMMA CreatesTask ==
    ASSUME TaskInv, MeaningInv, NEW r \in Runs, call[r].op = "create"
    PROVE  call[r] # NoCall /\ call[r].task \in Tasks /\ Here(trace[r]) \in Nat
<1>1. call[r] # NoCall
    BY DEF NoCall
<1>2. /\ Linked(stack[r]) /\ Chained(trace[r], Root(r), stack[r], call[r])
      /\ Root(r).task \in Tasks /\ Len(stack[r]) \in Nat /\ Traced(trace[r])
    BY <1>1, InCallMeans
<1> PICK g : Chain(trace[r], Root(r), stack[r], call[r], g)
    BY <1>2 DEF Chained
<1>3. g[Len(stack[r]) + 1].task \in Tasks
  <2> DEFINE n == Len(stack[r]) + 1
  <2>1. n = (IF call[r] = NoCall THEN Len(stack[r]) ELSE Len(stack[r]) + 1) /\ n > 0
      BY <1>1, <1>2
  <2> HIDE DEF n
  <2>2. g[n].task \in Tasks
      BY <1>2, <2>1, PlaceInTask
  <2> QED
      BY <2>2 DEF n
<1>4. g[Len(stack[r]) + 1] = Code(call[r].task, call[r].value, Here(trace[r]))
    BY <1>1 DEF Chain, Reached
<1>5. Here(trace[r]) \in Nat
    BY <1>2, TraceGrows DEF Here
<1> QED
    BY <1>1, <1>3, <1>4, <1>5 DEF Code

LEMMA CreatesMean ==
    ASSUME TaskInv, MeaningInv, KnownDifferencesAside, NEW r \in Runs, Create(r)
    PROVE  MeaningInv'
<1> DEFINE t == call[r].task
           v == call[r].value
           k == Here(trace[r])
<1>1. call[r].op = "create"
    BY DEF Create, CreateSimple, CreateSequential, CreateConditional, CreateLoop,
           CreateIntercept, CreateRepeat, Creates
<1>2. call[r] # NoCall /\ t \in Tasks /\ k \in Nat
    BY <1>1, CreatesTask
<1>3. CASE CreateSimple(r)
  <2> USE <1>3 DEF CreateSimple
  <2>1. Linked(stack[r]) /\ Chained(trace[r], Root(r), stack[r], call[r]) /\ at[r] \in InCall
      BY <1>2, InCallMeans
  <2>2. stack'[r] = Append(stack[r], Created(r)) /\ call'[r] = NoCall
        /\ at'[r] \in {"kickstart", "tail"} /\ OnlyRun(r)
        /\ trace' = trace /\ job' = job /\ owned' = owned
      BY DEF Return, TaskInv, RunsShape, OnlyRun
  <2>3. Chained(trace[r], Root(r), stack'[r], NoCall)
      BY <1>1, <1>2, <2>1, <2>2, ChainCreated, CreatedFields
  <2>4. stack'[r] # <<>>
    <3>1. Len(stack'[r]) = Len(stack[r]) + 1 /\ Len(stack[r]) \in Nat
        BY <2>1, <2>2, Pushed
    <3>2. Len(<<>>) = 0
        OBVIOUS
    <3>3. Len(stack'[r]) # 0
        BY <3>1
    <3> QED
        BY <3>2, <3>3, Zenon
  <2>5. MeaningOf(r)
      BY DEF MeaningInv
  <2>6. Root(r)' = Root(r)
      BY <2>2 DEF Root
  <2>7. MeaningOf(r)'
      BY <2>1, <2>2, <2>3, <2>4, <2>5, <2>6 DEF MeaningOf, InCall
  <2> QED
      BY <2>2, <2>7, OthersMean DEF MeaningInv
<1>4. CASE CreateSequential(r)
  <2>1. Kind[t] = "sequential" /\ CreateAndSpawn(r, 1, "result")
      BY <1>4 DEF CreateSequential, Creates
  <2>2. \A c : c.task = t /\ c.count = 1 =>
            Frame(trace[r], c, "result", Code(t, v, k), Code(Sub[t][1], v, k))
      BY <1>2, <2>1, SequenceBegins
  <2> QED
      BY <1>1, <2>1, <2>2, CreateAndSpawnMeans
<1>5. CASE CreateConditional(r)
  <2>1. Kind[t] = "conditional" /\ CreateAndSpawn(r, 0, "result") /\ v \notin Movable
      BY <1>5 DEF CreateConditional, Creates, KnownDifferencesAside, NothingMoved
  <2>2. \A c : c.task = t /\ c.count = 0 /\ c.input = Copied(v) =>
            Frame(trace[r], c, "result", Code(t, v, k), Code(Sub[t][1], v, k))
      BY <1>2, <2>1, ConditionalBegins DEF Copied
  <2> QED
      BY <1>1, <2>1, <2>2, CreateAndSpawnMeans
<1>6. CASE CreateLoop(r)
  <2>1. Kind[t] = "loop" /\ CreateAndSpawn(r, 0, "predicate") /\ v \notin Movable
      BY <1>6 DEF CreateLoop, Creates, KnownDifferencesAside, NothingMoved
  <2>2. \A c : c.task = t /\ c.input = Copied(v) =>
            Frame(trace[r], c, "predicate", Code(t, v, k), Code(Sub[t][1], v, k))
      BY <1>2, <2>1, LoopBegins DEF Copied
  <2> QED
      BY <1>1, <2>1, <2>2, CreateAndSpawnMeans
<1>7. CASE CreateIntercept(r)
  <2>1. Kind[t] = "intercept" /\ CreateAndSpawn(r, 0, "result")
      BY <1>7 DEF CreateIntercept, Creates
  <2>2. \A c : c.task = t =>
            Frame(trace[r], c, "result", Code(t, v, k), Code(Sub[t][1], v, k))
      BY <1>2, <2>1, InterceptBegins
  <2> QED
      BY <1>1, <2>1, <2>2, CreateAndSpawnMeans
<1>8. CASE CreateRepeat(r)
  <2>1. Kind[t] = "repeat" /\ v \in Nat /\ v > 0
      BY <1>8 DEF CreateRepeat, Creates, KnownDifferencesAside, RepeatsSomething
  <2>2. Spawn(r, Append(stack[r], Created(r)), Sub[t][1], 0, "result")
      BY <1>8, <2>1 DEF CreateRepeat
  <2>3. Frame(trace[r], Created(r), "result", Code(t, v, k), Code(Sub[t][1], 0, k))
      BY <1>2, <2>1, RepeatBegins, CreatedFields
  <2> QED
      BY <1>1, <1>2, <2>2, <2>3, CreateMeans, CreatedFields
<1> QED
    BY <1>3, <1>4, <1>5, <1>6, <1>7, <1>8 DEF Create
-----------------------------------------------------------------------------
IsChanged(z, st, k, v, n) ==
    /\ Len(z) = Len(st) /\ \A i \in DOMAIN st \ {k} : z[i] = st[i]
    /\ z[k].task = st[k].task /\ z[k].input = v /\ z[k].count = n /\ z[k].as = st[k].as

LEMMA ChangedFields ==
    ASSUME NEW st, Linked(st), NEW k \in DOMAIN st, NEW v, NEW n
    PROVE  IsChanged([st EXCEPT ![k].input = v, ![k].count = n], st, k, v, n)
<1> DEFINE c == [st[k] EXCEPT !.input = v, !.count = n]
           z == [st EXCEPT ![k].input = v, ![k].count = n]
           S == {st[i] : i \in DOMAIN st}
<1>1. z[k] = c /\ \A i \in DOMAIN st \ {k} : z[i] = st[i]
    OBVIOUS
<1>2. Len(z) = Len(st)
  <2>1. st \in Seq(S) /\ Len(st) \in Nat /\ DOMAIN st = 1..Len(st) /\ DOMAIN z = DOMAIN st
      BY LinkedLength DEF Linked
  <2>2. z = [i \in 1..Len(st) |-> z[i]]
      BY <2>1
  <2> HIDE DEF z, S
  <2> QED
      BY <2>1, <2>2
<1>3. c.task = st[k].task /\ c.input = v /\ c.count = n /\ c.as = st[k].as
  <2>1. IsContext(st[k])
      BY DEF Linked
  <2>2. \A e : IsContext(e) => LET d == [e EXCEPT !.input = v, !.count = n]
                               IN  /\ d.task = e.task /\ d.input = v /\ d.count = n
                                   /\ d.as = e.as
      BY ContextFields
  <2> QED
      BY <2>1, <2>2
<1> HIDE DEF c, z
<1>4. IsChanged(z, st, k, v, n)
    BY <1>1, <1>2, <1>3 DEF IsChanged
<1> QED
    BY <1>4 DEF z

\* The stack with input and count of the context that is called, the one on top,
\* changed.
TopIsChanged(r, s, v, n) ==
    LET m == Len(stack[r])
    IN  /\ Len(s) = m /\ \A i \in 1..(m - 1) : s[i] = stack[r][i]
        /\ s[m].task = Self(r).task /\ s[m].input = v /\ s[m].count = n
        /\ s[m].as = Self(r).as

LEMMA TopChanged ==
    ASSUME TaskInv, MeaningInv, NEW r \in Runs, call[r] # NoCall, call[r].to > 0,
           NEW v, NEW n
    PROVE  TopIsChanged(r, WithInput(r, v, n), v, n)
<1> PICK m, z : m = Len(stack[r]) /\ z = WithInput(r, v, n)
    OBVIOUS
<1>1. Linked(stack[r]) /\ call[r].to = m /\ m \in Nat
    BY InCallMeans
<1>2. m \in DOMAIN stack[r] /\ DOMAIN stack[r] = 1..m
    BY <1>1, LinkedLength
<1>3. IsChanged(WithInput(r, v, n), stack[r], call[r].to, v, n)
    BY <1>1, <1>2, ChangedFields DEF WithInput
<1>4. IsChanged(z, stack[r], m, v, n)
    BY <1>1, <1>3
<1>5. \A i \in 1..(m - 1) : i \in DOMAIN stack[r] \ {m}
    BY <1>1, <1>2
<1>6. TopIsChanged(r, z, v, n)
    BY <1>1, <1>4, <1>5 DEF Self, IsChanged, TopIsChanged
<1> QED
    BY <1>6

\* The place of the context that is called and of the subtask that reports to it.
LEMMA TopFrame ==
    ASSUME TaskInv, MeaningInv, NEW r \in Runs, call[r].op \in {"report", "throw"},
           call[r].to > 0
    PROVE  \E g : /\ Chain(trace[r], Root(r), stack[r], call[r], g)
                  /\ Frame(trace[r], Self(r), call[r].as, g[call[r].to], g[call[r].to + 1])
                  /\ Follows(trace[r], g[call[r].to + 1], Reported(r))
<1>1. call[r] # NoCall
    BY DEF NoCall
<1>2. /\ Chained(trace[r], Root(r), stack[r], call[r]) /\ call[r].to = Len(stack[r])
      /\ Len(stack[r]) \in Nat
    BY <1>1, InCallMeans
<1> PICK g : Chain(trace[r], Root(r), stack[r], call[r], g)
    BY <1>2 DEF Chained
<1> DEFINE m == call[r].to
<1>3. m \in Waiting(stack[r], call[r]) /\ Asked(stack[r], call[r], m) = call[r].as
    BY <1>1, <1>2 DEF Waiting, Asked
<1>4. Frame(trace[r], Self(r), call[r].as, g[m], g[m + 1])
    BY <1>3 DEF Chain, Self
<1>5. Follows(trace[r], g[m + 1], Reported(r))
    BY <1>1, <1>2 DEF Chain, Reached, Reported
<1> QED
    BY <1>4, <1>5

\* The context on top reports z.
LEMMA PassMeans ==
    ASSUME TaskInv, MeaningInv, NEW r \in Runs, call[r].op \in {"report", "throw"},
           call[r].to > 0, NEW op \in {"report", "throw"}, NEW v, PassOn(r, op, v),
           NEW z, z = Outcome(Here(trace[r]), op, v),
           AtTurn(Self(r), call[r].as) => \A R : Rest(R, Self(r), call[r].as, Reported(r), z)
    PROVE  MeaningInv'
<1> PICK m : m = call[r].to
    OBVIOUS
<1> PICK dl : dl = [op |-> op, value |-> v, to |-> Self(r).to, as |-> Self(r).as]
    OBVIOUS
<1>1. call[r] # NoCall
    BY DEF NoCall
<1>2. /\ m = Len(stack[r]) /\ at[r] \in InCall /\ m \in Nat \ {0}
    BY <1>1, InCallMeans
<1> PICK g : /\ Chain(trace[r], Root(r), stack[r], call[r], g)
             /\ Frame(trace[r], Self(r), call[r].as, g[m], g[m + 1])
             /\ Follows(trace[r], g[m + 1], Reported(r))
    BY TopFrame
<1>3. Follows(trace[r], g[m], z)
  <2>1. \A R : Rest(R, Self(r), call[r].as, Reported(r), z)
      BY DEF Frame
  <2> QED
      BY <2>1, PassedOn
<1>4. /\ stack'[r] = Front(stack[r]) /\ call'[r] = dl /\ at' = at /\ trace' = trace
      /\ job' = job /\ owned' = owned /\ OnlyRun(r)
    BY DEF PassOn, OnlyRun, TaskInv, RunsShape, Self
<1>5. dl.op = op /\ dl.value = v /\ dl.as = stack[r][m].as
    BY DEF Self
<1>6. TopYields(trace[r], stack[r], g, dl)
    BY <1>2, <1>3, <1>5 DEF TopYields
<1>7. Chained(trace[r], Root(r), Front(stack[r]), dl)
  <2>1. Linked(stack[r]) /\ stack[r] # <<>>
      BY <1>1, <1>2, InCallMeans, LinkedLength
  <2> QED
      BY <1>1, <1>6, <2>1, ChainPops
<1>8. Root(r)' = Root(r) /\ MeaningOf(r)
    BY <1>4 DEF Root, MeaningInv
<1>9. MeaningOf(r)'
    BY <1>2, <1>4, <1>7, <1>8 DEF MeaningOf, InCall
<1> QED
    BY <1>4, <1>9, OthersMean DEF MeaningInv

\* The context on top calls its next subtask, t, with w.
LEMMA TurnMeans ==
    ASSUME TaskInv, MeaningInv, NEW r \in Runs, call[r].op \in {"report", "throw"},
           call[r].to > 0, NEW s, NEW v, NEW n, TopIsChanged(r, s, v, n),
           NEW t, NEW w, NEW as, Spawn(r, s, t, w, as),
           \A a, b, e : /\ Frame(trace[r], Self(r), call[r].as, a, b)
                        /\ Follows(trace[r], b, Reported(r))
                        /\ e.task = Self(r).task /\ e.input = v /\ e.count = n
                        => Frame(trace[r], e, as, a, Code(t, w, Here(trace[r])))
    PROVE  MeaningInv'
<1> PICK m : m = Len(stack[r])
    OBVIOUS
<1> PICK dl : dl = [op |-> "create", task |-> t, value |-> w, to |-> Len(s), as |-> as]
    OBVIOUS
<1>1. call[r] # NoCall
    BY DEF NoCall
<1>2. m \in Nat \ {0} /\ m = call[r].to
    BY <1>1, InCallMeans
<1> PICK g : /\ Chain(trace[r], Root(r), stack[r], call[r], g)
             /\ Frame(trace[r], Self(r), call[r].as, g[m], g[m + 1])
             /\ Follows(trace[r], g[m + 1], Reported(r))
    BY <1>2, TopFrame
<1>3. /\ Len(s) = m /\ \A i \in 1..(m - 1) : s[i] = stack[r][i]
      /\ s[m].task = Self(r).task /\ s[m].input = v /\ s[m].count = n
      /\ s[m].as = stack[r][m].as
    BY <1>2 DEF TopIsChanged, Self
<1>4. Frame(trace[r], s[m], as, g[m], Code(t, w, Here(trace[r])))
    BY <1>3
<1>5. dl.op = "create" /\ dl.task = t /\ dl.value = w /\ dl.as = as
    OBVIOUS
<1>6. TopAsks(trace[r], stack[r], s, g, dl)
    BY <1>3, <1>4, <1>5 DEF TopAsks
<1>7. Chained(trace[r], Root(r), s, dl)
  <2>1. Linked(stack[r]) /\ stack[r] # <<>>
      BY <1>1, <1>2, InCallMeans, LinkedLength
  <2> QED
      BY <1>1, <1>6, <2>1, ChainTurns
<1> QED
    BY <1>1, <1>7, SpawnMeans

LEMMA ReportFields ==
    ASSUME NEW r, NEW as, IF call[r].op = "report" THEN as = "value" ELSE as = "exception"
    PROVE  Reported(r).as = as /\ Reported(r).value = call[r].value
           /\ Reported(r).k = Here(trace[r])
  BY DEF Reported, Outcome, Yield

\* A context that reports what its subtask yielded.
LEMMA PassThrough ==
    ASSUME NEW r, NEW op, op = call[r].op, NEW v, v = call[r].value
    PROVE  Outcome(Here(trace[r]), op, v) = Reported(r)
  BY DEF Reported

LEMMA SequentialMeans ==
    ASSUME TaskInv, MeaningInv, NEW r \in Runs, ReportSequential(r)
    PROVE  MeaningInv'
<1> DEFINE c == Self(r)
           t == c.task
           n == c.count
           v == call[r].value
           k == Here(trace[r])
<1>1. call[r].op = "report" /\ call[r].to > 0 /\ Kind[t] = "sequential" /\ call[r] # NoCall
    BY DEF ReportSequential, Reports, NoCall
<1>2. /\ Reported(r).as = "value" /\ Reported(r).value = v /\ Reported(r).k = k
      /\ Outcome(k, "report", v) = Reported(r)
    BY <1>1, ReportFields, PassThrough
<1>3. CASE n = Len(Sub[t])
  <2>1. PassOn(r, "report", v)
      BY <1>3 DEF ReportSequential, Subtasks
  <2>2. \A R : Rest(R, c, call[r].as, Reported(r), Reported(r))
      BY <1>1, <1>3 DEF Rest, AfterTurn
  <2> QED
      BY <1>1, <1>2, <2>1, <2>2, PassMeans
<1>4. CASE n # Len(Sub[t])
  <2>1. Spawn(r, WithInput(r, Copied(v), n + 1), Sub[t][n + 1], v, "result")
      BY <1>4 DEF ReportSequential, Subtasks
  <2>2. TopIsChanged(r, WithInput(r, Copied(v), n + 1), Copied(v), n + 1)
      BY <1>1, TopChanged
  <2>3. ASSUME NEW a, NEW b, NEW e, Frame(trace[r], c, call[r].as, a, b),
               Follows(trace[r], b, Reported(r)), e.task = t, e.count = n + 1
        PROVE  Frame(trace[r], e, "result", a, Code(Sub[t][n + 1], v, k))
    <3> PICK x, y, as, tr : x = c /\ y = Reported(r) /\ as = call[r].as /\ tr = trace[r]
        OBVIOUS
    <3>1. /\ Frame(tr, x, as, a, b) /\ Follows(tr, b, y) /\ y.as = "value"
          /\ Kind[x.task] = "sequential" /\ x.count # Len(Sub[x.task])
          /\ e.task = x.task /\ e.count = x.count + 1
        BY <1>1, <1>2, <1>4, <2>3
    <3>2. Frame(tr, e, "result", a, Code(Sub[x.task][x.count + 1], y.value, y.k))
        BY <3>1, SequenceGoesOn
    <3> QED
        BY <1>2, <3>2
  <2> QED
      BY <1>1, <2>1, <2>2, <2>3, TurnMeans
<1> QED
    BY <1>3, <1>4

LEMMA ThreeBranches ==
    ASSUME NEW len \in {2, 3}, NEW v, ~((IF v = Yes THEN 2 ELSE 3) <= len)
    PROVE  v # Yes /\ len # 3
  OBVIOUS

LEMMA ConditionalMeans ==
    ASSUME TaskInv, MeaningInv, NEW r \in Runs, ReportConditional(r)
    PROVE  MeaningInv'
<1> DEFINE c == Self(r)
           t == c.task
           v == call[r].value
           k == Here(trace[r])
<1> PICK n : n = (IF v = Yes THEN 2 ELSE 3)
    OBVIOUS
<1>1. /\ call[r].op = "report" /\ call[r].to > 0 /\ Kind[t] = "conditional"
      /\ call[r] # NoCall
    BY DEF ReportConditional, Reports, NoCall
<1>2. /\ Reported(r).as = "value" /\ Reported(r).value = v /\ Reported(r).k = k
      /\ Outcome(k, "report", v) = Reported(r)
    BY <1>1, ReportFields, PassThrough
<1>3. AtTurn(c, call[r].as)
    BY <1>1, TopFrame DEF Frame
<1>4. t \in Tasks /\ c.count \in {0, 1} /\ c.input \notin Movable /\ Len(Sub[t]) \in {2, 3}
    BY <1>1, <1>3, ShapesAssumption DEF AtTurn
<1>5. CASE c.count = 1
  <2>1. PassOn(r, "report", v)
      BY <1>5 DEF ReportConditional
  <2>2. \A R : Rest(R, c, call[r].as, Reported(r), Reported(r))
      BY <1>1, <1>5 DEF Rest
  <2> QED
      BY <1>1, <1>2, <2>1, <2>2, PassMeans
<1>6. CASE c.count = 0 /\ n <= Len(Sub[t])
  <2>1. Spawn(r, WithInput(r, Copied(c.input), 1), Sub[t][n], c.input, "result")
      BY <1>6 DEF ReportConditional, Subtasks
  <2>2. TopIsChanged(r, WithInput(r, Copied(c.input), 1), c.input, 1)
      BY <1>1, <1>4, TopChanged DEF Copied
  <2>3. ASSUME NEW a, NEW b, NEW e, Frame(trace[r], c, call[r].as, a, b),
               Follows(trace[r], b, Reported(r)), e.task = t, e.input = c.input, e.count = 1
        PROVE  Frame(trace[r], e, "result", a, Code(Sub[t][n], c.input, k))
    <3> PICK x, y, as, tr : x = c /\ y = Reported(r) /\ as = call[r].as /\ tr = trace[r]
        OBVIOUS
    <3>1. /\ Frame(tr, x, as, a, b) /\ Follows(tr, b, y) /\ y.as = "value"
          /\ Kind[x.task] = "conditional" /\ x.count = 0 /\ n <= Len(Sub[x.task])
          /\ n = (IF y.value = Yes THEN 2 ELSE 3)
          /\ e.task = x.task /\ e.count = 1 /\ e.input = x.input
        BY <1>1, <1>2, <1>6, <2>3
    <3>2. Frame(tr, e, "result", a, Code(Sub[x.task][n], x.input, y.k))
        BY <3>1, ConditionalGoesOn
    <3> QED
        BY <1>2, <3>2
  <2> QED
      BY <1>1, <2>1, <2>2, <2>3, TurnMeans
<1>7. CASE c.count = 0 /\ ~(n <= Len(Sub[t]))
  <2>1. PassOn(r, "report", NoValue)
      BY <1>7 DEF ReportConditional, Subtasks
  <2>2. v # Yes /\ Len(Sub[t]) # 3
      BY <1>4, <1>7, ThreeBranches
  <2>3. \A R : Rest(R, c, call[r].as, Reported(r), Outcome(k, "report", NoValue))
      BY <1>1, <1>2, <1>7, <2>2 DEF Rest, AfterIf, Stops, Outcome
  <2> QED
      BY <1>1, <2>1, <2>3, PassMeans
<1> QED
    BY <1>4, <1>5, <1>6, <1>7

LEMMA LoopPredicateMeans ==
    ASSUME TaskInv, MeaningInv, NEW r \in Runs, ReportLoopPredicate(r)
    PROVE  MeaningInv'
<1> DEFINE c == Self(r)
           t == c.task
           v == call[r].value
           k == Here(trace[r])
<1>1. /\ call[r].op = "report" /\ call[r].to > 0 /\ Kind[t] = "loop" /\ call[r] # NoCall
      /\ call[r].as = "predicate"
    BY DEF ReportLoopPredicate, Reports, NoCall
<1>2. Reported(r).as = "value" /\ Reported(r).value = v /\ Reported(r).k = k
    BY <1>1, ReportFields
<1>3. AtTurn(c, call[r].as)
    BY <1>1, TopFrame DEF Frame
<1>4. t \in Tasks /\ c.input \notin Movable /\ Len(Sub[t]) \in {1, 2}
    BY <1>1, <1>3, ShapesAssumption DEF AtTurn
<1>5. TopIsChanged(r, WithInput(r, Copied(c.input), 0), c.input, 0)
    BY <1>1, <1>4, TopChanged DEF Copied
<1>6. CASE v = No
  <2>1. PassOn(r, "report", c.input)
      BY <1>6 DEF ReportLoopPredicate
  <2>2. \A R : Rest(R, c, call[r].as, Reported(r), Outcome(k, "report", c.input))
      BY <1>1, <1>2, <1>6 DEF Rest, AfterTest, Stops, Outcome
  <2> QED
      BY <1>1, <2>1, <2>2, PassMeans
<1>7. CASE v # No /\ Len(Sub[t]) = 2
  <2>1. Spawn(r, WithInput(r, Copied(c.input), 0), Sub[t][2], c.input, "body")
      BY <1>7 DEF ReportLoopPredicate, Subtasks
  <2>2. ASSUME NEW a, NEW b, NEW e, Frame(trace[r], c, call[r].as, a, b),
               Follows(trace[r], b, Reported(r)), e.task = t, e.input = c.input
        PROVE  Frame(trace[r], e, "body", a, Code(Sub[t][2], c.input, k))
    <3> PICK x, y, tr : x = c /\ y = Reported(r) /\ tr = trace[r]
        OBVIOUS
    <3>1. /\ Frame(tr, x, "predicate", a, b) /\ Follows(tr, b, y) /\ y.as = "value"
          /\ Kind[x.task] = "loop" /\ y.value # No /\ Len(Sub[x.task]) = 2
          /\ e.task = x.task /\ e.input = x.input
        BY <1>1, <1>2, <1>7, <2>2
    <3>2. Frame(tr, e, "body", a, Code(Sub[x.task][2], x.input, y.k))
        BY <3>1, LoopEntersBody
    <3> QED
        BY <1>2, <3>2
  <2> QED
      BY <1>1, <1>5, <2>1, <2>2, TurnMeans
<1>8. CASE v # No /\ Len(Sub[t]) = 1
  <2>1. Spawn(r, WithInput(r, Copied(c.input), 0), Sub[t][1], c.input, "predicate")
      BY <1>8 DEF ReportLoopPredicate, Subtasks
  <2>2. ASSUME NEW a, NEW b, NEW e, Frame(trace[r], c, call[r].as, a, b),
               Follows(trace[r], b, Reported(r)), e.task = t, e.input = c.input
        PROVE  Frame(trace[r], e, "predicate", a, Code(Sub[t][1], c.input, k))
    <3> PICK x, y, tr : x = c /\ y = Reported(r) /\ tr = trace[r]
        OBVIOUS
    <3>1. /\ Frame(tr, x, "predicate", a, b) /\ Follows(tr, b, y) /\ y.as = "value"
          /\ Kind[x.task] = "loop" /\ y.value # No /\ Len(Sub[x.task]) = 1
          /\ e.task = x.task /\ e.input = x.input /\ x.input \notin Movable
        BY <1>1, <1>2, <1>4, <1>8, <2>2
    <3>2. Frame(tr, e, "predicate", a, Code(Sub[x.task][1], x.input, y.k))
        BY <3>1, LoopTestsAgain
    <3> QED
        BY <1>2, <3>2
  <2> QED
      BY <1>1, <1>5, <2>1, <2>2, TurnMeans
<1> QED
    BY <1>4, <1>6, <1>7, <1>8

LEMMA LoopBodyMeans ==
    ASSUME TaskInv, MeaningInv, NothingMoved, NEW r \in Runs, ReportLoopBody(r)
    PROVE  MeaningInv'
<1> DEFINE c == Self(r)
           t == c.task
           v == call[r].value
           k == Here(trace[r])
<1>1. /\ call[r].op = "report" /\ call[r].to > 0 /\ Kind[t] = "loop" /\ call[r] # NoCall
      /\ call[r].as = "body" /\ v \notin Movable
    BY DEF ReportLoopBody, Reports, NoCall, NothingMoved
<1>2. Reported(r).as = "value" /\ Reported(r).value = v /\ Reported(r).k = k
    BY <1>1, ReportFields
<1>3. TopIsChanged(r, WithInput(r, Copied(v), 0), v, 0)
    BY <1>1, TopChanged DEF Copied
<1>4. Spawn(r, WithInput(r, Copied(v), 0), Sub[t][1], v, "predicate")
    BY DEF ReportLoopBody, Subtasks
<1>5. ASSUME NEW a, NEW b, NEW e, Frame(trace[r], c, call[r].as, a, b),
             Follows(trace[r], b, Reported(r)), e.task = t, e.input = v
      PROVE  Frame(trace[r], e, "predicate", a, Code(Sub[t][1], v, k))
  <2> PICK x, y, tr, w : x = c /\ y = Reported(r) /\ tr = trace[r] /\ w = v
      OBVIOUS
  <2>1. /\ Frame(tr, x, "body", a, b) /\ Follows(tr, b, y) /\ y.as = "value"
        /\ Kind[x.task] = "loop" /\ y.value = w /\ w \notin Movable
        /\ e.task = x.task /\ e.input = w
      BY <1>1, <1>2, <1>5
  <2>2. Frame(tr, e, "predicate", a, Code(Sub[x.task][1], w, y.k))
      BY <2>1, LoopTestsAgain
  <2> QED
      BY <1>2, <2>2
<1> QED
    BY <1>1, <1>3, <1>4, <1>5, TurnMeans

LEMMA RepeatMeans ==
    ASSUME TaskInv, MeaningInv, RepeatsForNothing, NEW r \in Runs, ReportRepeat(r)
    PROVE  MeaningInv'
<1> DEFINE c == Self(r)
           t == c.task
           n == c.count + 1
           v == call[r].value
           k == Here(trace[r])
<1>1. /\ call[r].op = "report" /\ call[r].to > 0 /\ Kind[t] = "repeat" /\ call[r] # NoCall
      /\ RepeatResult(v) = v
    BY DEF ReportRepeat, Reports, NoCall, RepeatsForNothing, RepeatResult
<1>2. /\ Reported(r).as = "value" /\ Reported(r).value = v /\ Reported(r).k = k
      /\ Outcome(k, "report", v) = Reported(r)
    BY <1>1, ReportFields, PassThrough
<1>3. CASE ~(n < c.input)
  <2>1. PassOn(r, "report", v)
      BY <1>1, <1>3 DEF ReportRepeat
  <2>2. \A R : Rest(R, c, call[r].as, Reported(r), Reported(r))
      BY <1>1, <1>3 DEF Rest, AfterRound
  <2> QED
      BY <1>1, <1>2, <2>1, <2>2, PassMeans
<1>4. CASE n < c.input
  <2>1. Spawn(r, WithInput(r, c.input, n), Sub[t][1], n, "result")
      BY <1>4 DEF ReportRepeat, Subtasks
  <2>2. TopIsChanged(r, WithInput(r, c.input, n), c.input, n)
      BY <1>1, TopChanged
  <2>3. k \in Nat
      BY <1>1, InCallMeans, TraceGrows DEF Here
  <2>4. ASSUME NEW a, NEW b, NEW e, Frame(trace[r], c, call[r].as, a, b),
               Follows(trace[r], b, Reported(r)), e.task = t, e.input = c.input, e.count = n
        PROVE  Frame(trace[r], e, "result", a, Code(Sub[t][1], n, k))
    <3> PICK x, y, as, tr : x = c /\ y = Reported(r) /\ as = call[r].as /\ tr = trace[r]
        OBVIOUS
    <3>1. /\ Frame(tr, x, as, a, b) /\ Follows(tr, b, y) /\ y.as = "value" /\ y.k \in Nat
          /\ Kind[x.task] = "repeat" /\ x.count + 1 < x.input
          /\ e.task = x.task /\ e.count = x.count + 1 /\ e.input = x.input
        BY <1>1, <1>2, <1>4, <2>3, <2>4
    <3>2. Frame(tr, e, "result", a, Code(Sub[x.task][1], x.count + 1, y.k))
        BY <3>1, RepeatGoesOn
    <3> QED
        BY <1>2, <3>2
  <2> QED
      BY <1>1, <2>1, <2>2, <2>4, TurnMeans
<1> QED
    BY <1>3, <1>4

LEMMA InterceptMeans ==
    ASSUME TaskInv, MeaningInv, NEW r \in Runs, ReportIntercept(r)
    PROVE  MeaningInv'
<1> DEFINE c == Self(r)
           k == Here(trace[r])
<1>1. /\ call[r].op = "report" /\ call[r].to > 0 /\ Kind[c.task] = "intercept"
      /\ PassOn(r, "report", call[r].value)
    BY DEF ReportIntercept, Reports
<1>2. Reported(r).as = "value" /\ Outcome(k, "report", call[r].value) = Reported(r)
    BY <1>1, ReportFields, PassThrough
<1>3. \A R : Rest(R, c, call[r].as, Reported(r), Reported(r))
    BY <1>1, <1>2 DEF Rest, AfterTry
<1> QED
    BY <1>1, <1>2, <1>3, PassMeans

LEMMA ExceptionMeans ==
    ASSUME TaskInv, MeaningInv, NEW r \in Runs, ReportException(r)
    PROVE  MeaningInv'
<1> DEFINE c == Self(r)
           t == c.task
           v == call[r].value
           k == Here(trace[r])
<1>1. call[r].op = "throw" /\ call[r].to > 0 /\ call[r] # NoCall
    BY DEF ReportException, NoCall
<1>2. /\ Reported(r).as = "exception" /\ Reported(r).value = v /\ Reported(r).k = k
      /\ Outcome(k, "throw", v) = Reported(r) /\ Stops(Reported(r))
    BY <1>1, ReportFields, PassThrough DEF Stops
<1>3. CASE Accepting(r) = {}
  <2>1. PassOn(r, "throw", v)
      BY <1>3 DEF ReportException
  <2>2. Kind[t] = "intercept" => call[r].as = "caught" \/ Handlers(t, v) = {}
      BY <1>3 DEF Accepting, Handlers
  <2>3. \A R : Rest(R, c, call[r].as, Reported(r), Reported(r))
      BY <1>2, <2>2, StopsAll
  <2> QED
      BY <1>1, <1>2, <2>1, <2>3, PassMeans
<1>4. CASE Accepting(r) # {}
  <2>1. /\ Kind[t] = "intercept" /\ call[r].as # "caught" /\ Accepting(r) = Handlers(t, v)
      BY <1>4 DEF Accepting, Handlers
  <2>2. Spawn(r, stack[r], Sub[t][1 + Min(Handlers(t, v))], v, "caught")
      BY <1>4, <2>1 DEF ReportException, Subtasks
  <2>3. TopIsChanged(r, stack[r], c.input, c.count)
      BY <1>1, InCallMeans DEF TopIsChanged, Self
  <2>4. ASSUME NEW a, NEW b, NEW e, Frame(trace[r], c, call[r].as, a, b),
               Follows(trace[r], b, Reported(r)), e.task = t
        PROVE  Frame(trace[r], e, "caught", a, Code(Sub[t][1 + Min(Handlers(t, v))], v, k))
    <3> PICK x, y, as, tr : x = c /\ y = Reported(r) /\ as = call[r].as /\ tr = trace[r]
        OBVIOUS
    <3>1. /\ Frame(tr, x, as, a, b) /\ Follows(tr, b, y) /\ y.as = "exception"
          /\ Kind[x.task] = "intercept" /\ as # "caught" /\ Handlers(x.task, y.value) # {}
          /\ e.task = x.task
        BY <1>1, <1>2, <1>4, <2>1, <2>4
    <3>2. Frame(tr, e, "caught", a,
                Code(Sub[x.task][1 + Min(Handlers(x.task, y.value))], y.value, y.k))
        BY <3>1, InterceptCatches
    <3> QED
        BY <1>2, <3>2
  <2> QED
      BY <1>1, <2>2, <2>3, <2>4, TurnMeans
<1> QED
    BY <1>3, <1>4

\* The task of the run itself has ended.
LEMMA NobodyMeans ==
    ASSUME TaskInv, MeaningInv, NEW r \in Runs, ReportToNobody(r)
    PROVE  MeaningInv'
<1>1. call[r].op \in {"report", "throw"} /\ call[r].to = 0 /\ call[r] # NoCall
    BY DEF ReportToNobody, NoCall
<1>2. Linked(stack[r]) /\ Len(stack[r]) = 0 /\ Chained(trace[r], Root(r), stack[r], call[r])
    BY <1>1, InCallMeans
<1>3. stack[r] = <<>>
    BY <1>2, LinkedLength
<1>4. at[r] = "reporting"
    BY <1>1 DEF TaskInv, RunInv, InCall
<1>5. Follows(trace[r], Root(r), Reported(r))
    BY <1>1, <1>2 DEF Chained, Chain, Reached, Reported
<1>6. Done(r)
  <2> DEFINE as == IF call[r].op = "report" THEN "value" ELSE "exception"
  <2>1. as \in {"value", "exception"} /\ Reported(r) = Yield(Here(trace[r]), as, call[r].value)
      BY <1>1 DEF Reported, Outcome
  <2> HIDE DEF as
  <2> QED
      BY <1>5, <2>1 DEF Done
<1>7. /\ stack' = stack /\ at'[r] = "tail" /\ trace' = trace /\ job' = job /\ owned' = owned
      /\ OnlyRun(r)
    BY <1>4 DEF ReportToNobody, Return, OnlyRun, TaskInv, RunsShape
<1>8. MeaningOf(r) /\ Done(r)'
    BY <1>6, <1>7 DEF MeaningInv, Done, Root
<1>9. MeaningOf(r)'
    BY <1>3, <1>4, <1>7, <1>8 DEF MeaningOf
<1> QED
    BY <1>7, <1>9, OthersMean DEF MeaningInv

LEMMA ReportsMean ==
    ASSUME TaskInv, MeaningInv, KnownDifferencesAside, NEW r \in Runs, Report(r)
    PROVE  MeaningInv'
  BY NobodyMeans, SequentialMeans, ConditionalMeans, LoopPredicateMeans, LoopBodyMeans,
     RepeatMeans, InterceptMeans, ExceptionMeans DEF Report, KnownDifferencesAside
-----------------------------------------------------------------------------
(***************************************************************************)
(* run(), the runner and its queue.                                        *)
(***************************************************************************)
LEMMA BetweenCalls ==
    ASSUME TaskInv, MeaningInv, NEW r \in Runs, at[r] \in {"kickstart", "queued", "executing"}
    PROVE  /\ Linked(stack[r]) /\ stack[r] # <<>> /\ call[r] = NoCall /\ Traced(trace[r])
           /\ Chained(trace[r], Root(r), stack[r], NoCall)
           /\ Top(r).task \in Tasks /\ GetRunner[Top(r).task] \in Runners
<1>1. /\ Linked(stack[r]) /\ stack[r] # <<>> /\ call[r] = NoCall /\ Traced(trace[r])
      /\ Chained(trace[r], Root(r), stack[r], NoCall) /\ job[r].task \in Tasks
    BY DEF TaskInv, RunInv, InCall, MeaningInv, MeaningOf
<1> PICK g : Chain(trace[r], Root(r), stack[r], NoCall, g)
    BY <1>1 DEF Chained
<1> PICK n : n = Len(stack[r])
    OBVIOUS
<1>2. n \in Nat /\ n > 0 /\ n = (IF NoCall = NoCall THEN Len(stack[r]) ELSE Len(stack[r]) + 1)
    BY <1>1, LinkedLength
<1>3. Root(r).task \in Tasks
    BY <1>1 DEF Root, Code
<1>4. g[n].task \in Tasks
    BY <1>1, <1>2, <1>3, PlaceInTask
<1>5. Top(r).task \in Tasks
    BY <1>4 DEF Chain, Reached, Code, Top, Last
<1> QED
    BY <1>1, <1>5, RunnersAssumption

LEMMA KickstartMeans ==
    ASSUME TaskInv, MeaningInv, NEW r \in Runs, Kickstart(r)
    PROVE  MeaningInv'
<1>1. at[r] = "kickstart" /\ MeaningOf(r)
    BY DEF Kickstart, MeaningInv
<1>2. GetRunner[Top(r).task] \in Runners
    BY <1>1, BetweenCalls
<1>3. OnlyRun(r) /\ call' = call /\ trace' = trace /\ job' = job /\ owned' = owned
    BY DEF Kickstart, Discard, OnlyRun, TaskInv, RunsShape
<1>4. Root(r)' = Root(r)
    BY <1>3 DEF Root
<1>5. MeaningOf(r)'
  <2>1. CASE Alive(GetRunner[Top(r).task])
    <3>1. stack' = stack /\ at'[r] = "queued"
        BY <2>1 DEF Kickstart, TaskInv, RunsShape
    <3> QED
        BY <1>1, <1>3, <1>4, <3>1 DEF MeaningOf
  <2>2. CASE ~Alive(GetRunner[Top(r).task])
    <3>1. at'[r] = "over"
        BY <2>2 DEF Kickstart, Discard, TaskInv, RunsShape
    <3>2. \E q \in Runners : ~owned[q]
        BY <1>2, <2>2 DEF Alive
    <3> QED
        BY <1>1, <1>3, <1>4, <3>1, <3>2 DEF MeaningOf
  <2> QED
      BY <2>1, <2>2
<1> QED
    BY <1>3, <1>5, OthersMean DEF MeaningInv

LEMMA TaskExecutorMeans ==
    ASSUME TaskInv, MeaningInv, NEW q \in Runners, TaskExecutor(q)
    PROVE  MeaningInv'
<1>1. queue[q] \in Seq(Runs) /\ queue[q] # <<>>
    BY DEF TaskExecutor, TaskInv, QueuesInv
<1> PICK r \in Runs : r = Head(queue[q])
    BY <1>1, HeadTailProperties
<1>2. r = queue[q][1] /\ 1 \in DOMAIN queue[q]
    BY <1>1, HeadTailProperties, EmptySeq
<1>3. at[r] = "queued" /\ MeaningOf(r)
    BY <1>2 DEF TaskInv, QueuesInv, MeaningInv
<1>4. GetRunner[Top(r).task] \in Runners /\ stack[r] # <<>>
    BY <1>3, BetweenCalls
<1>5. OnlyRun(r) /\ call' = call /\ trace' = trace /\ job' = job /\ owned' = owned
    BY DEF TaskExecutor, Discard, OnlyRun, TaskInv, RunsShape
<1>6. Root(r)' = Root(r)
    BY <1>5 DEF Root
<1>7. MeaningOf(r)'
  <2>1. CASE Alive(GetRunner[Top(r).task])
    <3>1. stack' = stack /\ at'[r] \in {"executing", "tail"}
        BY <2>1 DEF TaskExecutor, TaskInv, RunsShape
    <3> QED
        BY <1>3, <1>4, <1>5, <1>6, <3>1 DEF MeaningOf
  <2>2. CASE ~Alive(GetRunner[Top(r).task])
    <3>1. at'[r] = "over"
        BY <2>2 DEF TaskExecutor, Discard, TaskInv, RunsShape
    <3>2. \E p \in Runners : ~owned[p]
        BY <1>4, <2>2 DEF Alive
    <3> QED
        BY <1>3, <1>5, <1>6, <3>1, <3>2 DEF MeaningOf
  <2> QED
      BY <2>1, <2>2
<1> QED
    BY <1>5, <1>7, OthersMean DEF MeaningInv

LEMMA CallEndsMeans ==
    ASSUME TaskInv, MeaningInv, NEW r \in Runs, CallEndsSomehow(r)
    PROVE  MeaningInv'
<1> PICK op \in {"report", "throw"}, v \in UNION {Returns[Top(r).task], Throws[Top(r).task]} :
        /\ CallEnds(r, op, v, Front(stack[r]))
        /\ IF op = "report" THEN v \in Returns[Top(r).task] ELSE v \in Throws[Top(r).task]
    BY DEF CallEndsSomehow, CallReturns, CallThrows
<1> PICK dl : dl = [op |-> op, value |-> v, to |-> Top(r).to, as |-> Top(r).as]
    OBVIOUS
<1> PICK x : x = [task |-> Top(r).task, input |-> Top(r).input, outcome |-> v]
    OBVIOUS
<1> PICK n : n = Len(stack[r])
    OBVIOUS
<1>1. at[r] = "executing" /\ MeaningOf(r)
    BY DEF CallEnds, MeaningInv
<1>2. /\ Linked(stack[r]) /\ stack[r] # <<>> /\ Traced(trace[r])
      /\ Chained(trace[r], Root(r), stack[r], NoCall)
    BY <1>1, BetweenCalls
<1>3. n > 0 /\ Top(r) = stack[r][n]
    BY <1>2, LinkedLength DEF Top, Last
<1>4. /\ dl.op = op /\ dl.value = v /\ dl.as = stack[r][n].as
      /\ x = [task |-> stack[r][n].task, input |-> stack[r][n].input, outcome |-> dl.value]
    BY <1>3
<1>5. Chained(Append(trace[r], x), Root(r), Front(stack[r]), dl)
    BY <1>2, <1>3, <1>4, ChainCalls
<1>6. /\ trace'[r] = Append(trace[r], x) /\ stack'[r] = Front(stack[r]) /\ call'[r] = dl
      /\ at'[r] = "reporting"
      /\ OnlyRun(r) /\ job' = job /\ owned' = owned
      /\ DOMAIN trace' = Runs /\ \A s \in Runs \ {r} : trace'[s] = trace[s]
    BY DEF CallEnds, OnlyRun, TaskInv, RunsShape, MeaningInv
<1>7. Traced(trace'[r]) /\ Root(r)' = Root(r)
  <2>1. Traced(Append(trace[r], x))
      BY <1>2, TraceGrows
  <2> QED
      BY <1>6, <2>1 DEF Root
<1>8. MeaningOf(r)'
    BY <1>1, <1>5, <1>6, <1>7 DEF MeaningOf
<1> QED
    BY <1>6, <1>8, OthersMean DEF MeaningInv

LEMMA EndMeans ==
    ASSUME TaskInv, MeaningInv, NEW r \in Runs, End(r)
    PROVE  MeaningInv'
<1>1. at[r] = "tail" /\ MeaningOf(r)
    BY DEF End, EndWith, MeaningInv
<1>2. /\ at'[r] = (IF stack[r] = <<>> THEN "over" ELSE "queued")
      /\ OnlyRun(r) /\ stack' = stack /\ call' = call /\ trace' = trace /\ job' = job
      /\ owned' = owned
    BY DEF End, EndWith, OnlyRun, TaskInv, RunsShape
<1>3. Root(r)' = Root(r) /\ (Done(r) => Done(r)')
    BY <1>2 DEF Root, Done
<1>4. MeaningOf(r)'
    BY <1>1, <1>2, <1>3 DEF MeaningOf
<1> QED
    BY <1>2, <1>4, OthersMean DEF MeaningInv

LEMMA RunMeans ==
    ASSUME TaskInv, MeaningInv, NEW r \in Runs, NEW t \in Roots[r], NEW input, Run(r, t, input)
    PROVE  MeaningInv'
<1> PICK dl : dl = [op |-> "create", task |-> t, value |-> input, to |-> 0, as |-> "none"]
    OBVIOUS
<1> PICK place : place = Code(t, input, 1)
    OBVIOUS
<1>1. at[r] = "new" /\ MeaningOf(r) /\ t \in Tasks /\ stack[r] = <<>>
    BY TasksAssumption DEF Run, MeaningInv, TaskInv, RunInv
<1>2. trace[r] = <<>> /\ Traced(trace[r])
    BY <1>1 DEF MeaningOf
<1>3. /\ at'[r] = "starting" /\ call'[r] = dl /\ stack' = stack /\ trace' = trace
      /\ job'[r] = [task |-> t, input |-> input] /\ owned' = owned /\ OnlyRun(r)
      /\ DOMAIN job' = Runs /\ \A s \in Runs \ {r} : job'[s] = job[s]
    BY DEF Run, OnlyRun, TaskInv, RunsShape, MeaningInv
<1>4. Root(r)' = place /\ job'[r].task = t
    BY <1>3 DEF Root
<1>5. Len(<<>>) = 0 /\ Here(<<>>) = 1
    BY DEF Here
<1>6. dl # NoCall /\ dl.op = "create" /\ dl.task = t /\ dl.value = input
    BY DEF NoCall
<1>7. Chained(<<>>, place, <<>>, dl)
  <2> DEFINE g == [i \in {1} |-> place]
  <2>1. g[1] = place
      OBVIOUS
  <2> HIDE DEF g
  <2>2. Waiting(<<>>, dl) = {}
      BY <1>5, <1>6 DEF Waiting
  <2>3. Reached(<<>>, <<>>, dl, place)
      BY <1>5, <1>6 DEF Reached
  <2> QED
      BY <1>5, <1>6, <2>1, <2>2, <2>3 DEF Chained, Chain
<1>8. Chained(trace'[r], Root(r)', stack'[r], call'[r])
    BY <1>1, <1>2, <1>3, <1>4, <1>7
<1>9. MeaningOf(r)'
    BY <1>1, <1>2, <1>3, <1>4, <1>8 DEF MeaningOf
<1> QED
    BY <1>3, <1>9, OthersMean DEF MeaningInv

LEMMA DropMeans ==
    ASSUME MeaningInv, NEW p \in Runners, DropRunner(p)
    PROVE  MeaningInv'
<1>1. /\ job' = job /\ stack' = stack /\ call' = call /\ at' = at /\ trace' = trace
      /\ \A q \in Runners : ~owned[q] => ~owned'[q]
    BY DEF DropRunner
<1>2. ASSUME NEW r \in Runs PROVE MeaningOf(r)'
  <2>1. MeaningOf(r)
      BY DEF MeaningInv
  <2>2. Root(r)' = Root(r) /\ (Done(r) => Done(r)')
      BY <1>1 DEF Root, Done
  <2> QED
      BY <1>1, <2>1, <2>2 DEF MeaningOf
<1> QED
    BY <1>1, <1>2 DEF MeaningInv
-----------------------------------------------------------------------------
LEMMA MeaningStep ==
    TaskInv /\ MeaningInv /\ KnownDifferencesAside /\ [Next]_vars => MeaningInv'
<1> SUFFICES ASSUME TaskInv, MeaningInv, KnownDifferencesAside, [Next]_vars
             PROVE  MeaningInv'
    OBVIOUS
<1>1. ASSUME NEW r \in Runs, NEW t \in Roots[r], NEW input, Run(r, t, input) PROVE MeaningInv'
    BY <1>1, RunMeans
<1>2. ASSUME NEW r \in Runs, Step(r) PROVE MeaningInv'
    BY <1>2, CreatesMean, ReportsMean, KickstartMeans, CallEndsMeans, EndMeans DEF Step
<1>3. ASSUME NEW q \in Runners, TaskExecutor(q) PROVE MeaningInv'
    BY <1>3, TaskExecutorMeans
<1>4. ASSUME NEW q \in Runners, DropRunner(q) PROVE MeaningInv'
    BY <1>4, DropMeans
<1>5. CASE UNCHANGED vars
    BY <1>5 DEF vars, MeaningInv, MeaningOf, Root, Done
<1> QED
    BY <1>1, <1>2, <1>3, <1>4, <1>5 DEF Next

LEMMA MeaningInit == Init => MeaningInv
<1> SUFFICES ASSUME Init PROVE MeaningInv
    OBVIOUS
<1>1. DOMAIN job = Runs /\ DOMAIN trace = Runs
    BY DEF Init
<1>2. ASSUME NEW r \in Runs PROVE MeaningOf(r)
  <2>1. trace[r] = <<>> /\ at[r] = "new"
      BY DEF Init
  <2>2. Traced(trace[r])
      BY <2>1 DEF Traced
  <2> QED
      BY <2>1, <2>2 DEF MeaningOf
<1> QED
    BY <1>1, <1>2 DEF MeaningInv

LEMMA MeaningFollows == TaskInv /\ MeaningInv => FollowsTheCode
<1> SUFFICES ASSUME TaskInv, MeaningInv, NEW r \in Runs
             PROVE  LET end == Len(trace[r]) + 1
                        pending == Yield(end, "pending", NoValue)
                    IN  /\ at[r] \in {"kickstart", "queued", "executing"} =>
                              \A R : /\ Closed(R, trace[r])
                                     /\ Yields(R, Top(r).task, Top(r).input, end, pending)
                                     => Yields(R, job[r].task, job[r].input, 1, pending)
                        /\ at[r] = "over" /\ (\A q \in Runners : owned[q]) =>
                              \E as \in {"value", "exception"} : \E v :
                                 Evaluates(job[r].task, job[r].input, trace[r],
                                           Yield(end, as, v))
    BY DEF FollowsTheCode
<1>1. ASSUME at[r] \in {"kickstart", "queued", "executing"}, NEW R, Closed(R, trace[r]),
             NEW y, y = Yield(Len(trace[r]) + 1, "pending", NoValue),
             Yields(R, Top(r).task, Top(r).input, Len(trace[r]) + 1, y)
      PROVE  Yields(R, job[r].task, job[r].input, 1, y)
  <2> PICK n : n = Len(stack[r])
      OBVIOUS
  <2>1. Linked(stack[r]) /\ Chained(trace[r], Root(r), stack[r], NoCall) /\ stack[r] # <<>>
      BY <1>1, BetweenCalls
  <2>2. n > 0 /\ n \in Nat
      BY <2>1, LinkedLength
  <2>3. y.as = "pending"
      BY <1>1 DEF Yield
  <2>4. Has(R, Code(stack[r][n].task, stack[r][n].input, Here(trace[r])), y)
      BY <1>1 DEF Has, Code, Here, Top, Last
  <2>5. Has(R, Root(r), y)
      BY <1>1, <2>1, <2>2, <2>3, <2>4, ChainPends
  <2> QED
      BY <2>5 DEF Has, Root, Code
<1>2. ASSUME at[r] = "over", \A q \in Runners : owned[q]
      PROVE  \E as \in {"value", "exception"} : \E v :
                Evaluates(job[r].task, job[r].input, trace[r], Yield(Len(trace[r]) + 1, as, v))
  <2>1. Done(r)
      BY <1>2 DEF MeaningInv, MeaningOf
  <2>2. \A y : Follows(trace[r], Root(r), y) =>
                Evaluates(job[r].task, job[r].input, trace[r], y)
      BY DEF Follows, Evaluates, Has, Root, Code
  <2> QED
      BY <2>1, <2>2 DEF Done, Here
<1> QED
    BY <1>1, <1>2

(***************************************************************************)
(* For every tree of tasks, any number of runs and runners and whatever    *)
(* the user's functions return or throw: the run of a task does what the   *)
(* synchronous code given for it in task.h does, as long as the known      *)
(* differences are set aside (create_context and the reporters of the      *)
(* contexts, task_executor).                                               *)
(***************************************************************************)
THEOREM RunsFollowTheCode == Spec /\ []KnownDifferencesAside => []FollowsTheCode
<1>1. KnownDifferencesAside => NoZeroRepeat
    BY DEF KnownDifferencesAside, RepeatsSomething, NoZeroRepeat
<1>2. TaskInv /\ KnownDifferencesAside /\ [Next]_vars => TaskInv'
    BY <1>1, TaskStep
<1> QED
    BY <1>2, TaskInit, MeaningInit, MeaningStep, MeaningFollows, PTL DEF Spec
-----------------------------------------------------------------------------
(***************************************************************************)
(* The code decides.  What follows from the rules is the least relation    *)
(* they allow; in it whatever the task is, or the turn of a sequence, the  *)
(* while or the for, it yields one outcome at most.                        *)
(***************************************************************************)

\* What the rules conclude from R, by the form of the statement.
CallConcludes(tr, t, v, k, y) ==
    /\ k \in DOMAIN tr /\ tr[k].task = t /\ tr[k].input = v
    /\ \/ tr[k].outcome \in Returns[t] /\ y = Yield(k + 1, "value", tr[k].outcome)
       \/ tr[k].outcome \in Throws[t] /\ y = Yield(k + 1, "exception", tr[k].outcome)

RepeatConcludes(R, t, v, k, y) ==
    /\ v \in Nat /\ k \in Nat
    /\ \/ v > 0 /\ ForYields(R, t, 0, v, k, y)
       \/ v = 0 /\ y = Yield(k, "value", Default)

TaskConcludes(R, tr, t, v, k, y) ==
    \/ CallConcludes(tr, t, v, k, y)
    \/ /\ t \in Tasks
       /\ \/ Kind[t] = "sequential" /\ TurnYields(R, t, 1, v, k, y)
          \/ /\ Kind[t] = "conditional"
             /\ \E x : Yields(R, Sub[t][1], v, k, x) /\ AfterIf(R, t, v, x, y)
          \/ Kind[t] = "loop" /\ WhileYields(R, t, v, k, y)
          \/ Kind[t] = "repeat" /\ RepeatConcludes(R, t, v, k, y)
          \/ /\ Kind[t] = "intercept"
             /\ \E x : Yields(R, Sub[t][1], v, k, x) /\ AfterTry(R, t, x, y)

TurnConcludes(R, t, n, v, k, y) ==
    /\ t \in Tasks /\ Kind[t] = "sequential" /\ n \in DOMAIN Sub[t]
    /\ \E x : Yields(R, Sub[t][n], v, k, x) /\ AfterTurn(R, t, n, x, y)

WhileConcludes(R, t, v, k, y) ==
    /\ t \in Tasks /\ Kind[t] = "loop"
    /\ \E x : Yields(R, Sub[t][1], v, k, x) /\ AfterTest(R, t, v, x, y)

ForConcludes(R, t, i, n, k, y) ==
    /\ t \in Tasks /\ Kind[t] = "repeat" /\ i \in Nat /\ n \in Nat /\ k \in Nat /\ i < n
    /\ \E x : Yields(R, Sub[t][1], i, k, x) /\ AfterRound(R, t, i, n, x, y)

HasConclusions(R, tr) ==
    /\ \A t, v, k, y : TaskConcludes(R, tr, t, v, k, y) => Yields(R, t, v, k, y)
    /\ \A t, n, v, k, y : TurnConcludes(R, t, n, v, k, y) => TurnYields(R, t, n, v, k, y)
    /\ \A t, v, k, y : WhileConcludes(R, t, v, k, y) => WhileYields(R, t, v, k, y)
    /\ \A t, i, n, k, y : ForConcludes(R, t, i, n, k, y) => ForYields(R, t, i, n, k, y)

LEMMA ClosedHasConclusions ==
    ASSUME NEW R, NEW tr, Closed(R, tr)
    PROVE  HasConclusions(R, tr)
<1> USE DEF Closed
<1>1. ASSUME NEW t, NEW v, NEW k, NEW y, TaskConcludes(R, tr, t, v, k, y)
      PROVE  Yields(R, t, v, k, y)
  <2>1. CASE CallConcludes(tr, t, v, k, y)
      BY <2>1 DEF CallConcludes, CallRule
  <2>2. CASE t \in Tasks /\ Kind[t] = "sequential" /\ TurnYields(R, t, 1, v, k, y)
      BY <2>2 DEF SequentialRule
  <2>3. CASE t \in Tasks /\ Kind[t] = "conditional"
             /\ \E x : Yields(R, Sub[t][1], v, k, x) /\ AfterIf(R, t, v, x, y)
      BY <2>3 DEF ConditionalRule
  <2>4. CASE t \in Tasks /\ Kind[t] = "loop" /\ WhileYields(R, t, v, k, y)
      BY <2>4 DEF LoopRule
  <2>5. CASE t \in Tasks /\ Kind[t] = "repeat" /\ RepeatConcludes(R, t, v, k, y)
      BY <2>5 DEF RepeatRule, RepeatConcludes
  <2>6. CASE t \in Tasks /\ Kind[t] = "intercept"
             /\ \E x : Yields(R, Sub[t][1], v, k, x) /\ AfterTry(R, t, x, y)
      BY <2>6 DEF InterceptRule
  <2> QED
      BY <1>1, <2>1, <2>2, <2>3, <2>4, <2>5, <2>6 DEF TaskConcludes
<1>2. ASSUME NEW t, NEW n, NEW v, NEW k, NEW y, TurnConcludes(R, t, n, v, k, y)
      PROVE  TurnYields(R, t, n, v, k, y)
    BY <1>2 DEF TurnConcludes, SequentialRule
<1>3. ASSUME NEW t, NEW v, NEW k, NEW y, WhileConcludes(R, t, v, k, y)
      PROVE  WhileYields(R, t, v, k, y)
    BY <1>3 DEF WhileConcludes, LoopRule
<1>4. ASSUME NEW t, NEW i, NEW n, NEW k, NEW y, ForConcludes(R, t, i, n, k, y)
      PROVE  ForYields(R, t, i, n, k, y)
    BY <1>4 DEF ForConcludes, RepeatRule
<1> QED
    BY <1>1, <1>2, <1>3, <1>4 DEF HasConclusions

LEMMA ConclusionsClose ==
    ASSUME NEW R, NEW tr, HasConclusions(R, tr)
    PROVE  Closed(R, tr)
<1> USE DEF HasConclusions
<1>1. CallRule(R, tr)
    BY DEF CallRule, TaskConcludes, CallConcludes
<1>2. SequentialRule(R)
    BY DEF SequentialRule, TaskConcludes, TurnConcludes
<1>3. ConditionalRule(R)
    BY DEF ConditionalRule, TaskConcludes
<1>4. LoopRule(R)
    BY DEF LoopRule, TaskConcludes, WhileConcludes
<1>5. RepeatRule(R)
    BY DEF RepeatRule, TaskConcludes, RepeatConcludes, ForConcludes
<1>6. InterceptRule(R)
    BY DEF InterceptRule, TaskConcludes
<1> QED
    BY <1>1, <1>2, <1>3, <1>4, <1>5, <1>6 DEF Closed

LEMMA MoreConclusions ==
    ASSUME NEW R, NEW Q, R \subseteq Q, NEW tr
    PROVE  /\ \A t, v, k, y : TaskConcludes(R, tr, t, v, k, y) => TaskConcludes(Q, tr, t, v, k, y)
           /\ \A t, n, v, k, y : TurnConcludes(R, t, n, v, k, y) => TurnConcludes(Q, t, n, v, k, y)
           /\ \A t, v, k, y : WhileConcludes(R, t, v, k, y) => WhileConcludes(Q, t, v, k, y)
           /\ \A t, i, n, k, y : ForConcludes(R, t, i, n, k, y) => ForConcludes(Q, t, i, n, k, y)
<1>1. /\ \A t, v, k, y : Yields(R, t, v, k, y) => Yields(Q, t, v, k, y)
      /\ \A t, n, v, k, y : TurnYields(R, t, n, v, k, y) => TurnYields(Q, t, n, v, k, y)
      /\ \A t, v, k, y : WhileYields(R, t, v, k, y) => WhileYields(Q, t, v, k, y)
      /\ \A t, i, n, k, y : ForYields(R, t, i, n, k, y) => ForYields(Q, t, i, n, k, y)
    BY DEF Yields, TurnYields, WhileYields, ForYields
<1>2. /\ \A t, v, x, y : AfterIf(R, t, v, x, y) => AfterIf(Q, t, v, x, y)
      /\ \A t, x, y : AfterTry(R, t, x, y) => AfterTry(Q, t, x, y)
      /\ \A t, n, x, y : AfterTurn(R, t, n, x, y) => AfterTurn(Q, t, n, x, y)
      /\ \A t, x, y : AfterBody(R, t, x, y) => AfterBody(Q, t, x, y)
      /\ \A t, i, n, x, y : AfterRound(R, t, i, n, x, y) => AfterRound(Q, t, i, n, x, y)
    BY <1>1 DEF AfterIf, AfterTry, AfterTurn, AfterBody, AfterRound
<1>3. \A t, v, x, y : AfterTest(R, t, v, x, y) => AfterTest(Q, t, v, x, y)
    BY <1>1, <1>2 DEF AfterTest
<1>4. \A t, v, k, y : RepeatConcludes(R, t, v, k, y) => RepeatConcludes(Q, t, v, k, y)
    BY <1>1 DEF RepeatConcludes
<1>5. \A t, v, k, y : TaskConcludes(R, tr, t, v, k, y) => TaskConcludes(Q, tr, t, v, k, y)
    BY <1>1, <1>2, <1>4 DEF TaskConcludes
<1>6. \A t, n, v, k, y : TurnConcludes(R, t, n, v, k, y) => TurnConcludes(Q, t, n, v, k, y)
    BY <1>1, <1>2 DEF TurnConcludes
<1>7. \A t, v, k, y : WhileConcludes(R, t, v, k, y) => WhileConcludes(Q, t, v, k, y)
    BY <1>1, <1>3 DEF WhileConcludes
<1>8. \A t, i, n, k, y : ForConcludes(R, t, i, n, k, y) => ForConcludes(Q, t, i, n, k, y)
    BY <1>1, <1>2 DEF ForConcludes
<1> QED
    BY <1>5, <1>6, <1>7, <1>8
-----------------------------------------------------------------------------
\* All statements about the values that the rules can speak of.
ValuesOf(tr) == {tr[i].input : i \in DOMAIN tr} \cup {tr[i].outcome : i \in DOMAIN tr}
                    \cup Nat \cup {NoValue, Default}

TasksOf(tr) == Tasks \cup {tr[i].task : i \in DOMAIN tr}

OutcomesOf(tr) == {Yield(k, as, v) : k \in Nat, as \in {"value", "exception"}, v \in ValuesOf(tr)}

AllStatements(tr) ==
    {<<"task", t, v, k, y>> :
        t \in TasksOf(tr), v \in ValuesOf(tr), k \in Nat, y \in OutcomesOf(tr)}
    \cup {<<"turn", t, n, v, k, y>> :
        t \in Tasks, n \in Nat, v \in ValuesOf(tr), k \in Nat, y \in OutcomesOf(tr)}
    \cup {<<"while", t, v, k, y>> :
        t \in Tasks, v \in ValuesOf(tr), k \in Nat, y \in OutcomesOf(tr)}
    \cup {<<"for", t, i, n, k, y>> :
        t \in Tasks, i \in Nat, n \in Nat, k \in Nat, y \in OutcomesOf(tr)}

LEMMA StatementsOf ==
    ASSUME NEW tr
    PROVE  /\ \A t, v, k, y : Yields(AllStatements(tr), t, v, k, y) <=>
                 t \in TasksOf(tr) /\ v \in ValuesOf(tr) /\ k \in Nat /\ y \in OutcomesOf(tr)
           /\ \A t, n, v, k, y : TurnYields(AllStatements(tr), t, n, v, k, y) <=>
                 /\ t \in Tasks /\ n \in Nat /\ v \in ValuesOf(tr) /\ k \in Nat
                 /\ y \in OutcomesOf(tr)
           /\ \A t, v, k, y : WhileYields(AllStatements(tr), t, v, k, y) <=>
                 t \in Tasks /\ v \in ValuesOf(tr) /\ k \in Nat /\ y \in OutcomesOf(tr)
           /\ \A t, i, n, k, y : ForYields(AllStatements(tr), t, i, n, k, y) <=>
                 t \in Tasks /\ i \in Nat /\ n \in Nat /\ k \in Nat /\ y \in OutcomesOf(tr)
<1>1. \A t, v, k, y : Yields(AllStatements(tr), t, v, k, y) <=>
          t \in TasksOf(tr) /\ v \in ValuesOf(tr) /\ k \in Nat /\ y \in OutcomesOf(tr)
    BY DEF Yields, AllStatements
<1>2. \A t, n, v, k, y : TurnYields(AllStatements(tr), t, n, v, k, y) <=>
          /\ t \in Tasks /\ n \in Nat /\ v \in ValuesOf(tr) /\ k \in Nat
          /\ y \in OutcomesOf(tr)
    BY DEF TurnYields, AllStatements
<1>3. \A t, v, k, y : WhileYields(AllStatements(tr), t, v, k, y) <=>
          t \in Tasks /\ v \in ValuesOf(tr) /\ k \in Nat /\ y \in OutcomesOf(tr)
    BY DEF WhileYields, AllStatements
<1>4. \A t, i, n, k, y : ForYields(AllStatements(tr), t, i, n, k, y) <=>
          t \in Tasks /\ i \in Nat /\ n \in Nat /\ k \in Nat /\ y \in OutcomesOf(tr)
    BY DEF ForYields, AllStatements
<1> QED
    BY <1>1, <1>2, <1>3, <1>4

LEMMA YieldFields ==
    ASSUME NEW k, NEW as, NEW v, NEW y, y = Yield(k, as, v)
    PROVE  y.k = k /\ y.as = as /\ y.value = v
  BY DEF Yield

LEMMA AllIsClosed ==
    ASSUME NEW tr, Traced(tr)
    PROVE  Closed(AllStatements(tr), tr)
<1> PICK A : A = AllStatements(tr)
    OBVIOUS
<1>1. DOMAIN tr \subseteq Nat
    BY DEF Traced
<1>2. /\ \A t, v, k, y : Yields(A, t, v, k, y) <=>
            t \in TasksOf(tr) /\ v \in ValuesOf(tr) /\ k \in Nat /\ y \in OutcomesOf(tr)
      /\ \A t, n, v, k, y : TurnYields(A, t, n, v, k, y) <=>
            /\ t \in Tasks /\ n \in Nat /\ v \in ValuesOf(tr) /\ k \in Nat
            /\ y \in OutcomesOf(tr)
      /\ \A t, v, k, y : WhileYields(A, t, v, k, y) <=>
            t \in Tasks /\ v \in ValuesOf(tr) /\ k \in Nat /\ y \in OutcomesOf(tr)
      /\ \A t, i, n, k, y : ForYields(A, t, i, n, k, y) <=>
            t \in Tasks /\ i \in Nat /\ n \in Nat /\ k \in Nat /\ y \in OutcomesOf(tr)
    BY StatementsOf
<1>3. /\ \A k \in Nat, v \in ValuesOf(tr) :
            Yield(k, "value", v) \in OutcomesOf(tr) /\ Yield(k, "exception", v) \in OutcomesOf(tr)
      /\ \A y \in OutcomesOf(tr) : y.k \in Nat /\ y.value \in ValuesOf(tr)
    BY DEF OutcomesOf, Yield
<1>4. /\ Tasks \subseteq TasksOf(tr) /\ Nat \subseteq ValuesOf(tr)
      /\ NoValue \in ValuesOf(tr) /\ Default \in ValuesOf(tr)
      /\ \A i \in DOMAIN tr : /\ tr[i].task \in TasksOf(tr) /\ tr[i].input \in ValuesOf(tr)
                              /\ tr[i].outcome \in ValuesOf(tr)
    BY DEF TasksOf, ValuesOf
<1>5. ASSUME NEW t, NEW v, NEW k, NEW y, TaskConcludes(A, tr, t, v, k, y)
      PROVE  Yields(A, t, v, k, y)
  <2>1. CASE CallConcludes(tr, t, v, k, y)
    <3>1. k \in Nat /\ k + 1 \in Nat
        BY <1>1, <2>1 DEF CallConcludes
    <3>2. y \in OutcomesOf(tr)
        BY <1>3, <1>4, <2>1, <3>1 DEF CallConcludes
    <3> QED
        BY <1>2, <1>4, <2>1, <3>1, <3>2 DEF CallConcludes
  <2>2. CASE t \in Tasks /\ Kind[t] = "sequential" /\ TurnYields(A, t, 1, v, k, y)
      BY <1>2, <1>4, <2>2
  <2>3. CASE t \in Tasks /\ Kind[t] = "conditional"
             /\ \E x : Yields(A, Sub[t][1], v, k, x) /\ AfterIf(A, t, v, x, y)
      BY <1>2, <1>3, <1>4, <2>3 DEF AfterIf
  <2>4. CASE t \in Tasks /\ Kind[t] = "loop" /\ WhileYields(A, t, v, k, y)
      BY <1>2, <1>4, <2>4
  <2>5. CASE t \in Tasks /\ Kind[t] = "repeat" /\ RepeatConcludes(A, t, v, k, y)
      BY <1>2, <1>3, <1>4, <2>5 DEF RepeatConcludes
  <2>6. CASE t \in Tasks /\ Kind[t] = "intercept"
             /\ \E x : Yields(A, Sub[t][1], v, k, x) /\ AfterTry(A, t, x, y)
      BY <1>2, <1>4, <2>6 DEF AfterTry
  <2> QED
      BY <1>5, <2>1, <2>2, <2>3, <2>4, <2>5, <2>6 DEF TaskConcludes
<1>6. ASSUME NEW t, NEW n, NEW v, NEW k, NEW y, TurnConcludes(A, t, n, v, k, y)
      PROVE  TurnYields(A, t, n, v, k, y)
  <2>1. n \in Nat
      BY <1>6, FirstSubtask DEF TurnConcludes
  <2> QED
      BY <1>2, <1>6, <2>1 DEF TurnConcludes, AfterTurn
<1>7. ASSUME NEW t, NEW v, NEW k, NEW y, WhileConcludes(A, t, v, k, y)
      PROVE  WhileYields(A, t, v, k, y)
    BY <1>2, <1>3, <1>7 DEF WhileConcludes, AfterTest, AfterBody
<1>8. ASSUME NEW t, NEW i, NEW n, NEW k, NEW y, ForConcludes(A, t, i, n, k, y)
      PROVE  ForYields(A, t, i, n, k, y)
    BY <1>2, <1>8 DEF ForConcludes, AfterRound
<1>9. HasConclusions(A, tr)
    BY <1>5, <1>6, <1>7, <1>8 DEF HasConclusions
<1> QED
    BY <1>9, ConclusionsClose
-----------------------------------------------------------------------------
LeastRelation(tr) == {s \in AllStatements(tr) : \A R : Closed(R, tr) => s \in R}

LEMMA LeastIsClosed ==
    ASSUME NEW tr, Traced(tr)
    PROVE  Closed(LeastRelation(tr), tr)
<1> PICK L : L = LeastRelation(tr)
    OBVIOUS
<1>1. \A R : Closed(R, tr) => L \subseteq R
    BY DEF LeastRelation
<1>2. \A s : (\A R : Closed(R, tr) => s \in R) => s \in L
    BY AllIsClosed DEF LeastRelation
<1>3. ASSUME NEW t, NEW v, NEW k, NEW y, TaskConcludes(L, tr, t, v, k, y)
      PROVE  Yields(L, t, v, k, y)
  <2>1. ASSUME NEW R, Closed(R, tr) PROVE Yields(R, t, v, k, y)
    <3>1. TaskConcludes(R, tr, t, v, k, y)
        BY <1>1, <1>3, <2>1, MoreConclusions
    <3> QED
        BY <2>1, <3>1, ClosedHasConclusions DEF HasConclusions
  <2> QED
      BY <1>2, <2>1 DEF Yields
<1>4. ASSUME NEW t, NEW n, NEW v, NEW k, NEW y, TurnConcludes(L, t, n, v, k, y)
      PROVE  TurnYields(L, t, n, v, k, y)
  <2>1. ASSUME NEW R, Closed(R, tr) PROVE TurnYields(R, t, n, v, k, y)
    <3>1. TurnConcludes(R, t, n, v, k, y)
        BY <1>1, <1>4, <2>1, MoreConclusions
    <3> QED
        BY <2>1, <3>1, ClosedHasConclusions DEF HasConclusions
  <2> QED
      BY <1>2, <2>1 DEF TurnYields
<1>5. ASSUME NEW t, NEW v, NEW k, NEW y, WhileConcludes(L, t, v, k, y)
      PROVE  WhileYields(L, t, v, k, y)
  <2>1. ASSUME NEW R, Closed(R, tr) PROVE WhileYields(R, t, v, k, y)
    <3>1. WhileConcludes(R, t, v, k, y)
        BY <1>1, <1>5, <2>1, MoreConclusions
    <3> QED
        BY <2>1, <3>1, ClosedHasConclusions DEF HasConclusions
  <2> QED
      BY <1>2, <2>1 DEF WhileYields
<1>6. ASSUME NEW t, NEW i, NEW n, NEW k, NEW y, ForConcludes(L, t, i, n, k, y)
      PROVE  ForYields(L, t, i, n, k, y)
  <2>1. ASSUME NEW R, Closed(R, tr) PROVE ForYields(R, t, i, n, k, y)
    <3>1. ForConcludes(R, t, i, n, k, y)
        BY <1>1, <1>6, <2>1, MoreConclusions
    <3> QED
        BY <2>1, <3>1, ClosedHasConclusions DEF HasConclusions
  <2> QED
      BY <1>2, <2>1 DEF ForYields
<1>7. HasConclusions(L, tr)
    BY <1>3, <1>4, <1>5, <1>6 DEF HasConclusions
<1> QED
    BY <1>7, ConclusionsClose

\* A statement of the least relation is there because a rule concludes it.
Concluded(R, tr, s) ==
    /\ s[1] = "task" => TaskConcludes(R, tr, s[2], s[3], s[4], s[5])
    /\ s[1] = "turn" => TurnConcludes(R, s[2], s[3], s[4], s[5], s[6])
    /\ s[1] = "while" => WhileConcludes(R, s[2], s[3], s[4], s[5])
    /\ s[1] = "for" => ForConcludes(R, s[2], s[3], s[4], s[5], s[6])

LEMMA ConcludedForms ==
    ASSUME NEW R, NEW tr
    PROVE  /\ \A t, v, k, y : Concluded(R, tr, <<"task", t, v, k, y>>)
                                <=> TaskConcludes(R, tr, t, v, k, y)
           /\ \A t, n, v, k, y : Concluded(R, tr, <<"turn", t, n, v, k, y>>)
                                <=> TurnConcludes(R, t, n, v, k, y)
           /\ \A t, v, k, y : Concluded(R, tr, <<"while", t, v, k, y>>)
                                <=> WhileConcludes(R, t, v, k, y)
           /\ \A t, i, n, k, y : Concluded(R, tr, <<"for", t, i, n, k, y>>)
                                <=> ForConcludes(R, t, i, n, k, y)
  BY DEF Concluded

LEMMA LeastIsConcluded ==
    ASSUME NEW tr, Traced(tr), NEW L, L = LeastRelation(tr)
    PROVE  /\ \A t, v, k, y : Yields(L, t, v, k, y) => TaskConcludes(L, tr, t, v, k, y)
           /\ \A t, n, v, k, y : TurnYields(L, t, n, v, k, y) => TurnConcludes(L, t, n, v, k, y)
           /\ \A t, v, k, y : WhileYields(L, t, v, k, y) => WhileConcludes(L, t, v, k, y)
           /\ \A t, i, n, k, y : ForYields(L, t, i, n, k, y) => ForConcludes(L, t, i, n, k, y)
<1> PICK D : D = {s \in L : Concluded(L, tr, s)}
    OBVIOUS
<1>1. HasConclusions(L, tr) /\ D \subseteq L
    BY LeastIsClosed, ClosedHasConclusions
<1>2. /\ \A t, v, k, y : Yields(D, t, v, k, y) <=>
            Yields(L, t, v, k, y) /\ TaskConcludes(L, tr, t, v, k, y)
      /\ \A t, n, v, k, y : TurnYields(D, t, n, v, k, y) <=>
            TurnYields(L, t, n, v, k, y) /\ TurnConcludes(L, t, n, v, k, y)
      /\ \A t, v, k, y : WhileYields(D, t, v, k, y) <=>
            WhileYields(L, t, v, k, y) /\ WhileConcludes(L, t, v, k, y)
      /\ \A t, i, n, k, y : ForYields(D, t, i, n, k, y) <=>
            ForYields(L, t, i, n, k, y) /\ ForConcludes(L, t, i, n, k, y)
    BY ConcludedForms DEF Yields, TurnYields, WhileYields, ForYields
<1>3. HasConclusions(D, tr)
    BY <1>1, <1>2, MoreConclusions DEF HasConclusions
<1>4. L \subseteq D
    BY <1>3, ConclusionsClose DEF LeastRelation
<1>5. L = D
    BY <1>1, <1>4
<1> QED
    BY <1>2, <1>5
-----------------------------------------------------------------------------
\* The calls of a trace: of simple tasks, whose functions never throw what they may
\* return.
CallsOf(tr) ==
    /\ Traced(tr)
    /\ \A i \in DOMAIN tr : /\ Kind[tr[i].task] = "simple"
                             /\ Returns[tr[i].task] \cap Throws[tr[i].task] = {}

\* No other outcome is stated in L for what the statement s is about.
Alone(L, s) ==
    /\ s[1] = "task" => \A y : Yields(L, s[2], s[3], s[4], y) => y = s[5]
    /\ s[1] = "turn" => \A y : TurnYields(L, s[2], s[3], s[4], s[5], y) => y = s[6]
    /\ s[1] = "while" => \A y : WhileYields(L, s[2], s[3], s[4], y) => y = s[5]
    /\ s[1] = "for" => \A y : ForYields(L, s[2], s[3], s[4], s[5], y) => y = s[6]

OnlyTask(L, t, v, k, y) == \A z : Yields(L, t, v, k, z) => z = y
OnlyTurn(L, t, n, v, k, y) == \A z : TurnYields(L, t, n, v, k, z) => z = y
OnlyWhile(L, t, v, k, y) == \A z : WhileYields(L, t, v, k, z) => z = y
OnlyFor(L, t, i, n, k, y) == \A z : ForYields(L, t, i, n, k, z) => z = y

LEMMA AloneForms ==
    ASSUME NEW L
    PROVE  /\ \A t, v, k, y : Alone(L, <<"task", t, v, k, y>>) <=> OnlyTask(L, t, v, k, y)
           /\ \A t, n, v, k, y : Alone(L, <<"turn", t, n, v, k, y>>) <=> OnlyTurn(L, t, n, v, k, y)
           /\ \A t, v, k, y : Alone(L, <<"while", t, v, k, y>>) <=> OnlyWhile(L, t, v, k, y)
           /\ \A t, i, n, k, y : Alone(L, <<"for", t, i, n, k, y>>) <=> OnlyFor(L, t, i, n, k, y)
  BY DEF Alone, OnlyTask, OnlyTurn, OnlyWhile, OnlyFor

\* Of the least relation all statements stand alone.
LEMMA LeastIsAlone ==
    ASSUME NEW tr, CallsOf(tr), NEW L, L = LeastRelation(tr),
           NEW t, NEW v, NEW k, NEW y1, NEW y2, Yields(L, t, v, k, y1), Yields(L, t, v, k, y2)
    PROVE  y1 = y2
<1> PICK G : G = {s \in L : Alone(L, s)}
    OBVIOUS
<1>1. Traced(tr)
    BY DEF CallsOf
<1>2. HasConclusions(L, tr) /\ G \subseteq L
    BY <1>1, LeastIsClosed, ClosedHasConclusions
<1>3. /\ \A u, w, i, y : Yields(G, u, w, i, y) <=>
            Yields(L, u, w, i, y) /\ \A z : Yields(L, u, w, i, z) => z = y
      /\ \A u, n, w, i, y : TurnYields(G, u, n, w, i, y) <=>
            TurnYields(L, u, n, w, i, y) /\ \A z : TurnYields(L, u, n, w, i, z) => z = y
      /\ \A u, w, i, y : WhileYields(G, u, w, i, y) <=>
            WhileYields(L, u, w, i, y) /\ \A z : WhileYields(L, u, w, i, z) => z = y
      /\ \A u, j, n, i, y : ForYields(G, u, j, n, i, y) <=>
            ForYields(L, u, j, n, i, y) /\ \A z : ForYields(L, u, j, n, i, z) => z = y
  <2>1. /\ \A u, w, i, y : Yields(G, u, w, i, y) <=>
              Yields(L, u, w, i, y) /\ OnlyTask(L, u, w, i, y)
        /\ \A u, n, w, i, y : TurnYields(G, u, n, w, i, y) <=>
              TurnYields(L, u, n, w, i, y) /\ OnlyTurn(L, u, n, w, i, y)
        /\ \A u, w, i, y : WhileYields(G, u, w, i, y) <=>
              WhileYields(L, u, w, i, y) /\ OnlyWhile(L, u, w, i, y)
        /\ \A u, j, n, i, y : ForYields(G, u, j, n, i, y) <=>
              ForYields(L, u, j, n, i, y) /\ OnlyFor(L, u, j, n, i, y)
      BY AloneForms DEF Yields, TurnYields, WhileYields, ForYields
  <2> QED
      BY <2>1, Zenon DEF OnlyTask, OnlyTurn, OnlyWhile, OnlyFor
<1>4. /\ \A u, w, x, y, z : AfterIf(G, u, w, x, y) /\ AfterIf(L, u, w, x, z) => z = y
      /\ \A u, x, y, z : AfterTry(G, u, x, y) /\ AfterTry(L, u, x, z) => z = y
      /\ \A u, n, x, y, z : AfterTurn(G, u, n, x, y) /\ AfterTurn(L, u, n, x, z) => z = y
      /\ \A u, x, y, z : AfterBody(G, u, x, y) /\ AfterBody(L, u, x, z) => z = y
      /\ \A u, i, n, x, y, z : AfterRound(G, u, i, n, x, y) /\ AfterRound(L, u, i, n, x, z)
                               => z = y
    BY <1>3 DEF AfterIf, AfterTry, AfterTurn, AfterBody, AfterRound
<1>5. \A u, w, x, y, z : AfterTest(G, u, w, x, y) /\ AfterTest(L, u, w, x, z) => z = y
  <2> SUFFICES ASSUME NEW u, NEW w, NEW x, NEW y, NEW z,
                      AfterTest(G, u, w, x, y), AfterTest(L, u, w, x, z)
               PROVE  z = y
      OBVIOUS
  <2>1. CASE Stops(x) \/ x.value = No
      BY <2>1 DEF AfterTest
  <2>2. CASE ~Stops(x) /\ x.value # No /\ Len(Sub[u]) = 1
      BY <1>3, <2>2 DEF AfterTest
  <2>3. CASE ~Stops(x) /\ x.value # No /\ Len(Sub[u]) # 1
    <3>1. PICK b : Yields(G, Sub[u][2], w, x.k, b) /\ AfterBody(G, u, b, y)
        BY <2>3 DEF AfterTest
    <3>2. PICK bb : Yields(L, Sub[u][2], w, x.k, bb) /\ AfterBody(L, u, bb, z)
        BY <2>3 DEF AfterTest
    <3>3. bb = b
        BY <1>3, <3>1, <3>2
    <3> QED
        BY <1>4, <3>1, <3>2, <3>3
  <2> QED
      BY <2>1, <2>2, <2>3
<1>6. ASSUME NEW u, NEW w, NEW i, NEW y, TaskConcludes(G, tr, u, w, i, y)
      PROVE  Yields(G, u, w, i, y)
  <2>1. Yields(L, u, w, i, y)
      BY <1>2, <1>6, MoreConclusions DEF HasConclusions
  <2>2. ASSUME NEW z, Yields(L, u, w, i, z) PROVE z = y
    <3>1. TaskConcludes(L, tr, u, w, i, z)
        BY <1>1, <2>2, LeastIsConcluded
    <3>2. CASE CallConcludes(tr, u, w, i, y)
      <4>1. Kind[u] = "simple" /\ Returns[u] \cap Throws[u] = {}
          BY <3>2 DEF CallConcludes, CallsOf
      <4>2. CallConcludes(tr, u, w, i, z)
          BY <3>1, <4>1 DEF TaskConcludes
      <4> QED
          BY <3>2, <4>1, <4>2 DEF CallConcludes
    <3>3. CASE ~CallConcludes(tr, u, w, i, y)
      <4>1. Kind[u] # "simple"
          BY <1>6, <3>3 DEF TaskConcludes
      <4>2. ~CallConcludes(tr, u, w, i, z)
          BY <4>1 DEF CallConcludes, CallsOf
      <4>3. CASE Kind[u] = "sequential"
          BY <1>3, <1>6, <3>1, <3>3, <4>2, <4>3 DEF TaskConcludes
      <4>4. CASE Kind[u] = "conditional"
        <5>1. PICK x : Yields(G, Sub[u][1], w, i, x) /\ AfterIf(G, u, w, x, y)
            BY <1>6, <3>3, <4>4 DEF TaskConcludes
        <5>2. PICK xx : Yields(L, Sub[u][1], w, i, xx) /\ AfterIf(L, u, w, xx, z)
            BY <3>1, <4>2, <4>4 DEF TaskConcludes
        <5>3. xx = x
            BY <1>3, <5>1, <5>2
        <5> QED
            BY <1>4, <5>1, <5>2, <5>3
      <4>5. CASE Kind[u] = "loop"
          BY <1>3, <1>6, <3>1, <3>3, <4>2, <4>5 DEF TaskConcludes
      <4>6. CASE Kind[u] = "repeat"
        <5>1. RepeatConcludes(G, u, w, i, y) /\ RepeatConcludes(L, u, w, i, z)
            BY <1>6, <3>1, <3>3, <4>2, <4>6 DEF TaskConcludes
        <5> QED
            BY <1>3, <5>1 DEF RepeatConcludes
      <4>7. CASE Kind[u] = "intercept"
        <5>1. PICK x : Yields(G, Sub[u][1], w, i, x) /\ AfterTry(G, u, x, y)
            BY <1>6, <3>3, <4>7 DEF TaskConcludes
        <5>2. PICK xx : Yields(L, Sub[u][1], w, i, xx) /\ AfterTry(L, u, xx, z)
            BY <3>1, <4>2, <4>7 DEF TaskConcludes
        <5>3. xx = x
            BY <1>3, <5>1, <5>2
        <5> QED
            BY <1>4, <5>1, <5>2, <5>3
      <4> QED
          BY <1>6, <3>3, <4>3, <4>4, <4>5, <4>6, <4>7 DEF TaskConcludes
    <3> QED
        BY <3>2, <3>3
  <2> QED
      BY <1>3, <2>1, <2>2
<1>7. ASSUME NEW u, NEW n, NEW w, NEW i, NEW y, TurnConcludes(G, u, n, w, i, y)
      PROVE  TurnYields(G, u, n, w, i, y)
  <2>1. TurnYields(L, u, n, w, i, y)
      BY <1>2, <1>7, MoreConclusions DEF HasConclusions
  <2>2. ASSUME NEW z, TurnYields(L, u, n, w, i, z) PROVE z = y
    <3>1. TurnConcludes(L, u, n, w, i, z)
        BY <1>1, <2>2, LeastIsConcluded
    <3> QED
        BY <1>3, <1>4, <1>7, <3>1 DEF TurnConcludes
  <2> QED
      BY <1>3, <2>1, <2>2
<1>8. ASSUME NEW u, NEW w, NEW i, NEW y, WhileConcludes(G, u, w, i, y)
      PROVE  WhileYields(G, u, w, i, y)
  <2>1. WhileYields(L, u, w, i, y)
      BY <1>2, <1>8, MoreConclusions DEF HasConclusions
  <2>2. ASSUME NEW z, WhileYields(L, u, w, i, z) PROVE z = y
    <3>1. WhileConcludes(L, u, w, i, z)
        BY <1>1, <2>2, LeastIsConcluded
    <3> QED
        BY <1>3, <1>5, <1>8, <3>1 DEF WhileConcludes
  <2> QED
      BY <1>3, <2>1, <2>2
<1>9. ASSUME NEW u, NEW j, NEW n, NEW i, NEW y, ForConcludes(G, u, j, n, i, y)
      PROVE  ForYields(G, u, j, n, i, y)
  <2>1. ForYields(L, u, j, n, i, y)
      BY <1>2, <1>9, MoreConclusions DEF HasConclusions
  <2>2. ASSUME NEW z, ForYields(L, u, j, n, i, z) PROVE z = y
    <3>1. ForConcludes(L, u, j, n, i, z)
        BY <1>1, <2>2, LeastIsConcluded
    <3> QED
        BY <1>3, <1>4, <1>9, <3>1 DEF ForConcludes
  <2> QED
      BY <1>3, <2>1, <2>2
<1>10. HasConclusions(G, tr)
    BY <1>6, <1>7, <1>8, <1>9 DEF HasConclusions
<1>11. L \subseteq G
    BY <1>10, ConclusionsClose DEF LeastRelation
<1>12. Yields(G, t, v, k, y1)
    BY <1>11 DEF Yields
<1> QED
    BY <1>3, <1>12

LEMMA EvaluatesOnce ==
    ASSUME NEW tr, CallsOf(tr), NEW t, NEW v, NEW y1, NEW y2,
           Evaluates(t, v, tr, y1), Evaluates(t, v, tr, y2)
    PROVE  y1 = y2
<1> PICK L : L = LeastRelation(tr)
    OBVIOUS
<1>1. Closed(L, tr)
    BY LeastIsClosed DEF CallsOf
<1>2. Yields(L, t, v, 1, y1) /\ Yields(L, t, v, 1, y2)
    BY <1>1 DEF Evaluates
<1> QED
    BY <1>2, LeastIsAlone
-----------------------------------------------------------------------------
\* What a run records are the calls of functions of simple tasks.
TraceInv ==
    /\ DOMAIN trace = Runs
    /\ \A r \in Runs : CallsOf(trace[r])

LEMMA CallsGrow ==
    ASSUME NEW tr, CallsOf(tr), NEW x, Kind[x.task] = "simple",
           Returns[x.task] \cap Throws[x.task] = {}
    PROVE  CallsOf(Append(tr, x))
<1> PICK ux : ux = Append(tr, x)
    OBVIOUS
<1>1. Traced(tr)
    BY DEF CallsOf
<1>2. /\ Traced(ux) /\ Len(tr) \in Nat
      /\ DOMAIN tr = 1..Len(tr) /\ DOMAIN ux = 1..(Len(tr) + 1)
    BY <1>1, TraceGrows
<1>3. ASSUME NEW i \in DOMAIN ux
      PROVE  Kind[ux[i].task] = "simple" /\ Returns[ux[i].task] \cap Throws[ux[i].task] = {}
  <2>1. CASE i \in DOMAIN tr
      BY <1>2, <2>1 DEF CallsOf
  <2>2. CASE i \notin DOMAIN tr
    <3>1. i = Len(tr) + 1
        BY <1>2, <2>2
    <3> QED
        BY <1>2, <3>1
  <2> QED
      BY <2>1, <2>2
<1>4. CallsOf(ux)
    BY <1>2, <1>3 DEF CallsOf
<1> QED
    BY <1>4

LEMMA TraceStep == TaskInv /\ MeaningInv /\ TraceInv /\ [Next]_vars => TraceInv'
<1> SUFFICES ASSUME TaskInv, MeaningInv, TraceInv, [Next]_vars PROVE TraceInv'
    OBVIOUS
<1>1. ASSUME NEW r \in Runs, CallEndsSomehow(r) PROVE TraceInv'
  <2>1. PICK op, v : CallEnds(r, op, v, Front(stack[r]))
      BY <1>1 DEF CallEndsSomehow, CallReturns, CallThrows
  <2> PICK x : x = [task |-> Top(r).task, input |-> Top(r).input, outcome |-> v]
      OBVIOUS
  <2>2. x.task = Top(r).task
      OBVIOUS
  <2>3. trace' = [trace EXCEPT ![r] = Append(@, x)] /\ at[r] = "executing"
      BY <2>1, Zenon DEF CallEnds
  <2>4. Kind[x.task] = "simple" /\ x.task \in Tasks
      BY <2>2, <2>3, BetweenCalls DEF TaskInv, RunInv, Simple
  <2>5. CallsOf(Append(trace[r], x))
      BY <2>4, CallsGrow, OutcomesAssumption DEF TraceInv
  <2> QED
      BY <2>3, <2>5 DEF TraceInv
<1>2. CASE UNCHANGED trace
    BY <1>2 DEF TraceInv
<1>3. ASSUME NEW r \in Runs, Create(r) PROVE UNCHANGED trace
    BY <1>3 DEF Create, CreateSimple, CreateSequential, CreateConditional, CreateLoop,
                CreateIntercept, CreateRepeat, CreateAndSpawn, Spawn
<1>4. ASSUME NEW r \in Runs, Report(r) PROVE UNCHANGED trace
    BY <1>4 DEF Report, ReportToNobody, ReportSequential, ReportConditional,
                ReportLoopPredicate, ReportLoopBody, ReportRepeat, ReportIntercept,
                ReportException, PassOn, Spawn
<1>5. ASSUME NEW r \in Runs, Kickstart(r) \/ End(r) PROVE UNCHANGED trace
    BY <1>5 DEF Kickstart, End, EndWith
<1>6. ASSUME NEW r \in Runs, NEW t, NEW input, Run(r, t, input) PROVE UNCHANGED trace
    BY <1>6 DEF Run
<1>7. ASSUME NEW q \in Runners, TaskExecutor(q) \/ DropRunner(q) PROVE UNCHANGED trace
    BY <1>7 DEF TaskExecutor, DropRunner
<1>8. CASE UNCHANGED vars
    BY <1>2, <1>8 DEF vars
<1> QED
    BY <1>1, <1>2, <1>3, <1>4, <1>5, <1>6, <1>7, <1>8 DEF Next, Step

LEMMA TraceInit == Init => TraceInv
<1> SUFFICES ASSUME Init PROVE TraceInv
    OBVIOUS
<1>1. ASSUME NEW r \in Runs PROVE CallsOf(trace[r])
  <2>1. trace[r] = <<>> /\ DOMAIN <<>> = {}
      BY DEF Init
  <2> QED
      BY <2>1 DEF CallsOf, Traced
<1> QED
    BY <1>1 DEF TraceInv, Init

(***************************************************************************)
(* For every tree of tasks and whatever the user's functions return or     *)
(* throw: the synchronous code of task.h, given the outcomes that these    *)
(* functions had in a run, has one outcome at most, so that what the run   *)
(* is shown to follow is one execution (task_executor, the reporters of    *)
(* the contexts).                                                          *)
(***************************************************************************)
LEMMA CodeDecidesOnce == Spec /\ []KnownDifferencesAside => []CodeDecides
<1>1. TraceInv => CodeDecides
    BY EvaluatesOnce DEF TraceInv, CodeDecides
<1>2. KnownDifferencesAside => NoZeroRepeat
    BY DEF KnownDifferencesAside, RepeatsSomething, NoZeroRepeat
<1> QED
    BY <1>1, <1>2, TaskInit, TaskStep, MeaningInit, MeaningStep, TraceInit, TraceStep,
       PTL DEF Spec
=============================================================================
