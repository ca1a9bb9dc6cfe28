------------------------- MODULE ModelEngineProofs -------------------------
(***************************************************************************)
(* Theorems about ModelEngine.                                             *)
(*                                                                         *)
(* EngineInv says where the engine's thread and the workers are: which     *)
(* ranks have been called in this stage, that a rank's only task is the    *)
(* stage's, and that what it posted is its share of the instruction it is  *)
(* at.  Every step is then a step of WorkerGroup, or leaves it unchanged.  *)
(*                                                                         *)
(* MissingInv follows one tensor no file has from the checkpoint to the    *)
(* flag verify_loaded_weights reads: while files are loaded its part of    *)
(* the parameter stays undefined on every rank, and the flag FALSE.        *)
(*                                                                         *)
(* InStep keeps the ranks of a forward together: a rank runs ahead of      *)
(* another only through instructions without a collective.                 *)
(*                                                                         *)
(* What the layers compute stays closed: no proof here opens a forward.    *)
(***************************************************************************)
EXTENDS ModelEngine, SequenceTheorems, TLAPS

IsSequence(s) == Len(s) \in Nat /\ s = [i \in 1..Len(s) |-> s[i]]

\* The ranks not yet called when the next one is k
From(k) == [i \in 1..config.ws - k |-> k + i - 1]

\* The engine calls the ranks in order; one that was not called has no task
\* and no answer.
CalledUpto(k) ==
    /\ todo = From(k)
    /\ \A r \in Ranks : r >= k => queue[r] = <<>> /\ r \notin done

Calls ==
    /\ \E k \in 0..config.ws : CalledUpto(k)
    /\ queue \in [Ranks -> {<<>>, <<stage>>}]
    /\ done \subseteq Ranks
    /\ \A r \in done : queue[r] = <<>>

Rounds ==
    /\ config \in Configs
    /\ stage \in Stages
    /\ stage \in {"init_model", "load_state_dict"} =>
          IsSequence(files) /\ Len(files) \in 1..MaxFiles
    /\ pass \in 1..Passes
    /\ stage \notin {"execute_model", "stopped"} => pass = 1
    /\ stage = "verify_loaded_weights" => todo = From(0)

\* Where a rank is in the forward: what it posted is its share of the
\* instruction it is at.
Posting(r) ==
    posted[r] # <<>> =>
        /\ stage = "execute_model" /\ queue[r] # <<>>
        /\ Len(env[r]) < Len(Prog)
        /\ posted[r][1] = Collective(Prog[Len(env[r]) + 1], config.ws)
        /\ Collective(Prog[Len(env[r]) + 1], config.ws) # "none"

Forwards ==
    /\ env = [r \in Ranks |-> env[r]]
    /\ \A r \in Ranks : IsSequence(env[r]) /\ Len(env[r]) <= Len(Prog)
    /\ posted = [r \in Ranks |-> posted[r]]
    /\ \A r \in Ranks : Posting(r)

EngineInv == Rounds /\ Calls /\ Forwards

\* A parameter of which part i has not been seen, and which is therefore not
\* marked as loaded.
LacksPart(param, i) ==
    /\ param = [tensor |-> param.tensor, ok |-> FALSE, parts |-> param.parts]
    /\ param.parts[i] = Undefined

\* None of the files has the tensor t = <<layer, part, parameter>>, and no
\* rank that constructed its model has found it.
Missing(t) ==
    /\ stage \in {"init_model", "load_state_dict"} =>
          \A f \in 1..Len(files) :
              /\ files[f] = View(files[f].dict, files[f].shard_id, files[f].num_shards)
              /\ TensorName(Prog, t) \notin DOMAIN files[f].dict
    /\ \A r \in Ranks : stage # "init_model" \/ r \in done =>
          /\ t[1] \in DOMAIN params[r] /\ t[3] \in DOMAIN params[r][t[1]]
          /\ LacksPart(params[r][t[1]][t[3]], t[2])

MissingInv ==
    /\ params = [r \in Ranks |-> params[r]]
    /\ ~complete => /\ stage \in {"init_model", "load_state_dict", "verify_loaded_weights"}
                    /\ \E t \in TensorsOf(Prog) : Missing(t)

-----------------------------------------------------------------------------
(* Sequences and plans                                                      *)

LEMMA TypedSequence ==
  ASSUME NEW S, NEW s \in Seq(S)
  PROVE  IsSequence(s)
  BY LenProperties DEF IsSequence

LEMMA Appended ==
  ASSUME NEW s, IsSequence(s), NEW e
  PROVE  IsSequence(Append(s, e)) /\ Len(Append(s, e)) = Len(s) + 1
<1> DEFINE S == {s[i] : i \in 1..Len(s)} \cup {e}
<1>1. s \in Seq(S) /\ e \in S
  BY DEF IsSequence
<1> HIDE DEF S
<1>2. Append(s, e) \in Seq(S) /\ Len(Append(s, e)) = Len(s) + 1
  BY <1>1
<1> QED BY <1>2, TypedSequence

LEMMA Shortened ==
  ASSUME NEW s, IsSequence(s), Len(s) > 0
  PROVE  /\ IsSequence(Tail(s)) /\ Len(Tail(s)) = Len(s) - 1
         /\ \A i \in 1..Len(s) - 1 : Tail(s)[i] = s[i + 1]
         /\ Head(s) = s[1]
<1> DEFINE S == {s[i] : i \in 1..Len(s)}
<1>1. s \in Seq(S) /\ s # <<>>
  BY DEF IsSequence
<1> HIDE DEF S
<1>2. /\ Tail(s) \in Seq(S) /\ Len(Tail(s)) = Len(s) - 1
      /\ \A i \in 1..Len(s) - 1 : Tail(s)[i] = s[i + 1]
  BY <1>1, HeadTailProperties
<1>3. Head(s) = s[1]
  BY <1>1
<1> QED BY <1>2, <1>3, TypedSequence

LEMMA TailIs ==
  ASSUME NEW S, NEW x \in Seq(S), NEW y \in Seq(S),
         Len(x) = Len(y) + 1, \A i \in 1..Len(y) : x[i + 1] = y[i]
  PROVE  x # <<>> /\ Head(x) = x[1] /\ Tail(x) = y
<1>1. Len(y) \in Nat /\ x # <<>> /\ Head(x) = x[1]
  OBVIOUS
<1>2. /\ Tail(x) \in Seq(S) /\ Len(Tail(x)) = Len(y)
      /\ \A i \in 1..Len(y) : Tail(x)[i] = x[i + 1]
  BY <1>1, HeadTailProperties
<1>3. Tail(x) = y
  BY <1>2, SeqEqual
<1> QED BY <1>1, <1>3

LEMMA EmptySequence == IsSequence(<<>>) /\ Len(<<>>) = 0
  BY DEF IsSequence

LEMMA ProgramLength ==
  ASSUME NEW c \in Configs
  PROVE  /\ PlanOf(c) \in Seq(Group!Kinds)
         /\ Len(PlanOf(c)) = Len(Programs[c])
         /\ Len(Programs[c]) \in Nat
         /\ \A k \in 1..Len(Programs[c]) :
               PlanOf(c)[k] = Collective(Programs[c][k], c.ws)
<1>1. Len(Programs[c]) \in Nat /\ DOMAIN Programs[c] = 1..Len(Programs[c])
  BY ProgramsAssumption
<1>2. \A k \in 1..Len(Programs[c]) : Collective(Programs[c][k], c.ws) \in Group!Kinds
  BY DEF Collective, Group!Kinds
<1>3. PlanOf(c) = [k \in 1..Len(Programs[c]) |-> Collective(Programs[c][k], c.ws)]
  BY <1>1 DEF PlanOf
<1> QED BY <1>1, <1>2, <1>3

LEMMA PlansShape ==
  ASSUME NEW c \in Configs, NEW s \in Nat, NEW p \in Nat
  PROVE  /\ Plans(c, s, p) \in Seq(Seq(Group!Kinds))
         /\ Len(Plans(c, s, p)) = s + p
         /\ \A i \in 1..s + p : Plans(c, s, p)[i] = IF i <= s THEN <<>> ELSE PlanOf(c)
<1> DEFINE K == Seq(Group!Kinds)
           A == [i \in 1..s |-> <<>>]
           B == [i \in 1..p |-> PlanOf(c)]
<1>1. A \in Seq(K) /\ Len(A) = s /\ \A i \in 1..s : A[i] = <<>>
  OBVIOUS
<1>2. B \in Seq(K) /\ Len(B) = p /\ \A i \in 1..p : B[i] = PlanOf(c)
  BY ProgramLength
<1>3. Plans(c, s, p) = A \o B
  BY DEF Plans
<1> HIDE DEF A, B, K
<1>4. /\ A \o B \in Seq(K) /\ Len(A \o B) = s + p
      /\ \A i \in 1..s + p : (A \o B)[i] = IF i <= s THEN A[i] ELSE B[i - s]
  BY <1>1, <1>2, ConcatProperties
<1>5. \A i \in 1..s + p : IF i <= s THEN i \in 1..s ELSE i - s \in 1..p
  OBVIOUS
<1>6. \A i \in 1..s + p : (A \o B)[i] = IF i <= s THEN <<>> ELSE PlanOf(c)
  BY <1>1, <1>2, <1>4, <1>5
<1> QED BY <1>3, <1>4, <1>6 DEF K

LEMMA SetupPlans ==
  ASSUME NEW c \in Configs, NEW s \in Nat, NEW p \in Nat
  PROVE  /\ Plans(c, s + 1, p) # <<>>
         /\ Head(Plans(c, s + 1, p)) = <<>>
         /\ Tail(Plans(c, s + 1, p)) = Plans(c, s, p)
<1> DEFINE X == Plans(c, s + 1, p)
           Y == Plans(c, s, p)
           K == Seq(Group!Kinds)
<1>1. s + 1 \in Nat
  OBVIOUS
<1>2. /\ X \in Seq(K) /\ Len(X) = s + 1 + p
      /\ \A i \in 1..s + 1 + p : X[i] = IF i <= s + 1 THEN <<>> ELSE PlanOf(c)
  BY <1>1, PlansShape
<1>3. /\ Y \in Seq(K) /\ Len(Y) = s + p
      /\ \A i \in 1..s + p : Y[i] = IF i <= s THEN <<>> ELSE PlanOf(c)
  BY PlansShape
<1> HIDE DEF X, Y, K
<1>4. Len(X) = Len(Y) + 1 /\ \A i \in 1..Len(Y) : X[i + 1] = Y[i]
  BY <1>2, <1>3
<1>5. X # <<>> /\ Head(X) = X[1] /\ Tail(X) = Y
  BY <1>2, <1>3, <1>4, TailIs
<1>6. X[1] = <<>>
  BY <1>2
<1> QED BY <1>5, <1>6 DEF X, Y

LEMMA PassPlans ==
  ASSUME NEW c \in Configs, NEW p \in Nat
  PROVE  /\ Plans(c, 0, p + 1) # <<>>
         /\ Head(Plans(c, 0, p + 1)) = PlanOf(c)
         /\ Tail(Plans(c, 0, p + 1)) = Plans(c, 0, p)
<1> DEFINE X == Plans(c, 0, p + 1)
           Y == Plans(c, 0, p)
           K == Seq(Group!Kinds)
<1>1. p + 1 \in Nat /\ 0 \in Nat
  OBVIOUS
<1>2. /\ X \in Seq(K) /\ Len(X) = 0 + (p + 1)
      /\ \A i \in 1..0 + (p + 1) : X[i] = IF i <= 0 THEN <<>> ELSE PlanOf(c)
  BY <1>1, PlansShape
<1>3. /\ Y \in Seq(K) /\ Len(Y) = 0 + p
      /\ \A i \in 1..0 + p : Y[i] = IF i <= 0 THEN <<>> ELSE PlanOf(c)
  BY <1>1, PlansShape
<1> HIDE DEF X, Y, K
<1>4. Len(X) = Len(Y) + 1 /\ \A i \in 1..Len(Y) : X[i + 1] = Y[i]
  BY <1>2, <1>3
<1>5. X # <<>> /\ Head(X) = X[1] /\ Tail(X) = Y
  BY <1>2, <1>3, <1>4, TailIs
<1>6. X[1] = PlanOf(c)
  BY <1>2
<1> QED BY <1>5, <1>6 DEF X, Y

LEMMA NoPlans ==
  ASSUME NEW c \in Configs
  PROVE  Plans(c, 0, 0) = <<>>
  BY PlansShape

-----------------------------------------------------------------------------
(* The invariant of the rounds                                              *)

LEMMA WorldSize ==
  ASSUME Rounds
  PROVE  /\ config \in Configs /\ config.ws \in Nat /\ config.ws > 0
         /\ 0 \in Ranks /\ Ranks = 0..(config.ws - 1)
<1>1. config \in Configs /\ config.ws \in Nat /\ config.ws > 0
  BY ConfigsAssumption DEF Rounds
<1> QED BY <1>1 DEF Ranks

LEMMA FromFacts ==
  ASSUME Rounds, NEW k \in 0..config.ws
  PROVE  /\ From(k) \in Seq(Int) /\ Len(From(k)) = config.ws - k
         /\ k < config.ws => /\ From(k) # <<>> /\ Head(From(k)) = k
                             /\ Tail(From(k)) = From(k + 1)
         /\ From(k) = <<>> => k = config.ws
<1>1. config.ws \in Nat
  BY WorldSize
<1>2. ASSUME NEW j \in 0..config.ws
      PROVE  /\ From(j) \in Seq(Int) /\ Len(From(j)) = config.ws - j
             /\ \A i \in 1..config.ws - j : From(j)[i] = j + i - 1
  BY <1>1, <1>2 DEF From
<1>3. ASSUME k < config.ws
      PROVE  From(k) # <<>> /\ Head(From(k)) = k /\ Tail(From(k)) = From(k + 1)
  <2>1. k + 1 \in 0..config.ws
    BY <1>1, <1>3
  <2>2. /\ From(k) \in Seq(Int) /\ Len(From(k)) = config.ws - k
        /\ From(k + 1) \in Seq(Int) /\ Len(From(k + 1)) = config.ws - (k + 1)
    BY <1>2, <2>1
  <2>3. ASSUME NEW i \in 1..Len(From(k + 1)) PROVE From(k)[i + 1] = From(k + 1)[i]
    <3>1. i \in 1..config.ws - (k + 1) /\ i + 1 \in 1..config.ws - k
      BY <1>1, <2>2
    <3>2. From(k)[i + 1] = k + (i + 1) - 1 /\ From(k + 1)[i] = (k + 1) + i - 1
      BY <1>2, <2>1, <3>1
    <3> QED BY <3>1, <3>2
  <2>4. Len(From(k)) = Len(From(k + 1)) + 1
    BY <1>1, <2>2
  <2>5. From(k) # <<>> /\ Head(From(k)) = From(k)[1] /\ Tail(From(k)) = From(k + 1)
    BY <2>2, <2>3, <2>4, TailIs
  <2>6. 1 \in 1..config.ws - k
    BY <1>1, <1>3
  <2> QED BY <1>2, <2>5, <2>6
<1>4. Len(<<>>) = 0
  OBVIOUS
<1> QED BY <1>1, <1>2, <1>3, <1>4

LEMMA AllToCall ==
  ASSUME Rounds
  PROVE  [i \in 1..config.ws |-> i - 1] = From(0)
<1>1. config.ws \in Nat
  BY WorldSize
<1> QED BY <1>1 DEF From

LEMMA InitFiles ==
  ASSUME Init
  PROVE  IsSequence(files) /\ Len(files) \in 1..MaxFiles
<1>1. config \in Configs /\ MaxFiles \in Nat /\ MaxFiles >= 2 /\ config.shards \in 0..MaxFiles
  BY ConfigsAssumption DEF Init
<1>2. ASSUME NEW a, NEW b
      PROVE  /\ IsSequence(<<a>>) /\ Len(<<a>>) = 1 /\ DOMAIN <<a>> = 1..1
             /\ IsSequence(<<a, b>>) /\ Len(<<a, b>>) = 2
  BY DEF IsSequence
<1>3. ASSUME config.shards > 0
      PROVE  /\ IsSequence(PTCheckpoint(config)) /\ Len(PTCheckpoint(config)) = config.shards
             /\ DOMAIN PTCheckpoint(config) = 1..config.shards
  BY <1>1, <1>3 DEF IsSequence, PTCheckpoint
<1>4. ASSUME NEW s, NEW n \in Nat, DOMAIN s = 1..n, NEW name
      PROVE  IsSequence(Without(s, name)) /\ Len(Without(s, name)) = n
  BY <1>4 DEF IsSequence, Without
<1>5. CASE files \in CompleteCheckpoints(config)
  <2>1. CASE config.shards > 0
    BY <1>1, <1>3, <1>5, <2>1 DEF CompleteCheckpoints
  <2>2. CASE ~(config.shards > 0)
    <3>1. files \in HFCheckpoints(Checkpoints[config])
      BY <1>5, <2>2 DEF CompleteCheckpoints
    <3>2. CASE files = <<View(Checkpoints[config], 0, 1)>>
      <4>1. IsSequence(files) /\ Len(files) = 1
        BY <1>2, <3>2
      <4> QED BY <1>1, <4>1
    <3>3. ASSUME NEW a, NEW b, files = <<a, b>>
          PROVE  IsSequence(files) /\ Len(files) \in 1..MaxFiles
      <4>1. IsSequence(files) /\ Len(files) = 2
        BY <1>2, <3>3
      <4> QED BY <1>1, <4>1
    <3>4. \/ files = <<View(Checkpoints[config], 0, 1)>>
          \/ \E n \in DOMAIN Checkpoints[config] :
                LET one  == View(Only(Checkpoints[config], {n}), 0, 1)
                    rest == View(Only(Checkpoints[config], DOMAIN Checkpoints[config] \ {n}), 0, 1)
                IN files = <<one, rest>> \/ files = <<rest, one>>
      BY <3>1 DEF HFCheckpoints
    <3> QED BY <3>2, <3>3, <3>4
  <2> QED BY <2>1, <2>2
<1>6. CASE files \in IncompleteCheckpoints(config)
  <2>1. CASE config.shards > 0
    <3>1. PICK n : files = Without(PTCheckpoint(config), n)
      BY <1>6, <2>1 DEF IncompleteCheckpoints
    <3> QED BY <1>1, <1>3, <1>4, <2>1, <3>1
  <2>2. CASE ~(config.shards > 0)
    <3>1. PICK n : files = Without(<<View(Checkpoints[config], 0, 1)>>, n)
      BY <1>6, <2>2 DEF IncompleteCheckpoints
    <3>2. DOMAIN <<View(Checkpoints[config], 0, 1)>> = 1..1 /\ 1 \in Nat
      BY <1>2
    <3>3. IsSequence(files) /\ Len(files) = 1
      BY <1>4, <3>1, <3>2
    <3> QED BY <1>1, <3>3
  <2> QED BY <2>1, <2>2
<1> QED BY <1>5, <1>6 DEF Init

LEMMA EngineInit == Init => EngineInv
<1> SUFFICES ASSUME Init PROVE EngineInv OBVIOUS
<1>1. Rounds
  <2>1. /\ config \in Configs /\ stage = "init_model" /\ pass = 1 /\ Passes \in Nat \ {0}
        /\ config.ws \in Nat
    BY PassesAssumption, ConfigsAssumption DEF Init
  <2>2. todo = From(0)
    BY <2>1 DEF Init, From
  <2> QED BY <2>1, <2>2, InitFiles DEF Rounds, Stages
<1>2. Calls
  <2>1. todo = From(0) /\ 0 \in 0..config.ws
    BY <1>1, AllToCall, WorldSize DEF Init
  <2>2. CalledUpto(0)
    BY <2>1 DEF Init, CalledUpto
  <2> QED BY <2>1, <2>2 DEF Init, Calls
<1>3. Forwards
  <2>1. Len(Prog) \in Nat
    BY <1>1, ProgramLength DEF Rounds, Prog
  <2>2. \A r \in Ranks : env[r] = <<>> /\ posted[r] = <<>>
    BY DEF Init
  <2>3. env = [r \in Ranks |-> env[r]] /\ posted = [r \in Ranks |-> posted[r]]
    BY <2>2 DEF Init
  <2> QED BY <2>1, <2>2, <2>3, EmptySequence DEF Forwards, Posting
<1> QED BY <1>1, <1>2, <1>3 DEF EngineInv

\* Steps that touch none of the variables the invariant speaks of
LEMMA EngineUnchanged ==
  ASSUME EngineInv,
         UNCHANGED <<config, files, stage, todo, queue, done, env, posted, pass>>
  PROVE  EngineInv'
<1>1. Ranks' = Ranks /\ Prog' = Prog /\ \A k : From(k)' = From(k)
  BY DEF Ranks, Prog, From
<1>2. Rounds'
  BY <1>1 DEF EngineInv, Rounds
<1>3. Calls'
  BY <1>1 DEF EngineInv, Calls, CalledUpto
<1>4. Forwards'
  BY <1>1 DEF EngineInv, Forwards, Posting
<1> QED BY <1>2, <1>3, <1>4 DEF EngineInv

LEMMA ScheduleKeeps == EngineInv /\ Schedule => EngineInv'
<1> SUFFICES ASSUME EngineInv, Schedule PROVE EngineInv' OBVIOUS
<1>1. Ranks' = Ranks /\ Prog' = Prog /\ \A k : From(k)' = From(k)
  BY DEF Ranks, Prog, From, Schedule
<1>2. PICK k \in 0..config.ws : CalledUpto(k)
  BY DEF EngineInv, Calls
<1>3. config.ws \in Nat /\ Ranks = 0..(config.ws - 1) /\ Rounds
  BY WorldSize DEF EngineInv
<1>4. k < config.ws /\ k \in Ranks /\ k + 1 \in 0..config.ws
  <2>1. From(k) # <<>>
    BY <1>2 DEF Schedule, CalledUpto
  <2>2. From(config.ws) = <<>>
    BY <1>3 DEF From
  <2>3. k # config.ws
    BY <2>1, <2>2
  <2> QED BY <1>3, <2>3
<1>5. Head(todo) = k /\ todo' = From(k + 1)
  BY <1>2, <1>3, <1>4, FromFacts DEF Schedule, CalledUpto
<1>6. queue[k] = <<>> /\ queue \in [Ranks -> {<<>>, <<stage>>}]
  BY <1>2, <1>3, <1>4 DEF CalledUpto, EngineInv, Calls
<1>7. Append(queue[k], stage) = <<stage>>
  BY <1>6
<1>8. queue' = [queue EXCEPT ![k] = <<stage>>]
  BY <1>5, <1>7 DEF Schedule
<1>9. Calls'
  <2>1. queue' \in [Ranks -> {<<>>, <<stage>>}]
    BY <1>4, <1>6, <1>8
  <2>2. \A r \in Ranks : r >= k + 1 => queue'[r] = <<>> /\ r \notin done
    BY <1>2, <1>3, <1>4, <1>6, <1>8 DEF CalledUpto
  <2>3. CalledUpto(k + 1)'
    BY <1>1, <1>5, <2>2 DEF CalledUpto, Schedule
  <2>4. k \notin done
    BY <1>2, <1>3, <1>4 DEF CalledUpto
  <2>5. \A r \in done : queue'[r] = <<>>
    BY <1>6, <1>8, <2>4 DEF EngineInv, Calls
  <2> QED BY <1>1, <1>4, <2>1, <2>3, <2>5 DEF EngineInv, Calls, Schedule
<1>10. Rounds'
  BY <1>1 DEF EngineInv, Rounds, Schedule
<1>11. Forwards'
  <2>1. ASSUME NEW r \in Ranks PROVE Posting(r)'
    <3>1. Posting(r) /\ (queue[r] # <<>> => queue'[r] # <<>>)
      BY <1>6, <1>8 DEF EngineInv, Forwards
    <3> QED BY <1>1, <3>1 DEF Posting, Schedule
  <2> QED BY <1>1, <2>1 DEF EngineInv, Forwards, Schedule
<1> QED BY <1>9, <1>10, <1>11 DEF EngineInv

\* A task that returns
LEMMA FulfilKeeps ==
  ASSUME EngineInv, NEW r \in Ranks, queue[r] # <<>>, posted[r] = <<>>, Fulfil(r),
         UNCHANGED <<config, files, stage, todo, env, posted, pass>>
  PROVE  EngineInv'
<1>1. Ranks' = Ranks /\ Prog' = Prog /\ \A k : From(k)' = From(k)
  BY DEF Ranks, Prog, From
<1>2. PICK k \in 0..config.ws : CalledUpto(k)
  BY DEF EngineInv, Calls
<1>3. queue \in [Ranks -> {<<>>, <<stage>>}] /\ queue[r] = <<stage>>
  BY DEF EngineInv, Calls
<1>4. queue' = [queue EXCEPT ![r] = <<>>] /\ done' = done \cup {r}
  <2>1. Tail(<<stage>>) = <<>>
    OBVIOUS
  <2> QED BY <1>3, <2>1 DEF Fulfil
<1>5. Calls'
  <2>1. queue' \in [Ranks -> {<<>>, <<stage>>}]
    BY <1>3, <1>4
  <2>2. \A s \in Ranks : s >= k => queue'[s] = <<>> /\ s \notin done'
    BY <1>2, <1>3, <1>4 DEF CalledUpto
  <2>3. CalledUpto(k)'
    BY <1>1, <1>2, <2>2 DEF CalledUpto
  <2>4. done' \subseteq Ranks /\ \A s \in done' : queue'[s] = <<>>
    BY <1>3, <1>4 DEF EngineInv, Calls
  <2> QED BY <1>1, <2>1, <2>3, <2>4 DEF Calls
<1>6. Rounds'
  BY <1>1 DEF EngineInv, Rounds
<1>7. Forwards'
  <2>1. ASSUME NEW s \in Ranks PROVE Posting(s)'
    <3>1. Posting(s) /\ (s # r => queue'[s] = queue[s])
      BY <1>3, <1>4 DEF EngineInv, Forwards
    <3> QED BY <1>1, <3>1 DEF Posting
  <2> QED BY <1>1, <2>1 DEF EngineInv, Forwards
<1> QED BY <1>5, <1>6, <1>7 DEF EngineInv

\* The task of a rank is the stage the engine is in.
LEMMA TaskIsStage ==
  ASSUME EngineInv, NEW r \in Ranks, NEW task, Runs(r, task)
  PROVE  stage = task /\ queue[r] # <<>> /\ queue[r] = <<stage>>
<1>1. queue[r] = <<stage>>
  BY DEF EngineInv, Calls, Runs
<1>2. Head(<<stage>>) = stage
  OBVIOUS
<1> QED BY <1>1, <1>2 DEF Runs

LEMMA NothingPosted ==
  ASSUME EngineInv, NEW r \in Ranks, stage # "execute_model" \/ Len(env[r]) = Len(Prog)
  PROVE  posted[r] = <<>>
<1>1. Len(Prog) \in Nat
  BY ProgramLength DEF EngineInv, Rounds, Prog
<1> QED BY <1>1 DEF EngineInv, Forwards, Posting

LEMMA DieKeeps == EngineInv /\ Die => EngineInv'
  BY EngineUnchanged DEF Die

\* All futures are fulfilled: no rank has a task left.
LEMMA NobodyRuns ==
  ASSUME EngineInv, done = Ranks \/ stage = "verify_loaded_weights"
  PROVE  /\ \A r \in Ranks : queue[r] = <<>>
         /\ \A r \in Ranks : posted[r] = <<>>
         /\ stage = "verify_loaded_weights" => done = {}
<1>1. config.ws \in Nat /\ Ranks = 0..(config.ws - 1) /\ Rounds
  BY WorldSize DEF EngineInv
<1>2. ASSUME stage = "verify_loaded_weights"
      PROVE  /\ \A r \in Ranks : queue[r] = <<>>
             /\ done = {}
  <2>1. PICK k \in 0..config.ws : CalledUpto(k)
    BY DEF EngineInv, Calls
  <2>2. From(k) = From(0) /\ 0 \in 0..config.ws
    BY <1>1, <1>2, <2>1 DEF CalledUpto, Rounds
  <2>3. Len(From(k)) = config.ws - k /\ Len(From(0)) = config.ws - 0
    BY <1>1, <2>2, FromFacts
  <2>4. k = 0
    BY <1>1, <2>2, <2>3
  <2>5. \A r \in Ranks : r >= 0
    BY <1>1
  <2> QED BY <2>1, <2>4, <2>5 DEF CalledUpto, EngineInv, Calls
<1>3. \A r \in Ranks : queue[r] = <<>>
  BY <1>2 DEF EngineInv, Calls
<1> QED BY <1>2, <1>3 DEF EngineInv, Forwards, Posting

LEMMA CollectKeeps == EngineInv /\ Collect => EngineInv'
<1> SUFFICES ASSUME EngineInv, Collect PROVE EngineInv' OBVIOUS
<1>1. Ranks' = Ranks /\ Prog' = Prog /\ \A k : From(k)' = From(k)
  BY DEF Ranks, Prog, From, Collect
<1>2. /\ config.ws \in Nat /\ Ranks = 0..(config.ws - 1) /\ 0 \in 0..config.ws
      /\ Rounds /\ Passes \in Nat
  BY WorldSize, PassesAssumption DEF EngineInv
<1>3. \A r \in Ranks : queue[r] = <<>> /\ posted[r] = <<>>
  BY NobodyRuns DEF Collect
<1>4. todo' = From(0) /\ done' = {} /\ queue' = queue /\ posted' = posted /\ config' = config
  BY <1>2, AllToCall DEF Collect
<1>5. Calls'
  <2>1. queue' = [r \in Ranks |-> <<>>]
    BY <1>3, <1>4 DEF EngineInv, Calls
  <2>2. CalledUpto(0)'
    BY <1>1, <1>4, <2>1 DEF CalledUpto
  <2> QED BY <1>1, <1>2, <1>4, <2>1, <2>2 DEF Calls
<1>6. Forwards'
  <2>1. \A r \in Ranks : Posting(r)'
    BY <1>3, <1>4 DEF Posting
  <2>2. CASE env' = env
    BY <1>1, <1>4, <2>1, <2>2 DEF EngineInv, Forwards
  <2>3. CASE env' = [r \in Ranks |-> <<>>]
    <3>1. Len(Prog) \in Nat
      BY <1>2, ProgramLength DEF Rounds, Prog
    <3>2. \A r \in Ranks : env'[r] = <<>>
      BY <2>3
    <3>3. env' = [r \in Ranks |-> env'[r]]
      BY <2>3
    <3>4. \A r \in Ranks : IsSequence(env'[r]) /\ Len(env'[r]) <= Len(Prog)
      BY <3>1, <3>2, EmptySequence
    <3>5. posted' = [r \in Ranks |-> posted'[r]]
      BY <1>4 DEF EngineInv, Forwards
    <3> QED BY <1>1, <2>1, <3>3, <3>4, <3>5 DEF Forwards
  <2> QED BY <2>2, <2>3 DEF Collect
<1>7. Rounds'
  <2>1. CASE stage = "init_model"
    BY <1>1, <1>2, <1>4, <2>1 DEF Collect, NextStage, Rounds, Stages
  <2>2. CASE stage = "load_state_dict"
    <3>1. /\ stage' = IF Len(files) > 1 THEN "load_state_dict" ELSE "verify_loaded_weights"
          /\ files' = Tail(files) /\ pass' = pass
      BY <2>2 DEF Collect, NextStage
    <3>2. IsSequence(files) /\ Len(files) \in 1..MaxFiles /\ MaxFiles \in Nat /\ pass = 1
      BY <1>2, <2>2, ConfigsAssumption DEF Rounds
    <3>3. IsSequence(Tail(files)) /\ Len(Tail(files)) = Len(files) - 1
      BY <3>2, Shortened
    <3>4. stage' = "load_state_dict" => IsSequence(files') /\ Len(files') \in 1..MaxFiles
      BY <3>1, <3>2, <3>3
    <3>5. stage' \in {"load_state_dict", "verify_loaded_weights"}
      BY <3>1
    <3>6. pass' \in 1..Passes /\ pass' = 1
      BY <1>2, <3>1, <3>2 DEF Rounds
    <3>7. config' \in Configs
      BY <1>2, <1>4 DEF Rounds
    <3> QED BY <1>1, <1>4, <3>4, <3>5, <3>6, <3>7 DEF Rounds, Stages
  <2>3. CASE stage = "init_kv_cache"
    BY <1>1, <1>2, <1>4, <2>3 DEF Collect, NextStage, Rounds, Stages
  <2>4. CASE stage = "execute_model"
    <3>1. /\ stage' \in {"execute_model", "stopped"}
          /\ pass' = IF pass < Passes THEN pass + 1 ELSE pass
      BY <2>4 DEF Collect, NextStage
    <3>2. pass' \in 1..Passes
      BY <1>2, <3>1 DEF Rounds
    <3> QED BY <1>1, <1>2, <1>4, <3>1, <3>2 DEF Rounds, Stages
  <2> QED BY <1>2, <2>1, <2>2, <2>3, <2>4 DEF Rounds, Stages, Collect, Running
<1> QED BY <1>5, <1>6, <1>7 DEF EngineInv

LEMMA VerifyKeeps == EngineInv /\ VerifyWeights => EngineInv'
<1> SUFFICES ASSUME EngineInv, VerifyWeights PROVE EngineInv' OBVIOUS
<1>1. CASE stage' = stage
  BY <1>1, EngineUnchanged DEF VerifyWeights
<1>2. CASE stage' = "init_kv_cache"
  <2>1. Ranks' = Ranks /\ Prog' = Prog /\ \A k : From(k)' = From(k)
    BY DEF Ranks, Prog, From, VerifyWeights
  <2>2. /\ \A r \in Ranks : queue[r] = <<>> /\ posted[r] = <<>>
        /\ done = {}
    BY NobodyRuns DEF VerifyWeights
  <2>3. queue' = [r \in Ranks |-> <<>>]
    BY <2>2 DEF EngineInv, Calls, VerifyWeights
  <2>4. Calls'
    BY <2>1, <2>3 DEF EngineInv, Calls, CalledUpto, VerifyWeights
  <2>5. Rounds'
    BY <1>2, <2>1 DEF EngineInv, Rounds, Stages, VerifyWeights
  <2>6. Forwards'
    BY <2>1, <2>2 DEF EngineInv, Forwards, Posting, VerifyWeights
  <2> QED BY <2>4, <2>5, <2>6 DEF EngineInv
<1> QED BY <1>1, <1>2 DEF VerifyWeights

\* A step of the forward either fails, completes an instruction or posts the
\* rank's share of one that ends in a collective.
LEMMA ForwardCases ==
  ASSUME EngineInv, NEW r \in Ranks, Forward(r)
  PROVE  LET inst == Prog[Len(env[r]) + 1] IN
         /\ stage = "execute_model" /\ queue[r] # <<>> /\ posted[r] = <<>>
         /\ Len(env[r]) + 1 <= Len(Prog) /\ Running
         /\ \/ Die
            \/ /\ Collective(inst, config.ws) = "none"
               /\ \E v : env' = [env EXCEPT ![r] = Append(env[r], v)]
               /\ posted' = posted
               /\ UNCHANGED <<config, files, complete, stage, todo, queue, done,
                              params, temp_dq, pass, fatal>>
            \/ /\ Collective(inst, config.ws) # "none"
               /\ \E v : posted' = [posted EXCEPT ![r] = <<Collective(inst, config.ws), v>>]
               /\ env' = env
               /\ UNCHANGED <<config, files, complete, stage, todo, queue, done,
                              params, temp_dq, pass, fatal>>
<1> DEFINE k == Len(env[r]) + 1
           inst == Prog[k]
           par == IF k \in LayersOf(Prog) THEN params[r][k] ELSE <<>>
           out == LocalOut(k, inst, par, r, config.ws, env[r],
                           IF inst.op = "attention" THEN Attended(r, inst) ELSE {})
           v == Combined(k, inst, par, <<out>>)
<1>1. Runs(r, "execute_model") /\ k <= Len(Prog) /\ posted[r] = <<>>
  BY DEF Forward
<1>2. stage = "execute_model" /\ queue[r] # <<>> /\ Running
  BY <1>1, TaskIsStage DEF Runs
<1>3. \/ Die
      \/ /\ IF Collective(inst, config.ws) = "none"
            THEN env' = [env EXCEPT ![r] = Append(@, v)] /\ UNCHANGED posted
            ELSE posted' = [posted EXCEPT ![r] = <<Collective(inst, config.ws), out>>]
                 /\ UNCHANGED env
         /\ UNCHANGED <<config, files, complete, stage, todo, queue, done,
                        params, temp_dq, pass, fatal>>
  BY DEF Forward
<1> HIDE DEF k, inst, par, out, v
<1>4. CASE Die
  BY <1>1, <1>2, <1>4 DEF k, inst
<1>5. CASE ~Die /\ Collective(inst, config.ws) = "none"
  BY <1>1, <1>2, <1>3, <1>5 DEF k, inst
<1>6. CASE ~Die /\ Collective(inst, config.ws) # "none"
  BY <1>1, <1>2, <1>3, <1>6 DEF k, inst
<1> QED BY <1>4, <1>5, <1>6

LEMMA ForwardKeeps ==
  ASSUME EngineInv, NEW r \in Ranks, Forward(r)
  PROVE  EngineInv'
<1> DEFINE inst == Prog[Len(env[r]) + 1]
<1>1. /\ stage = "execute_model" /\ queue[r] # <<>> /\ posted[r] = <<>>
      /\ Len(env[r]) + 1 <= Len(Prog)
      /\ \/ Die
         \/ /\ Collective(inst, config.ws) = "none"
            /\ \E v : env' = [env EXCEPT ![r] = Append(env[r], v)]
            /\ posted' = posted
            /\ UNCHANGED <<config, files, complete, stage, todo, queue, done,
                           params, temp_dq, pass, fatal>>
         \/ /\ Collective(inst, config.ws) # "none"
            /\ \E v : posted' = [posted EXCEPT ![r] = <<Collective(inst, config.ws), v>>]
            /\ env' = env
            /\ UNCHANGED <<config, files, complete, stage, todo, queue, done,
                           params, temp_dq, pass, fatal>>
  BY ForwardCases
<1>2. CASE Die
  BY <1>2, DieKeeps
<1>3. ASSUME UNCHANGED <<config, files, complete, stage, todo, queue, done,
                         params, temp_dq, pass, fatal>>,
             Forwards'
      PROVE  EngineInv'
  <2>1. Ranks' = Ranks /\ Prog' = Prog /\ \A k : From(k)' = From(k)
    BY <1>3 DEF Ranks, Prog, From
  <2>2. Rounds'
    BY <1>3, <2>1 DEF EngineInv, Rounds
  <2>3. Calls'
    BY <1>3, <2>1 DEF EngineInv, Calls, CalledUpto
  <2> QED BY <1>3, <2>2, <2>3 DEF EngineInv
<1>4. /\ Len(Prog) \in Nat
      /\ env = [s \in Ranks |-> env[s]] /\ posted = [s \in Ranks |-> posted[s]]
      /\ \A s \in Ranks : IsSequence(env[s]) /\ Len(env[s]) <= Len(Prog) /\ Posting(s)
  BY ProgramLength DEF EngineInv, Rounds, Prog, Forwards
<1>5. ASSUME NEW v, env' = [env EXCEPT ![r] = Append(env[r], v)], posted' = posted,
             UNCHANGED <<config, files, complete, stage, todo, queue, done,
                         params, temp_dq, pass, fatal>>
      PROVE  EngineInv'
  <2>1. Ranks' = Ranks /\ Prog' = Prog
    BY <1>5 DEF Ranks, Prog
  <2>2. IsSequence(Append(env[r], v)) /\ Len(Append(env[r], v)) = Len(env[r]) + 1
    BY <1>4, Appended
  <2>3. /\ env'[r] = Append(env[r], v)
        /\ \A s \in Ranks : s # r => env'[s] = env[s]
        /\ env' = [s \in Ranks |-> env'[s]]
    <3>1. env \in [Ranks -> {env[s] : s \in Ranks}]
      BY <1>4
    <3>2. env' = [s \in Ranks |-> IF s = r THEN Append(env[r], v) ELSE env[s]]
      BY <1>5, <3>1
    <3> HIDE <1>5
    <3> QED BY <3>2
  <2>4. \A s \in Ranks : IsSequence(env'[s]) /\ Len(env'[s]) <= Len(Prog)
    BY <1>1, <1>4, <2>2, <2>3
  <2>5. \A s \in Ranks : Posting(s)'
    BY <1>1, <1>4, <1>5, <2>1, <2>3 DEF Posting
  <2>6. Forwards'
    BY <1>4, <1>5, <2>1, <2>3, <2>4, <2>5 DEF Forwards
  <2> QED BY <1>3, <1>5, <2>6
<1>6. ASSUME NEW v, posted' = [posted EXCEPT ![r] = <<Collective(inst, config.ws), v>>],
             env' = env, Collective(inst, config.ws) # "none",
             UNCHANGED <<config, files, complete, stage, todo, queue, done,
                         params, temp_dq, pass, fatal>>
      PROVE  EngineInv'
  <2>1. Ranks' = Ranks /\ Prog' = Prog
    BY <1>6 DEF Ranks, Prog
  <2>2. posted' = [s \in Ranks |-> IF s = r THEN <<Collective(inst, config.ws), v>>
                                   ELSE posted[s]]
    BY <1>4, <1>6
  <2>3. posted' = [s \in Ranks |-> posted'[s]]
    BY <2>2
  <2>4. ASSUME NEW s \in Ranks PROVE Posting(s)'
    <3>1. CASE s = r
      <4>1. posted'[s][1] = Collective(inst, config.ws)
        BY <2>2, <3>1
      <4>2. Len(env[r]) < Len(Prog)
        BY <1>1, <1>4 DEF IsSequence
      <4> QED BY <1>1, <1>6, <2>1, <3>1, <4>1, <4>2 DEF Posting
    <3>2. CASE s # r
      BY <1>4, <1>6, <2>1, <2>2, <3>2 DEF Posting
    <3> QED BY <3>1, <3>2
  <2>5. Forwards'
    BY <1>4, <1>6, <2>1, <2>3, <2>4 DEF Forwards
  <2> QED BY <1>3, <1>6, <2>5
<1> QED BY <1>1, <1>2, <1>5, <1>6

LEMMA ExchangeKeeps == EngineInv /\ Exchange => EngineInv'
<1> SUFFICES ASSUME EngineInv, Exchange PROVE EngineInv' OBVIOUS
<1>1. Ranks' = Ranks /\ Prog' = Prog /\ \A k : From(k)' = From(k)
  BY DEF Ranks, Prog, From, Exchange
<1>2. Rounds'
  BY <1>1 DEF EngineInv, Rounds, Exchange
<1>3. Calls'
  BY <1>1 DEF EngineInv, Calls, CalledUpto, Exchange
<1>4. Forwards'
  <2>1. /\ Len(Prog) \in Nat
        /\ \A s \in Ranks : IsSequence(env[s]) /\ Len(env[s]) < Len(Prog)
    BY ProgramLength DEF EngineInv, Rounds, Prog, Forwards, Posting, Exchange
  <2> DEFINE V(s) == Combined(Len(env[s]) + 1, Prog[Len(env[s]) + 1],
                              params[s][Len(env[s]) + 1],
                              [i \in 1..config.ws |-> posted[i - 1][2]])
  <2>2. env' = [s \in Ranks |-> Append(env[s], V(s))] /\ posted' = [s \in Ranks |-> <<>>]
    BY DEF Exchange
  <2> HIDE DEF V
  <2>3. /\ env' = [s \in Ranks |-> env'[s]] /\ posted' = [s \in Ranks |-> posted'[s]]
        /\ \A s \in Ranks : env'[s] = Append(env[s], V(s)) /\ posted'[s] = <<>>
    BY <2>2
  <2>4. ASSUME NEW s \in Ranks
        PROVE  IsSequence(env'[s]) /\ Len(env'[s]) <= Len(Prog)
    <3>1. IsSequence(env[s]) /\ Len(env[s]) < Len(Prog) /\ env'[s] = Append(env[s], V(s))
      BY <2>1, <2>3
    <3>2. IsSequence(env'[s]) /\ Len(env'[s]) = Len(env[s]) + 1
      BY <3>1, Appended
    <3>3. Len(env[s]) \in Nat
      BY <3>1 DEF IsSequence
    <3> QED BY <2>1, <3>1, <3>2, <3>3
  <2> QED BY <1>1, <2>3, <2>4 DEF Forwards, Posting
<1> QED BY <1>2, <1>3, <1>4 DEF EngineInv

LEMMA WorkerKeeps ==
  ASSUME EngineInv, NEW r \in Ranks, Worker(r)
  PROVE  EngineInv'
<1>1. CASE InitModel(r)
  <2>1. Runs(r, "init_model")
    BY <1>1 DEF InitModel
  <2>2. queue[r] # <<>> /\ posted[r] = <<>>
    BY <2>1, TaskIsStage, NothingPosted
  <2> QED BY <1>1, <2>2, DieKeeps, FulfilKeeps DEF InitModel
<1>2. CASE LoadStateDict(r)
  <2>1. Runs(r, "load_state_dict")
    BY <1>2 DEF LoadStateDict
  <2>2. queue[r] # <<>> /\ posted[r] = <<>>
    BY <2>1, TaskIsStage, NothingPosted
  <2> QED BY <1>2, <2>2, DieKeeps, FulfilKeeps DEF LoadStateDict
<1>3. CASE InitKVCache(r)
  <2>1. Runs(r, "init_kv_cache")
    BY <1>3 DEF InitKVCache
  <2>2. queue[r] # <<>> /\ posted[r] = <<>>
    BY <2>1, TaskIsStage, NothingPosted
  <2> QED BY <1>3, <2>2, DieKeeps, FulfilKeeps DEF InitKVCache
<1>4. CASE Forward(r)
  BY <1>4, ForwardKeeps
<1>5. CASE Return(r)
  <2>1. Runs(r, "execute_model") /\ Len(env[r]) = Len(Prog)
    BY <1>5 DEF Return
  <2>2. queue[r] # <<>> /\ posted[r] = <<>>
    BY <2>1, TaskIsStage, NothingPosted
  <2> QED BY <1>5, <2>2, FulfilKeeps DEF Return
<1> QED BY <1>1, <1>2, <1>3, <1>4, <1>5 DEF Worker

LEMMA EngineStep == EngineInv /\ [Next]_vars => EngineInv'
<1> SUFFICES ASSUME EngineInv, [Next]_vars PROVE EngineInv' OBVIOUS
<1>1. CASE UNCHANGED vars
  BY <1>1, EngineUnchanged DEF vars
<1>2. CASE Stop
  BY <1>2, EngineUnchanged DEF vars, Stop
<1> QED
  BY <1>1, <1>2, ScheduleKeeps, CollectKeeps, VerifyKeeps, ExchangeKeeps, WorkerKeeps DEF Next

LEMMA EngineInvariant == Spec => []EngineInv
<1> QED BY EngineInit, EngineStep, PTL DEF Spec

-----------------------------------------------------------------------------
(* The refinement of WorkerGroup                                            *)

\* The state of the group, as Group maps it
GPlans   == Plans(config, SetupRounds, PassesLeft)
GTodo    == config.ws - Len(todo)
GCalled  == {r \in Ranks : queue[r] # <<>>}
GIp      == [r \in Ranks |-> IF stage = "execute_model" THEN Len(env[r]) ELSE 0]
GWaiting == {r \in Ranks : posted[r] # <<>>}

LEMMA PlansNow ==
  ASSUME Rounds
  PROVE  /\ stage \notin {"execute_model", "stopped"} =>
               /\ GPlans # <<>> /\ Head(GPlans) = <<>>
               /\ SetupRounds \in Nat /\ SetupRounds > 0 /\ PassesLeft = Passes
               /\ Tail(GPlans) = Plans(config, SetupRounds - 1, Passes)
         /\ stage = "execute_model" =>
               /\ GPlans # <<>> /\ Head(GPlans) = PlanOf(config)
               /\ Tail(GPlans) = Plans(config, 0, Passes - pass)
         /\ stage = "stopped" => GPlans = <<>>
<1>1. config \in Configs /\ Passes \in Nat /\ pass \in 1..Passes /\ stage \in Stages
  BY PassesAssumption DEF Rounds
<1>2. ASSUME stage \notin {"execute_model", "stopped"}
      PROVE  /\ GPlans # <<>> /\ Head(GPlans) = <<>>
             /\ SetupRounds \in Nat /\ SetupRounds > 0 /\ PassesLeft = Passes
             /\ Tail(GPlans) = Plans(config, SetupRounds - 1, Passes)
  <2>1. SetupRounds \in Nat /\ SetupRounds > 0
    <3>1. CASE stage \in {"init_model", "load_state_dict"}
      <4>1. Len(files) \in Nat
        BY <3>1 DEF Rounds, IsSequence
      <4> QED BY <3>1, <4>1 DEF SetupRounds
    <3>2. CASE stage \in {"verify_loaded_weights", "init_kv_cache"}
      BY <3>2 DEF SetupRounds
    <3> QED BY <1>1, <1>2, <3>1, <3>2 DEF Stages
  <2>2. PassesLeft = Passes
    BY <1>1, <1>2 DEF PassesLeft
  <2>3. PICK s \in Nat : SetupRounds = s + 1 /\ s = SetupRounds - 1
    BY <2>1
  <2>4. GPlans = Plans(config, s + 1, Passes)
    BY <2>2, <2>3 DEF GPlans
  <2>5. /\ Plans(config, s + 1, Passes) # <<>>
        /\ Head(Plans(config, s + 1, Passes)) = <<>>
        /\ Tail(Plans(config, s + 1, Passes)) = Plans(config, s, Passes)
    BY <1>1, SetupPlans
  <2> QED BY <2>1, <2>2, <2>3, <2>4, <2>5
<1>3. ASSUME stage = "execute_model"
      PROVE  /\ GPlans # <<>> /\ Head(GPlans) = PlanOf(config)
             /\ Tail(GPlans) = Plans(config, 0, Passes - pass)
  <2>1. SetupRounds = 0 /\ PassesLeft = Passes - pass + 1 /\ Passes - pass \in Nat
    BY <1>1, <1>3 DEF SetupRounds, PassesLeft
  <2>2. GPlans = Plans(config, 0, Passes - pass + 1)
    BY <2>1 DEF GPlans
  <2> QED BY <1>1, <2>1, <2>2, PassPlans
<1>4. ASSUME stage = "stopped" PROVE GPlans = <<>>
  <2>1. SetupRounds = 0 /\ PassesLeft = 0
    BY <1>4 DEF SetupRounds, PassesLeft
  <2> QED BY <1>1, <2>1, NoPlans DEF GPlans
<1> QED BY <1>2, <1>3, <1>4

LEMMA GroupBusy ==
  ASSUME EngineInv
  PROVE  Group!Busy <=> Running
<1>1. Rounds /\ stage \in Stages
  BY DEF EngineInv, Rounds
<1>2. GPlans # <<>> <=> stage # "stopped"
  BY <1>1, PlansNow DEF Stages
<1> QED BY <1>2 DEF Group!Busy, Running, GPlans

LEMMA GroupInit == Init => Group!GInit
<1> SUFFICES ASSUME Init PROVE Group!GInit OBVIOUS
<1>1. EngineInv /\ Rounds
  BY EngineInit DEF EngineInv
<1>2. Len(files) \in 1..MaxFiles /\ config \in Configs
  BY InitFiles DEF Init
<1>3. SetupRounds = Len(files) + 2 /\ PassesLeft = Passes
  BY DEF Init, SetupRounds, PassesLeft
<1>4. \E s \in {[ws |-> c.ws, plans |-> Plans(c, f + 2, Passes)] :
                    c \in Configs, f \in 1..MaxFiles} :
         config.ws = s.ws /\ Plans(config, SetupRounds, PassesLeft) = s.plans
  <2> DEFINE s == [ws |-> config.ws, plans |-> Plans(config, Len(files) + 2, Passes)]
  <2>1. s \in {[ws |-> c.ws, plans |-> Plans(c, f + 2, Passes)] :
                    c \in Configs, f \in 1..MaxFiles}
    BY <1>2
  <2>2. config.ws = s.ws /\ Plans(config, SetupRounds, PassesLeft) = s.plans
    BY <1>3
  <2> HIDE DEF s
  <2> QED BY <2>1, <2>2
<1>5. config.ws - Len(todo) = 0
  <2>1. todo = From(0) /\ 0 \in 0..config.ws /\ config.ws \in Nat
    BY <1>1, AllToCall, WorldSize DEF Init
  <2> QED BY <1>1, <2>1, FromFacts
<1>6. /\ {r \in Ranks : queue[r] # <<>>} = {} /\ {r \in Ranks : posted[r] # <<>>} = {}
      /\ done = {} /\ fatal = FALSE
  BY DEF Init
<1>7. [r \in Ranks |-> IF stage = "execute_model" THEN Len(env[r]) ELSE 0]
        = [r \in 0..(config.ws - 1) |-> 0]
  BY DEF Init, Ranks
<1> QED BY <1>4, <1>5, <1>6, <1>7 DEF Group!GInit, Group!Ranks

\* What is left of a step of the group once the variables are mapped
LEMMA GroupUnchanged ==
  ASSUME UNCHANGED <<config, files, stage, todo, queue, done, env, posted, pass, fatal>>
  PROVE  UNCHANGED Group!gvars
<1>1. Ranks' = Ranks
  BY DEF Ranks
<1>2. SetupRounds' = SetupRounds /\ PassesLeft' = PassesLeft
  BY DEF SetupRounds, PassesLeft
<1>3. GPlans' = GPlans
  BY <1>2 DEF GPlans
<1>4. GTodo' = GTodo /\ GCalled' = GCalled /\ GIp' = GIp /\ GWaiting' = GWaiting
  BY <1>1 DEF GTodo, GCalled, GIp, GWaiting
<1> QED BY <1>3, <1>4 DEF Group!gvars, GPlans, GTodo, GCalled, GIp, GWaiting

LEMMA DieIsAbort == EngineInv /\ Running /\ Die => Group!Abort
<1> SUFFICES ASSUME EngineInv, Running, Die PROVE Group!Abort OBVIOUS
<1>1. Ranks' = Ranks
  BY DEF Ranks, Die
<1>2. SetupRounds' = SetupRounds /\ PassesLeft' = PassesLeft
  BY DEF SetupRounds, PassesLeft, Die
<1>3. GPlans' = GPlans
  BY <1>2 DEF GPlans, Die
<1>4. GTodo' = GTodo /\ GCalled' = GCalled /\ GIp' = GIp /\ GWaiting' = GWaiting
  BY <1>1 DEF GTodo, GCalled, GIp, GWaiting, Die
<1>5. Group!Busy
  BY GroupBusy
<1> QED
  BY <1>3, <1>4, <1>5 DEF Group!Abort, GPlans, GTodo, GCalled, GIp, GWaiting, Die

LEMMA ScheduleIsCall == EngineInv /\ Schedule => Group!Call
<1> SUFFICES ASSUME EngineInv, Schedule PROVE Group!Call OBVIOUS
<1>1. Ranks' = Ranks
  BY DEF Ranks, Schedule
<1>2. PICK k \in 0..config.ws : CalledUpto(k)
  BY DEF EngineInv, Calls
<1>3. config.ws \in Nat /\ Ranks = 0..(config.ws - 1) /\ Rounds
  BY WorldSize DEF EngineInv
<1>4. k < config.ws /\ k \in Ranks /\ k + 1 \in 0..config.ws
  <2>1. From(k) # <<>>
    BY <1>2 DEF Schedule, CalledUpto
  <2>2. From(config.ws) = <<>>
    BY <1>3 DEF From
  <2>3. k # config.ws
    BY <2>1, <2>2
  <2> QED BY <1>3, <2>3
<1>5. Head(todo) = k /\ todo' = From(k + 1) /\ todo = From(k)
  BY <1>2, <1>3, <1>4, FromFacts DEF Schedule, CalledUpto
<1>6. GTodo = k /\ GTodo' = k + 1
  <2>1. Len(From(k)) = config.ws - k /\ Len(From(k + 1)) = config.ws - (k + 1)
    BY <1>3, <1>4, FromFacts
  <2>2. config' = config
    BY DEF Schedule
  <2> QED BY <1>3, <1>5, <2>1, <2>2 DEF GTodo
<1>7. GCalled' = GCalled \cup {k}
  <2>1. queue \in [Ranks -> {<<>>, <<stage>>}] /\ queue[k] = <<>>
    BY <1>2, <1>3, <1>4 DEF CalledUpto, EngineInv, Calls
  <2>2. Append(<<>>, stage) # <<>>
    OBVIOUS
  <2>3. queue' = [queue EXCEPT ![k] = Append(<<>>, stage)]
    BY <1>5, <2>1 DEF Schedule
  <2> QED BY <1>1, <1>4, <2>1, <2>2, <2>3 DEF GCalled
<1>8. GPlans' = GPlans
  BY DEF GPlans, SetupRounds, PassesLeft, Schedule
<1>9. GIp' = GIp /\ GWaiting' = GWaiting /\ UNCHANGED <<config, done, fatal>>
  BY <1>1 DEF GIp, GWaiting, Schedule
<1>10. Group!Busy
  BY GroupBusy DEF Schedule
<1> QED
  BY <1>4, <1>6, <1>7, <1>8, <1>9, <1>10
  DEF Group!Call, GPlans, GTodo, GCalled, GIp, GWaiting

LEMMA CollectIsCollected == EngineInv /\ Collect => Group!Collected
<1> SUFFICES ASSUME EngineInv, Collect PROVE Group!Collected OBVIOUS
<1>1. Ranks' = Ranks /\ config' = config
  BY DEF Ranks, Collect
<1>2. /\ config.ws \in Nat /\ Ranks = 0..(config.ws - 1) /\ 0 \in 0..config.ws
      /\ Rounds /\ Passes \in Nat
  BY WorldSize, PassesAssumption DEF EngineInv
<1>3. GTodo = config.ws /\ GTodo' = 0
  <2>1. todo = <<>> /\ todo' = From(0)
    BY <1>2, AllToCall DEF Collect
  <2>2. Len(From(0)) = config.ws - 0 /\ Len(<<>>) = 0
    BY <1>2, FromFacts
  <2> QED BY <1>1, <1>2, <2>1, <2>2 DEF GTodo
<1>4. GPlans' = Tail(GPlans)
  <2>1. CASE stage = "init_model"
    <3>1. stage' = "load_state_dict" /\ files' = files
      BY <2>1 DEF Collect, NextStage
    <3>2. SetupRounds = Len(files) + 2 /\ SetupRounds' = Len(files) + 1 /\ PassesLeft' = Passes
      BY <2>1, <3>1 DEF SetupRounds, PassesLeft
    <3>3. Len(files) \in Nat /\ Tail(GPlans) = Plans(config, SetupRounds - 1, Passes)
      BY <1>2, <2>1, PlansNow DEF Rounds, IsSequence
    <3>4. SetupRounds' = SetupRounds - 1
      BY <3>2, <3>3
    <3> QED BY <1>1, <3>2, <3>3, <3>4 DEF GPlans
  <2>2. CASE stage = "load_state_dict"
    <3>1. /\ stage' = IF Len(files) > 1 THEN "load_state_dict" ELSE "verify_loaded_weights"
          /\ files' = Tail(files) /\ pass' = pass
      BY <2>2 DEF Collect, NextStage
    <3>2. IsSequence(files) /\ Len(files) \in 1..MaxFiles /\ Len(files) \in Nat
      BY <1>2, <2>2 DEF Rounds, IsSequence
    <3>3. Len(Tail(files)) = Len(files) - 1
      BY <3>2, Shortened
    <3>4. SetupRounds = Len(files) + 1
      BY <2>2 DEF SetupRounds
    <3>5. SetupRounds' = IF Len(files) > 1 THEN Len(Tail(files)) + 1 ELSE 1
      BY <3>1 DEF SetupRounds
    <3>6. SetupRounds' = SetupRounds - 1
      <4>1. CASE Len(files) > 1
        BY <3>2, <3>3, <3>4, <3>5, <4>1
      <4>2. CASE Len(files) = 1
        <5>1. ~(Len(files) > 1)
          BY <4>2
        <5>2. SetupRounds' = 1
          BY <3>5, <5>1
        <5> QED BY <3>4, <4>2, <5>2
      <4> QED BY <3>2, <4>1, <4>2
    <3>7. PassesLeft' = Passes
      BY <3>1 DEF PassesLeft
    <3>8. Tail(GPlans) = Plans(config, SetupRounds - 1, Passes)
      BY <1>2, <2>2, PlansNow
    <3> QED BY <1>1, <3>6, <3>7, <3>8 DEF GPlans
  <2>3. CASE stage = "init_kv_cache"
    <3>1. stage' = "execute_model" /\ pass' = pass /\ pass = 1
      BY <1>2, <2>3 DEF Collect, NextStage, Rounds
    <3>2. SetupRounds = 1 /\ SetupRounds' = 0 /\ PassesLeft' = Passes
      BY <1>2, <2>3, <3>1 DEF SetupRounds, PassesLeft
    <3>3. Tail(GPlans) = Plans(config, SetupRounds - 1, Passes)
      BY <1>2, <2>3, PlansNow
    <3>4. SetupRounds - 1 = 0
      BY <3>2
    <3> QED BY <1>1, <3>2, <3>3, <3>4 DEF GPlans
  <2>4. CASE stage = "execute_model"
    <3>1. /\ stage' = IF pass < Passes THEN "execute_model" ELSE "stopped"
          /\ pass' = IF pass < Passes THEN pass + 1 ELSE pass
      BY <2>4 DEF Collect, NextStage
    <3>2. SetupRounds' = 0 /\ PassesLeft' = Passes - pass
      BY <1>2, <3>1 DEF SetupRounds, PassesLeft, Rounds
    <3>3. Tail(GPlans) = Plans(config, 0, Passes - pass)
      BY <1>2, <2>4, PlansNow
    <3> QED BY <1>1, <3>2, <3>3 DEF GPlans
  <2> QED BY <1>2, <2>1, <2>2, <2>3, <2>4 DEF Rounds, Stages, Collect, Running
<1>5. GIp' = [r \in Ranks |-> 0]
  <2>1. ASSUME NEW r \in Ranks, stage' = "execute_model" PROVE Len(env'[r]) = 0
    BY <2>1 DEF Collect
  <2> QED BY <1>1, <2>1 DEF GIp
<1>6. GCalled' = GCalled /\ GWaiting' = GWaiting /\ fatal' = fatal
  BY <1>1 DEF GCalled, GWaiting, Collect
<1>7. Group!Busy /\ done = Ranks /\ done' = {}
  BY GroupBusy DEF Collect
<1> QED
  BY <1>1, <1>3, <1>4, <1>5, <1>6, <1>7
  DEF Group!Collected, Group!Ranks, Ranks, GPlans, GTodo, GCalled, GIp, GWaiting

\* Verifying the weights is no step of the group, unless it fails.
LEMMA VerifyIsStutter == EngineInv /\ VerifyWeights => Group!Abort \/ UNCHANGED Group!gvars
<1> SUFFICES ASSUME EngineInv, VerifyWeights PROVE Group!Abort \/ UNCHANGED Group!gvars
  OBVIOUS
<1>1. CASE fatal' = TRUE /\ UNCHANGED stage
  <2>1. Running /\ Die
    BY <1>1 DEF VerifyWeights, Die
  <2> QED BY <2>1, DieIsAbort
<1>2. CASE stage' = "init_kv_cache" /\ UNCHANGED fatal
  <2>1. Ranks' = Ranks /\ stage = "verify_loaded_weights"
    BY DEF Ranks, VerifyWeights
  <2>2. SetupRounds' = SetupRounds /\ PassesLeft' = PassesLeft
    BY <1>2, <2>1 DEF SetupRounds, PassesLeft
  <2>3. GPlans' = GPlans
    BY <2>2 DEF GPlans, VerifyWeights
  <2>4. GTodo' = GTodo /\ GCalled' = GCalled /\ GIp' = GIp /\ GWaiting' = GWaiting
    BY <1>2, <2>1 DEF GTodo, GCalled, GIp, GWaiting, VerifyWeights
  <2>5. UNCHANGED <<config, done, fatal>>
    BY <1>2 DEF VerifyWeights
  <2> QED BY <2>3, <2>4, <2>5 DEF Group!gvars, GPlans, GTodo, GCalled, GIp, GWaiting
<1> QED BY <1>1, <1>2 DEF VerifyWeights

LEMMA FulfilIsFinish ==
  ASSUME EngineInv, Running, NEW r \in Ranks, queue[r] # <<>>, posted[r] = <<>>, Fulfil(r),
         stage # "stopped", stage = "execute_model" => Len(env[r]) = Len(Prog),
         UNCHANGED <<config, files, stage, todo, env, posted, pass, fatal>>
  PROVE  Group!Finish(r)
<1>1. Ranks' = Ranks
  BY DEF Ranks
<1>2. GPlans' = GPlans
  BY DEF GPlans, SetupRounds, PassesLeft
<1>3. GTodo' = GTodo /\ GIp' = GIp /\ GWaiting' = GWaiting
  BY <1>1 DEF GTodo, GIp, GWaiting
<1>4. GCalled' = GCalled \ {r} /\ done' = done \cup {r} /\ r \in GCalled \ GWaiting
  <2>1. queue \in [Ranks -> {<<>>, <<stage>>}] /\ queue[r] = <<stage>>
    BY DEF EngineInv, Calls
  <2>2. Tail(<<stage>>) = <<>>
    OBVIOUS
  <2>3. queue' = [queue EXCEPT ![r] = <<>>] /\ done' = done \cup {r}
    BY <2>1, <2>2 DEF Fulfil
  <2> QED BY <1>1, <2>1, <2>3 DEF GCalled, GWaiting
<1>5. GIp[r] = Len(Head(GPlans))
  <2>1. Rounds
    BY DEF EngineInv
  <2>2. CASE stage = "execute_model"
    <3>1. Head(GPlans) = PlanOf(config)
      BY <2>1, <2>2, PlansNow
    <3>2. Len(PlanOf(config)) = Len(Prog)
      BY <2>1, ProgramLength DEF Rounds, Prog
    <3> QED BY <2>2, <3>1, <3>2 DEF GIp
  <2>3. CASE stage # "execute_model"
    <3>1. Head(GPlans) = <<>>
      BY <2>1, <2>3, PlansNow
    <3>2. Len(<<>>) = 0
      OBVIOUS
    <3> QED BY <2>3, <3>1, <3>2 DEF GIp
  <2> QED BY <2>2, <2>3
<1>6. Group!Busy
  BY GroupBusy
<1> QED
  BY <1>2, <1>3, <1>4, <1>5, <1>6
  DEF Group!Finish, Group!Plan, GPlans, GTodo, GCalled, GIp, GWaiting

LEMMA ForwardIsAdvance ==
  ASSUME EngineInv, NEW r \in Ranks, Forward(r)
  PROVE  Group!Abort \/ Group!Advance(r)
<1> DEFINE inst == Prog[Len(env[r]) + 1]
<1>1. /\ stage = "execute_model" /\ queue[r] # <<>> /\ posted[r] = <<>>
      /\ Len(env[r]) + 1 <= Len(Prog) /\ Running
      /\ \/ Die
         \/ /\ Collective(inst, config.ws) = "none"
            /\ \E v : env' = [env EXCEPT ![r] = Append(env[r], v)]
            /\ posted' = posted
            /\ UNCHANGED <<config, files, complete, stage, todo, queue, done,
                           params, temp_dq, pass, fatal>>
         \/ /\ Collective(inst, config.ws) # "none"
            /\ \E v : posted' = [posted EXCEPT ![r] = <<Collective(inst, config.ws), v>>]
            /\ env' = env
            /\ UNCHANGED <<config, files, complete, stage, todo, queue, done,
                           params, temp_dq, pass, fatal>>
  BY ForwardCases
<1>2. CASE Die
  BY <1>1, <1>2, DieIsAbort
<1>3. /\ Len(Prog) \in Nat /\ Rounds
      /\ env = [s \in Ranks |-> env[s]] /\ posted = [s \in Ranks |-> posted[s]]
      /\ \A s \in Ranks : IsSequence(env[s])
  BY ProgramLength DEF EngineInv, Rounds, Prog, Forwards
<1>4. /\ GIp[r] = Len(env[r]) /\ Len(env[r]) \in Nat
      /\ Head(GPlans) = PlanOf(config) /\ Len(Head(GPlans)) = Len(Prog)
      /\ Head(GPlans)[GIp[r] + 1] = Collective(inst, config.ws)
      /\ GIp[r] < Len(Head(GPlans))
  <2>1. GIp[r] = Len(env[r]) /\ Len(env[r]) \in Nat
    BY <1>1, <1>3 DEF GIp, IsSequence
  <2>2. Head(GPlans) = PlanOf(config)
    BY <1>1, <1>3, PlansNow
  <2>3. /\ Len(PlanOf(config)) = Len(Prog)
        /\ \A k \in 1..Len(Prog) : PlanOf(config)[k] = Collective(Prog[k], config.ws)
    BY <1>3, ProgramLength DEF Rounds, Prog
  <2>4. Len(env[r]) + 1 \in 1..Len(Prog)
    BY <1>1, <1>3, <2>1
  <2> QED BY <1>3, <2>1, <2>2, <2>3, <2>4
<1>5. Group!Busy /\ r \in GCalled \ GWaiting
  BY <1>1, GroupBusy DEF GCalled, GWaiting
<1>6. ASSUME UNCHANGED <<config, files, complete, stage, todo, queue, done,
                         params, temp_dq, pass, fatal>>
      PROVE  /\ Ranks' = Ranks /\ GPlans' = GPlans /\ GTodo' = GTodo /\ GCalled' = GCalled
             /\ UNCHANGED <<config, done, fatal>>
  <2>1. Ranks' = Ranks
    BY <1>6 DEF Ranks
  <2>2. SetupRounds' = SetupRounds /\ PassesLeft' = PassesLeft
    BY <1>6 DEF SetupRounds, PassesLeft
  <2>3. GPlans' = GPlans
    BY <1>6, <2>2 DEF GPlans
  <2> QED BY <1>6, <2>1, <2>3 DEF GTodo, GCalled
<1>7. ASSUME NEW v, env' = [env EXCEPT ![r] = Append(env[r], v)], posted' = posted,
             Collective(inst, config.ws) = "none",
             UNCHANGED <<config, files, complete, stage, todo, queue, done,
                         params, temp_dq, pass, fatal>>
      PROVE  Group!Advance(r)
  <2>1. /\ Ranks' = Ranks /\ GPlans' = GPlans /\ GTodo' = GTodo /\ GCalled' = GCalled
        /\ UNCHANGED <<config, done, fatal>>
    BY <1>6, <1>7
  <2>2. Len(Append(env[r], v)) = Len(env[r]) + 1
    BY <1>3, Appended
  <2>3. env' = [s \in Ranks |-> IF s = r THEN Append(env[r], v) ELSE env[s]]
    BY <1>3, <1>7
  <2>4. stage' = "execute_model"
    BY <1>1, <1>7
  <2>5. \A s \in Ranks : Len(env'[s]) = IF s = r THEN Len(env[r]) + 1 ELSE Len(env[s])
    BY <2>2, <2>3
  <2>6. GIp' = [GIp EXCEPT ![r] = GIp[r] + 1]
    BY <1>1, <2>1, <2>4, <2>5 DEF GIp
  <2>7. GWaiting' = GWaiting
    BY <1>7, <2>1 DEF GWaiting
  <2> QED
    BY <1>4, <1>5, <1>7, <2>1, <2>6, <2>7
    DEF Group!Advance, Group!Plan, GPlans, GTodo, GCalled, GIp, GWaiting
<1>8. ASSUME NEW v, posted' = [posted EXCEPT ![r] = <<Collective(inst, config.ws), v>>],
             env' = env, Collective(inst, config.ws) # "none",
             UNCHANGED <<config, files, complete, stage, todo, queue, done,
                         params, temp_dq, pass, fatal>>
      PROVE  Group!Advance(r)
  <2>1. /\ Ranks' = Ranks /\ GPlans' = GPlans /\ GTodo' = GTodo /\ GCalled' = GCalled
        /\ UNCHANGED <<config, done, fatal>>
    BY <1>6, <1>8
  <2>2. <<Collective(inst, config.ws), v>> # <<>>
    OBVIOUS
  <2>3. GIp' = GIp
    BY <1>8, <2>1 DEF GIp
  <2>4. posted' = [s \in Ranks |-> IF s = r THEN <<Collective(inst, config.ws), v>>
                                   ELSE posted[s]]
    BY <1>3, <1>8
  <2>5. GWaiting' = GWaiting \cup {r}
    BY <2>1, <2>2, <2>4 DEF GWaiting
  <2> QED
    BY <1>4, <1>5, <1>8, <2>1, <2>3, <2>5
    DEF Group!Advance, Group!Plan, GPlans, GTodo, GCalled, GIp, GWaiting
<1> QED BY <1>1, <1>2, <1>7, <1>8

LEMMA ExchangeIsMeet == EngineInv /\ Exchange => Group!Meet
<1> SUFFICES ASSUME EngineInv, Exchange PROVE Group!Meet OBVIOUS
<1>1. /\ config' = config /\ Ranks' = Ranks /\ 0 \in Ranks /\ Rounds
  BY WorldSize DEF EngineInv, Ranks, Exchange
<1>2. /\ Len(Prog) \in Nat
      /\ \A s \in Ranks : /\ IsSequence(env[s]) /\ Len(env[s]) < Len(Prog)
                          /\ posted[s][1] = Collective(Prog[Len(env[s]) + 1], config.ws)
      /\ stage = "execute_model"
  BY <1>1, ProgramLength DEF EngineInv, Rounds, Prog, Forwards, Posting, Exchange
<1>3. GWaiting = Ranks /\ GWaiting' = {}
  BY <1>1 DEF GWaiting, Exchange
<1>4. Head(GPlans) = PlanOf(config)
  BY <1>1, <1>2, PlansNow
<1>5. ASSUME NEW s \in Ranks
      PROVE  GIp[s] = Len(env[s]) /\ Head(GPlans)[GIp[s] + 1] = posted[s][1]
  <2>1. GIp[s] = Len(env[s]) /\ Len(env[s]) \in Nat
    BY <1>2 DEF GIp, IsSequence
  <2>2. \A k \in 1..Len(Prog) : PlanOf(config)[k] = Collective(Prog[k], config.ws)
    BY <1>1, ProgramLength DEF Rounds, Prog
  <2>3. Len(env[s]) + 1 \in 1..Len(Prog)
    BY <1>2, <2>1
  <2> QED BY <1>2, <1>4, <2>1, <2>2, <2>3
<1>6. \A s \in Ranks : Head(GPlans)[GIp[s] + 1] = Head(GPlans)[GIp[0] + 1]
  BY <1>1, <1>5 DEF Exchange
<1>7. GIp' = [s \in Ranks |-> GIp[s] + 1]
  <2> DEFINE V(s) == Combined(Len(env[s]) + 1, Prog[Len(env[s]) + 1],
                              params[s][Len(env[s]) + 1],
                              [i \in 1..config.ws |-> posted[i - 1][2]])
  <2>1. env' = [s \in Ranks |-> Append(env[s], V(s))] /\ stage' = stage
    BY DEF Exchange
  <2> HIDE DEF V
  <2>2. ASSUME NEW s \in Ranks PROVE Len(env'[s]) = GIp[s] + 1
    <3>1. env'[s] = Append(env[s], V(s)) /\ IsSequence(env[s])
      BY <1>2, <2>1
    <3> QED BY <1>5, <3>1, Appended
  <2>3. GIp' = [s \in Ranks |-> Len(env'[s])]
    BY <1>1, <1>2, <2>1 DEF GIp
  <2> QED BY <2>2, <2>3
<1>8. GPlans' = GPlans
  BY DEF GPlans, SetupRounds, PassesLeft, Exchange
<1>9. GTodo' = GTodo /\ GCalled' = GCalled /\ UNCHANGED <<done, fatal>>
  BY <1>1 DEF GTodo, GCalled, Exchange
<1>10. Group!Busy
  BY GroupBusy DEF Exchange
<1> QED
  BY <1>1, <1>3, <1>6, <1>7, <1>8, <1>9, <1>10
  DEF Group!Meet, Group!Plan, Group!Ranks, Ranks, GPlans, GTodo, GCalled, GIp, GWaiting

LEMMA WorkerIsStep ==
  ASSUME EngineInv, NEW r \in Ranks, Worker(r)
  PROVE  Group!Abort \/ Group!Advance(r) \/ Group!Finish(r)
<1>1. CASE InitModel(r)
  <2>1. Runs(r, "init_model") /\ Running
    BY <1>1 DEF InitModel, Runs
  <2>2. queue[r] # <<>> /\ posted[r] = <<>> /\ stage = "init_model"
    BY <2>1, TaskIsStage, NothingPosted
  <2> QED BY <1>1, <2>1, <2>2, DieIsAbort, FulfilIsFinish DEF InitModel
<1>2. CASE LoadStateDict(r)
  <2>1. Runs(r, "load_state_dict") /\ Running
    BY <1>2 DEF LoadStateDict, Runs
  <2>2. queue[r] # <<>> /\ posted[r] = <<>> /\ stage = "load_state_dict"
    BY <2>1, TaskIsStage, NothingPosted
  <2> QED BY <1>2, <2>1, <2>2, DieIsAbort, FulfilIsFinish DEF LoadStateDict
<1>3. CASE InitKVCache(r)
  <2>1. Runs(r, "init_kv_cache") /\ Running
    BY <1>3 DEF InitKVCache, Runs
  <2>2. queue[r] # <<>> /\ posted[r] = <<>> /\ stage = "init_kv_cache"
    BY <2>1, TaskIsStage, NothingPosted
  <2> QED BY <1>3, <2>1, <2>2, DieIsAbort, FulfilIsFinish DEF InitKVCache
<1>4. CASE Forward(r)
  BY <1>4, ForwardIsAdvance
<1>5. CASE Return(r)
  <2>1. Runs(r, "execute_model") /\ Running /\ Len(env[r]) = Len(Prog)
    BY <1>5 DEF Return, Runs
  <2>2. queue[r] # <<>> /\ posted[r] = <<>> /\ stage = "execute_model"
    BY <2>1, TaskIsStage, NothingPosted
  <2> QED BY <1>5, <2>1, <2>2, FulfilIsFinish DEF Return
<1> QED BY <1>1, <1>2, <1>3, <1>4, <1>5 DEF Worker

LEMMA GroupStep == EngineInv /\ [Next]_vars => [Group!GNext]_(Group!gvars)
<1> SUFFICES ASSUME EngineInv, [Next]_vars PROVE [Group!GNext]_(Group!gvars) OBVIOUS
<1>1. CASE UNCHANGED vars
  BY <1>1, GroupUnchanged DEF vars
<1>2. CASE Stop
  BY <1>2, GroupUnchanged DEF vars, Stop
<1>3. CASE Schedule
  BY <1>3, ScheduleIsCall DEF Group!GNext
<1>4. CASE Collect
  BY <1>4, CollectIsCollected DEF Group!GNext
<1>5. CASE VerifyWeights
  BY <1>5, VerifyIsStutter DEF Group!GNext
<1>6. CASE Exchange
  BY <1>6, ExchangeIsMeet DEF Group!GNext
<1>7. ASSUME NEW r \in Ranks, Worker(r) PROVE Group!GNext
  BY <1>7, WorkerIsStep DEF Group!GNext, Group!Ranks, Ranks
<1> QED BY <1>1, <1>2, <1>3, <1>4, <1>5, <1>6, <1>7 DEF Next

\* For every configuration, number of devices, checkpoint and number of forward
\* passes, the engine's thread and the workers take the steps of WorkerGroup:
\* a round calls every worker and ends when all futures are fulfilled
\* (collectAll), and a collective of the forwards ends when all ranks have
\* come to the same kind of it (ProcessGroupNCCL).
THEOREM EngineImplementsGroup == Spec => ImplementsWorkerGroup
<1>1. Spec => Init /\ [][Next]_vars /\ []EngineInv
  BY EngineInvariant DEF Spec
<1> QED BY <1>1, GroupInit, GroupStep, PTL DEF ImplementsWorkerGroup, Group!GSafety

-----------------------------------------------------------------------------
(* A checkpoint that lacks a tensor                                         *)

\* What a tensor of the model's checkpoint names
LEMMA TensorFacts ==
  ASSUME NEW c \in Configs, NEW t \in TensorsOf(Programs[c])
  PROVE  LET m == Programs[c][t[1]].mod IN
         /\ t[1] \in LayersOf(Programs[c]) /\ t[3] \in Params(m)
         /\ m.names \in Seq(Seq(STRING)) /\ m.names # <<>>
         /\ t[2] \in DOMAIN m.names
         /\ TensorName(Programs[c], t) = Append(m.names[t[2]], t[3])
<1>1. PICK k \in LayersOf(Programs[c]) :
         t \in {<<k, i, p>> : i \in DOMAIN Programs[c][k].mod.names,
                              p \in Params(Programs[c][k].mod)}
  BY DEF TensorsOf
<1>2. PICK i \in DOMAIN Programs[c][k].mod.names, p \in Params(Programs[c][k].mod) :
         t = <<k, i, p>>
  BY <1>1
<1>3. t[1] = k /\ t[2] = i /\ t[3] = p
  BY <1>2
<1>4. Programs[c][k].mod.names \in Seq(Seq(STRING)) /\ Programs[c][k].mod.names # <<>>
  BY ProgramsAssumption
<1> QED BY <1>3, <1>4 DEF TensorName

\* The layer finds nothing in a file that has no tensor of that name.
LEMMA NothingFetched ==
  ASSUME NEW m, m.names \in Seq(Seq(STRING)), NEW i \in DOMAIN m.names, NEW p,
         NEW sd, sd = View(sd.dict, sd.shard_id, sd.num_shards),
         Append(m.names[i], p) \notin DOMAIN sd.dict, NEW rank, NEW ws
  PROVE  Fetched(m, sd, i, p, rank, ws) = Undefined
<1>1. m.names[i] \in Seq(STRING)
  BY ElementOfSeq, LenProperties
<1>2. <<>> \o m.names[i] = m.names[i] /\ m.names[i] \o <<p>> = Append(m.names[i], p)
  <2>1. m.names[i] \in Seq(STRING \cup {p})
    BY <1>1, SeqMonotonic
  <2> QED BY <2>1
<1> DEFINE v == Selected(m, sd, i)
<1>3. v.prefix = m.names[i] /\ v.dict = sd.dict
  <2>1. PICK d, a, n : sd = [dict |-> d, prefix |-> <<>>, transform |-> NoTransform,
                             shard_id |-> a, num_shards |-> n]
    BY DEF View
  <2> DEFINE s == select(sd, m.names[i])
             D == {"dict", "prefix", "transform", "shard_id", "num_shards"}
  <2>2. /\ DOMAIN sd = D /\ sd.dict = d /\ sd.prefix = <<>>
        /\ s = [[sd EXCEPT !.prefix = <<>> \o m.names[i]] EXCEPT !.transform = NoTransform]
    BY <2>1 DEF select
  <2>3. DOMAIN s = D /\ s.prefix = <<>> \o m.names[i] /\ s.dict = d
    BY <2>2
  <2>4. v = [s EXCEPT !.transform = m.tf]
    BY DEF Selected, select_with_transform
  <2> HIDE DEF s, v
  <2>5. v.prefix = s.prefix /\ v.dict = s.dict
    BY <2>3, <2>4
  <2> QED BY <1>2, <2>2, <2>3, <2>5
<1>4. get_tensor(v, <<p>>) = Undefined
  BY <1>2, <1>3 DEF get_tensor
<1>5. \A dim : get_sharded_tensor(v, <<p>>, dim, rank, ws) = Undefined
  BY <1>4 DEF get_sharded_tensor
<1> QED BY <1>4, <1>5 DEF Fetched

\* A layer that lacks a part keeps lacking it.
LEMMA StillLacks ==
  ASSUME NEW m, m.names \in Seq(Seq(STRING)), m.names # <<>>, NEW i \in DOMAIN m.names,
         NEW sd, NEW p, NEW rank, NEW ws,
         Fetched(m, sd, i, p, rank, ws) = Undefined,
         NEW param, LacksPart(param, i)
  PROVE  LacksPart(Loaded(m, sd, p, rank, ws, param), i)
<1>1. /\ param = [tensor |-> param.tensor, ok |-> FALSE, parts |-> param.parts]
      /\ param.ok = FALSE /\ param.parts[i] = Undefined
  BY DEF LacksPart
<1>2. CASE Len(m.names) > 1
  <2> DEFINE parts == [j \in DOMAIN m.names |-> Fetched(m, sd, j, p, rank, ws)]
             all == [j \in DOMAIN parts |-> IF param.parts[j] # Undefined THEN param.parts[j]
                                            ELSE parts[j]]
  <2>1. i \in DOMAIN all /\ all[i] = Undefined
    BY <1>1
  <2>2. Merged(param, parts, ShardDim(m, p))
          = IF \A j \in DOMAIN all : all[j] # Undefined
            THEN [tensor |-> Cat(all, ShardDim(m, p)), ok |-> TRUE,
                  parts |-> [j \in DOMAIN all |-> Undefined]]
            ELSE [param EXCEPT !.parts = all]
    BY <1>1 DEF Merged
  <2>3. Loaded(m, sd, p, rank, ws, param) = Merged(param, parts, ShardDim(m, p))
    BY <1>2 DEF Loaded
  <2> HIDE DEF parts, all
  <2>4. Loaded(m, sd, p, rank, ws, param) = [param EXCEPT !.parts = all]
    BY <2>1, <2>2, <2>3
  <2>5. PICK t, b : param = [tensor |-> t, ok |-> FALSE, parts |-> b]
    BY <1>1
  <2>6. Loaded(m, sd, p, rank, ws, param) = [tensor |-> t, ok |-> FALSE, parts |-> all]
    BY <2>4, <2>5
  <2> QED BY <2>1, <2>6 DEF LacksPart
<1>3. CASE ~(Len(m.names) > 1)
  <2>1. i = 1
    BY <1>3, LenProperties
  <2> QED BY <1>3, <2>1 DEF Loaded
<1> QED BY <1>2, <1>3

\* Leaving one tensor out leaves it out of every file.
LEMMA LeftOut ==
  ASSUME NEW s, NEW n, NEW f \in DOMAIN s, NEW d, NEW a, NEW b, s[f] = View(d, a, b)
  PROVE  /\ Without(s, n)[f] = View(Without(s, n)[f].dict, Without(s, n)[f].shard_id,
                                    Without(s, n)[f].num_shards)
         /\ n \notin DOMAIN Without(s, n)[f].dict
<1> DEFINE w == Without(s, n)[f]
           D == Only(d, DOMAIN d \ {n})
<1>1. w = [s[f] EXCEPT !.dict = Only(s[f].dict, DOMAIN s[f].dict \ {n})]
  BY DEF Without
<1>2. s[f] = [dict |-> d, prefix |-> <<>>, transform |-> NoTransform,
              shard_id |-> a, num_shards |-> b]
  BY DEF View
<1>3. s[f].dict = d
  BY <1>2
<1>4. w = [s[f] EXCEPT !.dict = D]
  BY <1>1, <1>3
<1>5. n \notin DOMAIN D
  BY DEF Only
<1> HIDE DEF w, D
<1>6. w = [dict |-> D, prefix |-> <<>>, transform |-> NoTransform,
           shard_id |-> a, num_shards |-> b]
  BY <1>2, <1>4
<1>7. w.dict = D /\ w.shard_id = a /\ w.num_shards = b
  BY <1>6
<1>8. w = View(w.dict, w.shard_id, w.num_shards)
  BY <1>6, <1>7 DEF View
<1> QED BY <1>5, <1>7, <1>8 DEF w

LEMMA MissingInit == Init => MissingInv
<1> SUFFICES ASSUME Init PROVE MissingInv OBVIOUS
<1>1. config \in Configs /\ stage = "init_model" /\ done = {}
  BY DEF Init
<1>2. params = [r \in Ranks |-> params[r]]
  BY DEF Init
<1>3. ASSUME ~complete PROVE \E t \in TensorsOf(Prog) : Missing(t)
  <2>1. files \in IncompleteCheckpoints(config)
    BY <1>3 DEF Init
  <2> DEFINE s == IF config.shards > 0 THEN PTCheckpoint(config)
                  ELSE <<View(Checkpoints[config], 0, 1)>>
  <2>2. PICK n \in DOMAIN Checkpoints[config] : files = Without(s, n)
    BY <2>1 DEF IncompleteCheckpoints
  <2>3. PICK t \in TensorsOf(Prog) : TensorName(Prog, t) = n
    <3>1. Checkpoints[config] = CheckpointOf(Prog)
      BY <1>1 DEF Checkpoints, Prog
    <3>2. DOMAIN CheckpointOf(Prog) = {TensorName(Prog, t) : t \in TensorsOf(Prog)}
      BY DEF CheckpointOf
    <3> QED BY <2>2, <3>1, <3>2
  <2>4. ASSUME NEW f \in DOMAIN s PROVE \E d, a, b : s[f] = View(d, a, b)
    <3>1. CASE config.shards > 0
      <4>1. s = PTCheckpoint(config) /\ f \in DOMAIN PTCheckpoint(config)
        BY <3>1
      <4>2. s[f] = View(ShardOf(Programs[config], Checkpoints[config], config.shards, f - 1),
                        f - 1, config.shards)
        BY <4>1 DEF PTCheckpoint
      <4> QED BY <4>2
    <3>2. CASE ~(config.shards > 0)
      <4>1. s = <<View(Checkpoints[config], 0, 1)>> /\ f \in DOMAIN <<View(Checkpoints[config], 0, 1)>>
        BY <3>2
      <4>2. f = 1
        BY <4>1
      <4>3. s[f] = View(Checkpoints[config], 0, 1)
        BY <4>1, <4>2
      <4> QED BY <4>3
    <3> QED BY <3>1, <3>2
  <2>5. 1..Len(files) = DOMAIN s
    <3>1. DOMAIN files = DOMAIN s
      BY <2>2 DEF Without
    <3>2. IsSequence(files)
      BY InitFiles
    <3>3. DOMAIN files = 1..Len(files)
      BY <3>2 DEF IsSequence
    <3> QED BY <3>1, <3>3
  <2> HIDE DEF s
  <2>6. ASSUME NEW f \in 1..Len(files)
        PROVE  /\ files[f] = View(files[f].dict, files[f].shard_id, files[f].num_shards)
               /\ TensorName(Prog, t) \notin DOMAIN files[f].dict
    <3>1. f \in DOMAIN s
      BY <2>5
    <3>2. PICK d, a, b : s[f] = View(d, a, b)
      BY <2>4, <3>1
    <3> QED BY <2>2, <2>3, <3>1, <3>2, LeftOut
  <2> QED BY <1>1, <2>6 DEF Missing
<1> QED BY <1>1, <1>2, <1>3 DEF MissingInv

LEMMA MissingUnchanged ==
  ASSUME MissingInv, UNCHANGED <<config, complete, files, stage, done, params>>
  PROVE  MissingInv'
<1>1. Ranks' = Ranks /\ Prog' = Prog
  BY DEF Ranks, Prog
<1>2. \A t : Missing(t) => Missing(t)'
  BY <1>1 DEF Missing
<1> QED BY <1>1, <1>2 DEF MissingInv

\* What the engine's own steps leave of it
LEMMA MissingCollect == EngineInv /\ MissingInv /\ Collect => MissingInv'
<1> SUFFICES ASSUME EngineInv, MissingInv, Collect PROVE MissingInv' OBVIOUS
<1>1. Ranks' = Ranks /\ Prog' = Prog /\ params' = params /\ complete' = complete
  BY DEF Ranks, Prog, Collect
<1>2. ASSUME ~complete
      PROVE  /\ stage' \in {"init_model", "load_state_dict", "verify_loaded_weights"}
             /\ \E t \in TensorsOf(Prog) : Missing(t)'
  <2>1. stage \in {"init_model", "load_state_dict"}
    BY <1>2 DEF MissingInv, Collect
  <2>2. PICK t \in TensorsOf(Prog) : Missing(t)
    BY <1>2 DEF MissingInv
  <2>3. stage' \in {"load_state_dict", "verify_loaded_weights"}
    BY <2>1 DEF Collect, NextStage
  <2>4. \A r \in Ranks : /\ t[1] \in DOMAIN params[r] /\ t[3] \in DOMAIN params[r][t[1]]
                         /\ LacksPart(params[r][t[1]][t[3]], t[2])
    BY <2>2 DEF Missing, Collect
  <2> DEFINE Lacking(file) == /\ file = View(file.dict, file.shard_id, file.num_shards)
                              /\ TensorName(Prog, t) \notin DOMAIN file.dict
  <2>5. IsSequence(files) /\ Len(files) \in 1..MaxFiles /\ \A f \in 1..Len(files) : Lacking(files[f])
    BY <2>1, <2>2 DEF Missing, EngineInv, Rounds
  <2>6. ASSUME NEW f \in 1..Len(files') PROVE Lacking(files'[f])
    <3>1. CASE files' = files
      BY <2>5, <3>1
    <3>2. CASE files' = Tail(files)
      <4>1. Len(files) \in Nat /\ Len(files) > 0
        BY <2>5 DEF IsSequence
      <4>2. Len(Tail(files)) = Len(files) - 1 /\ \A i \in 1..Len(files) - 1 : Tail(files)[i] = files[i + 1]
        BY <2>5, <4>1, Shortened
      <4> HIDE DEF Lacking
      <4>3. f \in 1..Len(files) - 1 /\ f + 1 \in 1..Len(files)
        BY <3>2, <4>1, <4>2
      <4> QED BY <2>5, <3>2, <4>2, <4>3
    <3> QED BY <3>1, <3>2 DEF Collect
  <2>7. Missing(t)'
    BY <1>1, <2>4, <2>6 DEF Missing
  <2> QED BY <2>3, <2>7
<1> QED BY <1>1, <1>2 DEF MissingInv

LEMMA MissingVerify == EngineInv /\ MissingInv /\ VerifyWeights => MissingInv'
<1> SUFFICES ASSUME EngineInv, MissingInv, VerifyWeights PROVE MissingInv' OBVIOUS
<1>1. CASE stage' = stage
  BY <1>1, MissingUnchanged DEF VerifyWeights
<1>2. CASE (\A r \in Ranks : AllLoaded(r)) /\ stage' = "init_kv_cache"
  <2>1. Ranks' = Ranks /\ params' = params /\ complete' = complete
    BY DEF Ranks, VerifyWeights
  <2>2. ASSUME ~complete PROVE FALSE
    <3>1. PICK t \in TensorsOf(Prog) : Missing(t)
      BY <2>2 DEF MissingInv
    <3>2. 0 \in Ranks /\ config \in Configs
      BY WorldSize DEF EngineInv
    <3>3. params[0][t[1]][t[3]].ok = FALSE
      <4>1. LacksPart(params[0][t[1]][t[3]], t[2])
        BY <3>1, <3>2 DEF Missing, VerifyWeights
      <4> QED BY <4>1 DEF LacksPart
    <3>4. t[1] \in LayersOf(Prog) /\ t[3] \in Params(Prog[t[1]].mod)
      BY <3>2, TensorFacts DEF Prog
    <3> QED BY <1>2, <3>2, <3>3, <3>4 DEF AllLoaded
  <2> QED BY <2>1, <2>2 DEF MissingInv
<1> QED BY <1>1, <1>2 DEF VerifyWeights

\* A rank that answers at a later stage than loading changes no parameter.
LEMMA MissingFulfil ==
  ASSUME MissingInv, stage # "init_model", UNCHANGED <<config, complete, files, stage, params>>
  PROVE  MissingInv'
<1>1. Ranks' = Ranks /\ Prog' = Prog
  BY DEF Ranks, Prog
<1>2. \A t : Missing(t) => Missing(t)'
  BY <1>1 DEF Missing
<1> QED BY <1>1, <1>2 DEF MissingInv

LEMMA MissingConstructed ==
  ASSUME EngineInv, MissingInv, NEW r \in Ranks, InitModel(r)
  PROVE  MissingInv'
<1>1. CASE Die
  BY <1>1, MissingUnchanged DEF Die
<1>2. CASE ~Die
  <2> DEFINE new == [k \in LayersOf(Prog) |->
                        [p \in Params(Prog[k].mod) |-> Unloaded(Prog[k].mod)]]
  <2>1. /\ params' = [params EXCEPT ![r] = new] /\ done' = done \cup {r}
        /\ UNCHANGED <<config, files, complete, stage>>
    BY <1>2 DEF InitModel, Fulfil
  <2>2. Ranks' = Ranks /\ Prog' = Prog /\ config \in Configs
    BY <2>1, WorldSize DEF Ranks, Prog, EngineInv
  <2>3. params' = [s \in Ranks |-> IF s = r THEN new ELSE params[s]]
    BY <2>1 DEF MissingInv
  <2>4. params' = [s \in Ranks |-> params'[s]]
    BY <2>3
  <2>5. ASSUME NEW t \in TensorsOf(Prog), Missing(t) PROVE Missing(t)'
    <3>1. /\ t[1] \in LayersOf(Prog) /\ t[3] \in Params(Prog[t[1]].mod)
          /\ t[2] \in DOMAIN Prog[t[1]].mod.names
      BY <2>2, TensorFacts DEF Prog
    <3>2. /\ t[1] \in DOMAIN new /\ t[3] \in DOMAIN new[t[1]]
          /\ new[t[1]][t[3]] = Unloaded(Prog[t[1]].mod)
      BY <3>1
    <3>3. LacksPart(Unloaded(Prog[t[1]].mod), t[2])
      BY <3>1 DEF LacksPart, Unloaded
    <3>4. params'[r] = new /\ \A s \in Ranks : s # r => params'[s] = params[s]
      BY <2>3
    <3> HIDE DEF new
    <3>5. ASSUME NEW s \in Ranks, stage # "init_model" \/ s \in done'
          PROVE  /\ t[1] \in DOMAIN params'[s] /\ t[3] \in DOMAIN params'[s][t[1]]
                 /\ LacksPart(params'[s][t[1]][t[3]], t[2])
      <4>1. CASE s = r
        BY <3>2, <3>3, <3>4, <4>1
      <4>2. CASE s # r
        BY <2>1, <2>5, <3>4, <3>5, <4>2 DEF Missing
      <4> QED BY <4>1, <4>2
    <3> QED BY <2>1, <2>2, <2>5, <3>5 DEF Missing
  <2> QED BY <2>1, <2>2, <2>4, <2>5 DEF MissingInv
<1> QED BY <1>1, <1>2

LEMMA MissingLoaded ==
  ASSUME EngineInv, MissingInv, NEW r \in Ranks, LoadStateDict(r)
  PROVE  MissingInv'
<1>1. CASE Die
  BY <1>1, MissingUnchanged DEF Die
<1>2. CASE ~Die
  <2> DEFINE sd == Head(files)
             old == params[r]
             new == [k \in DOMAIN old |-> [p \in DOMAIN old[k] |->
                        Loaded(Prog[k].mod, sd, p, r, config.ws, old[k][p])]]
  <2>1. /\ params' = [params EXCEPT ![r] = new] /\ done' = done \cup {r}
        /\ UNCHANGED <<config, files, complete, stage>>
    BY <1>2 DEF LoadStateDict, Fulfil
  <2>2. Ranks' = Ranks /\ Prog' = Prog /\ config \in Configs
    BY <2>1, WorldSize DEF Ranks, Prog, EngineInv
  <2>3. params' = [s \in Ranks |-> IF s = r THEN new ELSE params[s]]
    BY <2>1 DEF MissingInv
  <2>4. params' = [s \in Ranks |-> params'[s]]
    BY <2>3
  <2>5. stage = "load_state_dict"
    <3>1. Runs(r, "load_state_dict")
      BY DEF LoadStateDict
    <3> QED BY <3>1, TaskIsStage
  <2>6. ASSUME NEW t \in TensorsOf(Prog), Missing(t) PROVE Missing(t)'
    <3> DEFINE m == Prog[t[1]].mod
    <3>1. /\ t[1] \in LayersOf(Prog) /\ t[3] \in Params(m)
          /\ m.names \in Seq(Seq(STRING)) /\ m.names # <<>>
          /\ t[2] \in DOMAIN m.names
          /\ TensorName(Prog, t) = Append(m.names[t[2]], t[3])
      BY <2>2, TensorFacts DEF Prog
    <3>2. /\ t[1] \in DOMAIN old /\ t[3] \in DOMAIN old[t[1]]
          /\ LacksPart(old[t[1]][t[3]], t[2])
      BY <2>5, <2>6 DEF Missing
    <3>3. sd = View(sd.dict, sd.shard_id, sd.num_shards) /\ TensorName(Prog, t) \notin DOMAIN sd.dict
      <4>1. IsSequence(files) /\ Len(files) \in 1..MaxFiles
        BY <2>5 DEF EngineInv, Rounds
      <4>2. Len(files) \in Nat /\ Len(files) > 0
        BY <4>1 DEF IsSequence
      <4>3. sd = files[1] /\ 1 \in 1..Len(files)
        BY <4>1, <4>2, Shortened
      <4> QED BY <2>5, <2>6, <4>3 DEF Missing
    <3>4. Fetched(m, sd, t[2], t[3], r, config.ws) = Undefined
      <4> HIDE DEF m, sd
      <4> QED BY <3>1, <3>3, NothingFetched
    <3>5. LacksPart(Loaded(m, sd, t[3], r, config.ws, old[t[1]][t[3]]), t[2])
      <4> HIDE DEF m, sd, old
      <4> QED BY <3>1, <3>2, <3>4, StillLacks
    <3>6. /\ t[1] \in DOMAIN new /\ t[3] \in DOMAIN new[t[1]]
          /\ new[t[1]][t[3]] = Loaded(m, sd, t[3], r, config.ws, old[t[1]][t[3]])
      BY <3>2
    <3>7. params'[r] = new /\ \A s \in Ranks : s # r => params'[s] = params[s]
      BY <2>3
    <3> HIDE DEF new, m, sd, old
    <3>8. ASSUME NEW s \in Ranks
          PROVE  /\ t[1] \in DOMAIN params'[s] /\ t[3] \in DOMAIN params'[s][t[1]]
                 /\ LacksPart(params'[s][t[1]][t[3]], t[2])
      <4>1. CASE s = r
        BY <3>5, <3>6, <3>7, <4>1
      <4>2. CASE s # r
        BY <2>5, <2>6, <3>7, <4>2 DEF Missing
      <4> QED BY <4>1, <4>2
    <3> QED BY <2>1, <2>2, <2>6, <3>8 DEF Missing
  <2> QED BY <2>1, <2>2, <2>4, <2>6 DEF MissingInv
<1> QED BY <1>1, <1>2

LEMMA MissingWorker ==
  ASSUME EngineInv, MissingInv, NEW r \in Ranks, Worker(r)
  PROVE  MissingInv'
<1>1. CASE InitModel(r)
  BY <1>1, MissingConstructed
<1>2. CASE LoadStateDict(r)
  BY <1>2, MissingLoaded
<1>3. CASE InitKVCache(r)
  <2>1. Runs(r, "init_kv_cache")
    BY <1>3 DEF InitKVCache
  <2>2. stage # "init_model"
    BY <2>1, TaskIsStage
  <2> QED BY <1>3, <2>2, MissingUnchanged, MissingFulfil DEF InitKVCache, Die
<1>4. CASE Forward(r)
  BY <1>4, ForwardCases, MissingUnchanged DEF Die
<1>5. CASE Return(r)
  <2>1. Runs(r, "execute_model")
    BY <1>5 DEF Return
  <2>2. stage # "init_model"
    BY <2>1, TaskIsStage
  <2> QED BY <1>5, <2>2, MissingFulfil DEF Return
<1> QED BY <1>1, <1>2, <1>3, <1>4, <1>5 DEF Worker

LEMMA MissingStep == EngineInv /\ MissingInv /\ [Next]_vars => MissingInv'
<1> SUFFICES ASSUME EngineInv, MissingInv, [Next]_vars PROVE MissingInv' OBVIOUS
<1>1. CASE UNCHANGED vars
  BY <1>1, MissingUnchanged DEF vars
<1>2. CASE Stop
  BY <1>2, MissingUnchanged DEF vars, Stop
<1>3. CASE Schedule
  BY <1>3, MissingUnchanged DEF Schedule
<1>4. CASE Exchange
  BY <1>4, MissingUnchanged DEF Exchange
<1> QED
  BY <1>1, <1>2, <1>3, <1>4, MissingCollect, MissingVerify, MissingWorker DEF Next

\* Whatever the architecture, the quantization, the number of devices and of
\* files and the order the workers run in, a checkpoint without a tensor that a
\* layer registers is not served: its part stays undefined on every rank, so
\* is_loaded_ stays false and verify_loaded_weights stops the process.
THEOREM MissingWeightIsDetected == Spec => []MissingWeightDetected
<1>1. MissingInv => MissingWeightDetected
  BY DEF MissingInv, MissingWeightDetected
<1> QED BY <1>1, MissingInit, MissingStep, EngineInvariant, PTL DEF Spec

-----------------------------------------------------------------------------
(* Collectives                                                              *)

\* Between the instructions of two ranks there is no collective: all of them
\* take one in one step.
InStep ==
    stage = "execute_model" =>
        \A r, s \in Ranks : \A j \in Nat :
            Len(env[r]) <= j /\ j < Len(env[s]) => Collective(Prog[j + 1], config.ws) = "none"

\* Ranks that wait in a collective are at the same instruction.
SameInstruction ==
    \A r, s \in Ranks : posted[r] # <<>> /\ posted[s] # <<>> => Len(env[r]) = Len(env[s])

LEMMA Lengths ==
  ASSUME EngineInv
  PROVE  \A r \in Ranks : Len(env[r]) \in Nat
  BY DEF EngineInv, Forwards, IsSequence

LEMMA WaitTogether == EngineInv /\ InStep => SameInstruction
<1> SUFFICES ASSUME EngineInv, InStep, NEW r \in Ranks, NEW s \in Ranks,
                    posted[r] # <<>>, posted[s] # <<>>
             PROVE  Len(env[r]) = Len(env[s])
  BY DEF SameInstruction
<1>1. Len(env[r]) \in Nat /\ Len(env[s]) \in Nat
  BY Lengths
<1>2. /\ stage = "execute_model"
      /\ Collective(Prog[Len(env[r]) + 1], config.ws) # "none"
      /\ Collective(Prog[Len(env[s]) + 1], config.ws) # "none"
  BY DEF EngineInv, Forwards, Posting
<1>3. ~(Len(env[r]) < Len(env[s])) /\ ~(Len(env[s]) < Len(env[r]))
  BY <1>1, <1>2 DEF InStep
<1> QED BY <1>1, <1>3

LEMMA InStepUnchanged ==
  ASSUME InStep, config' = config, env' = env, stage' = stage \/ stage' # "execute_model"
  PROVE  InStep'
<1>1. Ranks' = Ranks /\ Prog' = Prog
  BY DEF Ranks, Prog
<1> QED BY <1>1 DEF InStep

LEMMA InStepForward ==
  ASSUME EngineInv, InStep, NEW r \in Ranks, Forward(r)
  PROVE  InStep'
<1> DEFINE inst == Prog[Len(env[r]) + 1]
<1>1. /\ stage = "execute_model"
      /\ \/ Die
         \/ /\ Collective(inst, config.ws) = "none"
            /\ \E v : env' = [env EXCEPT ![r] = Append(env[r], v)]
            /\ UNCHANGED <<config, stage>>
         \/ UNCHANGED <<env, config, stage>>
  BY ForwardCases
<1>2. CASE UNCHANGED <<env, config, stage>>
  BY <1>2, InStepUnchanged
<1>3. ASSUME NEW v, Collective(inst, config.ws) = "none",
             env' = [env EXCEPT ![r] = Append(env[r], v)], UNCHANGED <<config, stage>>
      PROVE  InStep'
  <2>1. Ranks' = Ranks /\ Prog' = Prog
    BY <1>3 DEF Ranks, Prog
  <2>2. /\ env = [s \in Ranks |-> env[s]] /\ IsSequence(env[r])
        /\ \A s \in Ranks : Len(env[s]) \in Nat
    BY Lengths DEF EngineInv, Forwards
  <2>3. Len(env'[r]) = Len(env[r]) + 1
    <3>1. env'[r] = Append(env[r], v)
      BY <1>3, <2>2
    <3> QED BY <2>2, <3>1, Appended
  <2>4. \A s \in Ranks : s # r => env'[s] = env[s]
    BY <1>3, <2>2
  <2>5. ASSUME NEW p \in Ranks, NEW s \in Ranks, NEW j \in Nat,
               Len(env'[p]) <= j, j < Len(env'[s])
        PROVE  Collective(Prog[j + 1], config.ws) = "none"
    <3>1. Len(env[p]) <= j
      <4>1. CASE p = r
        BY <2>2, <2>3, <2>5, <4>1
      <4>2. CASE p # r
        BY <2>4, <2>5, <4>2
      <4> QED BY <4>1, <4>2
    <3>2. CASE s = r /\ j = Len(env[r])
      BY <1>3, <3>2
    <3>3. CASE ~(s = r /\ j = Len(env[r]))
      <4>1. j < Len(env[s])
        <5>1. CASE s = r
          BY <2>2, <2>3, <2>5, <3>3, <5>1
        <5>2. CASE s # r
          BY <2>4, <2>5, <5>2
        <5> QED BY <5>1, <5>2
      <4> QED BY <1>1, <3>1, <4>1 DEF InStep
    <3> QED BY <3>2, <3>3
  <2> QED BY <1>3, <2>1, <2>5 DEF InStep
<1> QED BY <1>1, <1>2, <1>3 DEF Die

LEMMA InStepExchange == EngineInv /\ InStep /\ Exchange => InStep'
<1> SUFFICES ASSUME EngineInv, InStep, Exchange PROVE InStep' OBVIOUS
<1>1. Ranks' = Ranks
  BY DEF Ranks, Exchange
<1>2. \A r, s \in Ranks : Len(env[r]) = Len(env[s])
  BY WaitTogether DEF SameInstruction, Exchange
<1> DEFINE V(s) == Combined(Len(env[s]) + 1, Prog[Len(env[s]) + 1],
                            params[s][Len(env[s]) + 1],
                            [i \in 1..config.ws |-> posted[i - 1][2]])
<1>3. env' = [s \in Ranks |-> Append(env[s], V(s))]
  BY DEF Exchange
<1> HIDE DEF V
<1>4. ASSUME NEW s \in Ranks PROVE Len(env'[s]) = Len(env[s]) + 1
  <2>1. env'[s] = Append(env[s], V(s)) /\ IsSequence(env[s])
    BY <1>3 DEF EngineInv, Forwards
  <2> QED BY <2>1, Appended
<1>5. \A r, s \in Ranks : \A j \in Nat : ~(Len(env'[r]) <= j /\ j < Len(env'[s]))
  BY <1>2, <1>4, Lengths
<1> QED BY <1>1, <1>5 DEF InStep

LEMMA InStepKept == EngineInv /\ InStep /\ [Next]_vars => InStep'
<1> SUFFICES ASSUME EngineInv, InStep, [Next]_vars PROVE InStep' OBVIOUS
<1>1. CASE UNCHANGED vars \/ Stop
  BY <1>1, InStepUnchanged DEF vars, Stop
<1>2. CASE Schedule
  BY <1>2, InStepUnchanged DEF Schedule
<1>3. CASE Collect
  <2>1. CASE stage' # "execute_model"
    BY <2>1 DEF InStep
  <2>2. CASE stage' = "execute_model"
    <3>1. env' = [r \in Ranks |-> <<>>] /\ Ranks' = Ranks
      BY <1>3, <2>2 DEF Collect, Ranks
    <3>2. \A r \in Ranks : Len(env'[r]) = 0
      BY <3>1
    <3> QED BY <3>1, <3>2 DEF InStep
  <2> QED BY <2>1, <2>2
<1>4. CASE VerifyWeights
  BY <1>4, InStepUnchanged DEF VerifyWeights
<1>5. CASE Exchange
  BY <1>5, InStepExchange
<1>6. ASSUME NEW r \in Ranks, Worker(r) PROVE InStep'
  <2>1. CASE Forward(r)
    BY <2>1, InStepForward
  <2>2. CASE InitModel(r)
    BY <2>2, InStepUnchanged DEF InitModel, Die
  <2>3. CASE LoadStateDict(r)
    BY <2>3, InStepUnchanged DEF LoadStateDict, Die
  <2>4. CASE InitKVCache(r)
    BY <2>4, InStepUnchanged DEF InitKVCache, Die
  <2>5. CASE Return(r)
    BY <2>5, InStepUnchanged DEF Return
  <2> QED BY <1>6, <2>1, <2>2, <2>3, <2>4, <2>5 DEF Worker
<1> QED BY <1>1, <1>2, <1>3, <1>4, <1>5, <1>6 DEF Next

\* Every sum and gather is made of the shares of one instruction: two ranks
\* never wait in collectives of different instructions, although each runs its
\* forward at its own speed (ProcessGroupNCCL::allreduce and allgather match
\* calls by their order alone).
THEOREM SharesOfOneInstruction == Spec => []SameInstruction
<1>1. Init => InStep
  BY DEF Init, InStep
<1> QED BY <1>1, InStepKept, WaitTogether, EngineInvariant, PTL DEF Spec
=============================================================================
