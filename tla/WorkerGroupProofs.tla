------------------------- MODULE WorkerGroupProofs -------------------------
(***************************************************************************)
(* Theorems about WorkerGroup.  SameCollective is not inductive: a rank    *)
(* that comes to a collective could find another there that is one ahead.  *)
(* LockStep excludes it: between the positions of two ranks the plan has   *)
(* no collective, since all of them take a collective in one step.         *)
(***************************************************************************)
EXTENDS WorkerGroup, TLAPS

Positions ==
    plans # <<>> =>
        /\ \A r \in Ranks : ip[r] <= Len(Plan)
        /\ \A r \in waiting : ip[r] < Len(Plan) /\ Plan[ip[r] + 1] # "none"
        /\ \A r \in done : ip[r] = Len(Plan)

LockStep ==
    plans # <<>> =>
        \A r, s \in Ranks : \A j \in Nat :
            ip[r] <= j /\ j < ip[s] => Plan[j + 1] = "none"

Tasks == /\ called \cap done = {}
         /\ called \subseteq 0..(todo - 1) /\ done \subseteq 0..(todo - 1)
         /\ plans = <<>> => waiting = {}

GroupInv == GTypeOK /\ Tasks /\ Positions /\ LockStep

LEMMA PlanType ==
    ASSUME GTypeOK, plans # <<>>
    PROVE  Plan \in Seq(Kinds) /\ Tail(plans) \in Seq(Seq(Kinds)) /\ Len(Plan) \in Nat
  BY DEF GTypeOK, Plan

\* Nobody waits in a collective that another rank has passed.
LEMMA Together ==
    ASSUME GroupInv
    PROVE  SameCollective
<1>1. CASE plans = <<>>
  BY <1>1 DEF GroupInv, Tasks, SameCollective
<1>2. CASE plans # <<>>
  <2>1. /\ waiting \subseteq Ranks /\ done \subseteq Ranks
        /\ \A r \in Ranks : ip[r] \in Nat
    BY DEF GroupInv, GTypeOK
  <2>2. \A r, s \in waiting : ~(ip[r] < ip[s])
    BY <1>2, <2>1 DEF GroupInv, Positions, LockStep
  <2>3. ASSUME NEW r \in waiting, NEW s \in done PROVE FALSE
    <3>1. ip[r] < ip[s] /\ Plan[ip[r] + 1] # "none"
      BY <1>2, <2>1, <2>3 DEF GroupInv, Positions
    <3>2. ip[r] \in Nat /\ r \in Ranks /\ s \in Ranks
      BY <2>1, <2>3
    <3> QED BY <1>2, <3>1, <3>2 DEF GroupInv, LockStep
  <2> QED BY <2>1, <2>2, <2>3 DEF SameCollective
<1> QED BY <1>1, <1>2

LEMMA InitInv == GInit => GroupInv
<1> SUFFICES ASSUME GInit PROVE GroupInv OBVIOUS
<1>1. ws \in 1..N /\ plans \in Seq(Seq(Kinds))
  BY SchedulesAssumption DEF GInit
<1>2. ws \in Nat \ {0}
  BY <1>1, NAssumption
<1>3. GTypeOK
  <2>1. todo \in 0..ws
    BY <1>2 DEF GInit
  <2>2. ip \in [Ranks -> Nat]
    BY DEF GInit
  <2>3. called = {} /\ done = {} /\ waiting = {} /\ dead = FALSE
    BY DEF GInit
  <2> QED BY <1>1, <2>1, <2>2, <2>3 DEF GTypeOK
<1>4. Tasks
  BY <1>2 DEF GInit, Tasks
<1>5. plans # <<>> => Len(Plan) \in Nat
  BY <1>3, PlanType
<1>6. \A r \in Ranks : ip[r] = 0
  BY DEF GInit
<1>7. Positions
  BY <1>5, <1>6 DEF GInit, Positions
<1>8. LockStep
  BY <1>6 DEF LockStep
<1> QED BY <1>3, <1>4, <1>7, <1>8 DEF GroupInv

LEMMA StepInv == GroupInv /\ [GNext]_gvars => GroupInv'
<1> SUFFICES ASSUME GroupInv, [GNext]_gvars PROVE GroupInv' OBVIOUS
<1>t. /\ GTypeOK /\ ws \in Nat \ {0} /\ Ranks = 0..(ws - 1)
      /\ \A r \in Ranks : ip[r] \in Nat
      /\ todo \in Nat
  BY NAssumption DEF GroupInv, GTypeOK, Ranks
<1>p. plans # <<>> => Plan \in Seq(Kinds) /\ Tail(plans) \in Seq(Seq(Kinds)) /\ Len(Plan) \in Nat
  BY <1>t, PlanType
<1>1. CASE UNCHANGED gvars
  BY <1>1 DEF GroupInv, GTypeOK, Tasks, Positions, LockStep, gvars, Ranks, Plan
<1>2. CASE Stopped
  BY <1>1, <1>2 DEF Stopped
<1>3. CASE Call
  <2>1. ws' = ws /\ plans' = plans /\ done' = done /\ ip' = ip /\ waiting' = waiting
    BY <1>3 DEF Call
  <2>2. Ranks' = Ranks /\ Plan' = Plan
    BY <2>1 DEF Ranks, Plan
  <2>3. todo < ws /\ todo' = todo + 1 /\ called' = called \cup {todo} /\ todo \notin done
    BY <1>3, <1>t DEF Call, GroupInv, Tasks
  <2>4. GTypeOK'
    BY <1>3, <1>t, <2>1, <2>2, <2>3 DEF GTypeOK, Call
  <2>5. Tasks'
    BY <1>t, <2>1, <2>3 DEF GroupInv, Tasks
  <2>6. Positions' /\ LockStep'
    BY <2>1, <2>2 DEF GroupInv, Positions, LockStep
  <2> QED BY <2>4, <2>5, <2>6 DEF GroupInv
<1>4. CASE Collected
  <2>1. /\ plans # <<>> /\ ws' = ws /\ plans' = Tail(plans) /\ todo' = 0 /\ done' = {}
        /\ ip' = [r \in Ranks |-> 0] /\ called' = called /\ waiting' = waiting
        /\ dead' = dead /\ done = Ranks
    BY <1>4 DEF Collected, Busy
  <2>2. Ranks' = Ranks
    BY <2>1 DEF Ranks
  <2>3. called = {} /\ waiting = {}
    BY <1>t, <2>1 DEF GTypeOK, GroupInv, Tasks
  <2>4. GTypeOK'
    <3>1. plans' \in Seq(Seq(Kinds)) /\ ip' \in [Ranks -> Nat] /\ todo' \in 0..ws
      BY <1>t, <1>p, <2>1
    <3> QED BY <1>t, <2>1, <2>2, <2>3, <3>1 DEF GTypeOK
  <2>5. Tasks'
    BY <2>1, <2>3 DEF Tasks
  <2>6. \A r \in Ranks : ip'[r] = 0
    BY <2>1
  <2>7. plans' # <<>> => Len(Plan') \in Nat
    <3>1. plans' # <<>> => Head(plans') \in Seq(Kinds)
      BY <2>4 DEF GTypeOK
    <3> QED BY <3>1 DEF Plan
  <2>8. Positions'
    BY <2>1, <2>2, <2>3, <2>6, <2>7 DEF Positions
  <2>9. LockStep'
    BY <2>2, <2>6 DEF LockStep
  <2> QED BY <2>4, <2>5, <2>8, <2>9 DEF GroupInv
<1>5. CASE Meet
  <2>1. /\ plans # <<>> /\ waiting = Ranks /\ waiting' = {}
        /\ ip' = [r \in Ranks |-> ip[r] + 1]
        /\ ws' = ws /\ plans' = plans /\ todo' = todo /\ called' = called
        /\ done' = done /\ dead' = dead
    BY <1>5 DEF Meet, Busy
  <2>2. Ranks' = Ranks /\ Plan' = Plan
    BY <2>1 DEF Ranks, Plan
  <2>3. \A r, s \in Ranks : ip[r] = ip[s]
    BY <2>1, Together DEF SameCollective
  <2>4. done = {}
    BY <1>t, <2>1 DEF GroupInv, GTypeOK, Tasks
  <2>5. \A r \in Ranks : ip[r] < Len(Plan)
    BY <2>1 DEF GroupInv, Positions
  <2>6. \A r \in Ranks : ip'[r] = ip[r] + 1
    BY <2>1
  <2>7. GTypeOK'
    <3>1. ip' \in [Ranks -> Nat]
      BY <1>t, <2>1
    <3> QED BY <1>t, <2>1, <2>2, <3>1 DEF GTypeOK
  <2>8. Tasks'
    BY <2>1 DEF GroupInv, Tasks
  <2>9. Positions'
    BY <1>t, <1>p, <2>1, <2>2, <2>4, <2>5, <2>6 DEF Positions
  <2>10. LockStep'
    BY <1>t, <2>2, <2>3, <2>6 DEF LockStep
  <2> QED BY <2>7, <2>8, <2>9, <2>10 DEF GroupInv
<1>6. CASE Abort
  BY <1>6 DEF Abort, GroupInv, GTypeOK, Tasks, Positions, LockStep, Ranks, Plan
<1>7. ASSUME NEW r \in Ranks, Advance(r) PROVE GroupInv'
  <2>1. /\ plans # <<>> /\ r \in called \ waiting /\ ip[r] < Len(Plan)
        /\ ws' = ws /\ plans' = plans /\ todo' = todo /\ called' = called
        /\ done' = done /\ dead' = dead
    BY <1>7 DEF Advance, Busy
  <2>2. Ranks' = Ranks /\ Plan' = Plan
    BY <2>1 DEF Ranks, Plan
  <2>3. CASE Plan[ip[r] + 1] = "none"
    <3>1. ip' = [ip EXCEPT ![r] = @ + 1] /\ waiting' = waiting
      BY <1>7, <2>3 DEF Advance
    <3>2. GTypeOK' /\ Tasks'
      <4>1. ip' \in [Ranks -> Nat]
        BY <1>t, <3>1 DEF GTypeOK
      <4> QED BY <1>t, <2>1, <2>2, <3>1, <4>1 DEF GTypeOK, GroupInv, Tasks
    <3>3. /\ ip'[r] = ip[r] + 1
          /\ \A s \in Ranks : s # r => ip'[s] = ip[s]
      BY <1>t, <3>1 DEF GTypeOK
    <3>4. Positions'
      <4>1. r \notin waiting /\ r \notin done /\ waiting \subseteq Ranks /\ done \subseteq Ranks
        BY <1>t, <2>1 DEF GroupInv, GTypeOK, Tasks
      <4>2. \A s \in Ranks : ip'[s] <= Len(Plan)
        <5>1. ip'[r] <= Len(Plan)
          BY <1>t, <1>p, <2>1, <3>3
        <5>2. \A s \in Ranks : ip[s] <= Len(Plan)
          BY <2>1 DEF GroupInv, Positions
        <5> QED BY <3>3, <5>1, <5>2
      <4>3. \A s \in waiting : ip'[s] = ip[s]
        BY <3>3, <4>1
      <4>4. \A s \in done : ip'[s] = ip[s]
        BY <3>3, <4>1
      <4> QED BY <2>1, <2>2, <3>1, <4>2, <4>3, <4>4 DEF GroupInv, Positions
    <3>5. LockStep'
      <4> SUFFICES ASSUME NEW s \in Ranks, NEW t \in Ranks, NEW j \in Nat,
                          ip'[s] <= j, j < ip'[t]
                   PROVE  Plan[j + 1] = "none"
        BY <2>2 DEF LockStep
      <4>1. ip[s] <= j
        BY <1>t, <3>3
      <4>2. CASE j < ip[t]
        BY <2>1, <4>1, <4>2 DEF GroupInv, LockStep
      <4>3. CASE ~(j < ip[t])
        <5>1. t = r /\ j = ip[r]
          BY <1>t, <3>3, <4>3
        <5> QED BY <2>3, <5>1
      <4> QED BY <4>2, <4>3
    <3> QED BY <3>2, <3>4, <3>5 DEF GroupInv
  <2>4. CASE Plan[ip[r] + 1] # "none"
    <3>1. ip' = ip /\ waiting' = waiting \cup {r}
      BY <1>7, <2>4 DEF Advance
    <3>2. GTypeOK' /\ Tasks'
      BY <1>t, <2>1, <2>2, <3>1 DEF GTypeOK, GroupInv, Tasks
    <3>3. Positions' /\ LockStep'
      BY <2>1, <2>2, <2>4, <3>1 DEF GroupInv, Positions, LockStep
    <3> QED BY <3>2, <3>3 DEF GroupInv
  <2> QED BY <2>3, <2>4
<1>8. ASSUME NEW r \in Ranks, Finish(r) PROVE GroupInv'
  <2>1. /\ plans # <<>> /\ r \in called \ waiting /\ ip[r] = Len(Plan)
        /\ called' = called \ {r} /\ done' = done \cup {r}
        /\ ws' = ws /\ plans' = plans /\ todo' = todo /\ ip' = ip
        /\ waiting' = waiting /\ dead' = dead
    BY <1>8 DEF Finish, Busy
  <2>2. Ranks' = Ranks /\ Plan' = Plan
    BY <2>1 DEF Ranks, Plan
  <2>3. GTypeOK' /\ Tasks'
    BY <1>t, <2>1, <2>2 DEF GTypeOK, GroupInv, Tasks
  <2>4. Positions' /\ LockStep'
    BY <2>1, <2>2 DEF GroupInv, Positions, LockStep
  <2> QED BY <2>3, <2>4 DEF GroupInv
<1> QED BY <1>1, <1>2, <1>3, <1>4, <1>5, <1>6, <1>7, <1>8 DEF GNext

\* For any number of workers and any plans: ranks that wait at the same time
\* wait in the same collective, and none is finished whom they wait for
\* (ProcessGroupNCCL::allreduce, allgather).
THEOREM CollectivesMatch == GSafety => []SameCollective
<1>1. GroupInv => SameCollective
  BY Together
<1> QED BY <1>1, InitInv, StepInv, PTL DEF GSafety
=============================================================================
