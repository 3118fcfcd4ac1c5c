----------------------- MODULE WorkflowScriptsProofs -----------------------
(***************************************************************************)
(* The workflows of WorkflowScripts have the shape that the theorems of    *)
(* CandidateWorkflowsProofs ask of a workflow, whatever they are started   *)
(* with, so those theorems hold of the workflows the worker registers.     *)
(***************************************************************************)
EXTENDS WorkflowScripts, InteractionStore, Integers, WellFoundedInduction,
        SequenceTheorems, TLAPS

CONSTANTS Runs, Decisions, FollowUps, Edits

VARIABLES tenant, stage, rows, runRow, runs, late, applied, posted

\* Every input: normalize_channels keeps known channels only (CandidateChannel),
\* and _cadence_delays makes every delay a natural number.
Channels == {"email", "linkedin"}

Inputs == [channels : Seq(Channels), addresses : SUBSET Channels, stage : STRING,
           delays : Seq(Nat)]

AllRegistered == UNION {Registered(input) : input \in Inputs}

\* The worker, running them for a candidate.
Worker == INSTANCE CandidateWorkflowsProofs
            WITH Keys <- Channels \X Nat, Workflows <- AllRegistered

\* Activities that leave run and candidate alone.
Plain == {a \in Worker!Activities : a.do \notin {"run", "candidate"}}

----------------------------------------------------------------------------
(* Induction over the natural numbers, for a set, by its least counter-    *)
(* example.                                                                *)

LEMMA LeastNat ==
  ASSUME NEW T \in SUBSET Nat, T # {}
  PROVE \E m \in T : \A k \in T : m <= k
<1> DEFINE R == {ss \in Nat \X Nat : ss[1] < ss[2]}
<1>1. IsWellFoundedOn(R, Nat)
  BY NatLessThanWellFounded DEF OpToRel
<1>2. \A j, k \in Nat : <<j, k>> \in R \/ k <= j
  OBVIOUS
<1> HIDE DEF R
<1>3. PICK m \in T : \A k \in T : ~(<<k, m>> \in R)
  BY <1>1, WFMin
<1>4. \A k \in T : m <= k
  BY <1>2, <1>3, Zenon
<1>5. QED
  BY <1>4

LEMMA NatSetInduction ==
  ASSUME NEW S, 0 \in S, \A n \in Nat : n \in S => n + 1 \in S
  PROVE  Nat \subseteq S
<1> SUFFICES ASSUME Nat \ S # {} PROVE FALSE
  OBVIOUS
<1>1. PICK m \in Nat \ S : \A k \in Nat \ S : m <= k
  BY LeastNat
<1>2. m # 0 /\ m - 1 \in Nat
  BY <1>1
<1>3. m - 1 \in S
  BY <1>1, <1>2
<1>4. QED
  BY <1>1, <1>2, <1>3

----------------------------------------------------------------------------
(* FlattenSeq, whose definition chooses a function with a recursion: there *)
(* is one, and what it returns is a sequence.                              *)

Flat(seqs, f, n) ==
  f = [i \in 1..n |-> IF i = 1 THEN seqs[i] ELSE f[i-1] \o seqs[i]]

LEMMA FlattenExists ==
  ASSUME NEW seqs
  PROVE  \A n \in Nat : \E f : Flat(seqs, f, n)
<1> DEFINE S == {n \in Nat : \E f : Flat(seqs, f, n)}
<1>1. 0 \in S
  <2>1. Flat(seqs, [i \in 1..0 |-> seqs[i]], 0)
    BY DEF Flat
  <2>2. QED
    BY <2>1
<1>2. ASSUME NEW n \in Nat, n \in S
      PROVE  n + 1 \in S
  <2>1. PICK f : Flat(seqs, f, n)
    BY <1>2
  <2> DEFINE g == [i \in 1..(n+1) |->
                     IF i = n + 1 THEN (IF i = 1 THEN seqs[i] ELSE f[i-1] \o seqs[i])
                                  ELSE f[i]]
  <2>2. \A i \in 1..n : g[i] = f[i]
    OBVIOUS
  <2>3. \A i \in 1..n : f[i] = IF i = 1 THEN seqs[i] ELSE f[i-1] \o seqs[i]
    BY <2>1 DEF Flat
  <2>4. \A i \in 1..(n+1) : g[i] = IF i = 1 THEN seqs[i] ELSE g[i-1] \o seqs[i]
    <3> SUFFICES ASSUME NEW i \in 1..(n+1)
                 PROVE  g[i] = IF i = 1 THEN seqs[i] ELSE g[i-1] \o seqs[i]
      OBVIOUS
    <3>1. i # 1 => g[i-1] = f[i-1]
      OBVIOUS
    <3>2. CASE i = n + 1
      BY <3>1, <3>2
    <3>3. CASE i # n + 1
      BY <3>1, <2>3, <3>3
    <3>4. QED
      BY <3>2, <3>3
  <2>5. g = [i \in 1..(n+1) |-> g[i]]
    OBVIOUS
  <2> HIDE DEF g
  <2>6. Flat(seqs, g, n + 1)
    BY <2>4, <2>5 DEF Flat
  <2>7. QED
    BY <2>6
<1> HIDE DEF S
<1>3. Nat \subseteq S
  BY <1>1, <1>2, NatSetInduction
<1>4. QED
  BY <1>3 DEF S

LEMMA FlattenIs ==
  ASSUME NEW seqs, Len(seqs) \in Nat, Len(seqs) # 0
  PROVE  \E f : Flat(seqs, f, Len(seqs)) /\ FlattenSeq(seqs) = f[Len(seqs)]
<1> DEFINE f == CHOOSE g : Flat(seqs, g, Len(seqs))
<1>1. Flat(seqs, f, Len(seqs))
  BY FlattenExists
<1>2. FlattenSeq(seqs) = f[Len(seqs)]
  BY DEF FlattenSeq, Flat
<1>3. QED
  BY <1>1, <1>2

\* Sequences over A flatten to a sequence over A.
LEMMA FlattenSeqType ==
  ASSUME NEW A, NEW seqs \in Seq(Seq(A))
  PROVE  FlattenSeq(seqs) \in Seq(A)
<1>1. Len(seqs) \in Nat /\ \A i \in 1..Len(seqs) : seqs[i] \in Seq(A)
  BY LenProperties, ElementOfSeq
<1>2. CASE Len(seqs) = 0
  <2>1. seqs = <<>>
    BY <1>2, EmptySeq
  <2>2. QED
    BY <1>2, <2>1, EmptySeq DEF FlattenSeq
<1>3. CASE Len(seqs) # 0
  <2>1. PICK f : Flat(seqs, f, Len(seqs)) /\ FlattenSeq(seqs) = f[Len(seqs)]
    BY <1>1, <1>3, FlattenIs
  <2>2. \A i \in 1..Len(seqs) : f[i] = IF i = 1 THEN seqs[i] ELSE f[i-1] \o seqs[i]
    BY <2>1 DEF Flat
  <2> DEFINE S == {n \in Nat : n + 1 \in 1..Len(seqs) => f[n+1] \in Seq(A)}
  <2>3. 0 \in S
    BY <1>1, <2>2
  <2>4. ASSUME NEW n \in Nat, n \in S
        PROVE  n + 1 \in S
    <3> SUFFICES ASSUME n + 2 \in 1..Len(seqs)
                 PROVE  f[n+2] \in Seq(A)
      OBVIOUS
    <3>1. n + 1 \in 1..Len(seqs) /\ f[n+1] \in Seq(A) /\ seqs[n+2] \in Seq(A)
      BY <1>1, <2>4
    <3>2. f[n+2] = f[n+1] \o seqs[n+2]
      <4>1. f[n+2] = IF n + 2 = 1 THEN seqs[n+2] ELSE f[(n+2)-1] \o seqs[n+2]
        BY <2>2
      <4>2. (n + 2) - 1 = n + 1 /\ n + 2 # 1
        OBVIOUS
      <4>3. QED
        BY <4>1, <4>2
    <3>3. QED
      BY <3>1, <3>2, ConcatProperties
  <2> HIDE DEF S
  <2>5. Nat \subseteq S
    BY <2>3, <2>4, NatSetInduction
  <2>6. Len(seqs) - 1 \in S
    BY <1>1, <1>3, <2>5
  <2>7. QED
    BY <1>1, <1>3, <2>1, <2>6 DEF S
<1>4. QED
  BY <1>2, <1>3

----------------------------------------------------------------------------
(* The shape of a script, from its parts.                                  *)

IsFinal(a) == a.do = "run" /\ a.arg \in Worker!Final
IsStage(a) == a.do = "candidate"

\* What the assumptions of CandidateWorkflows say of one script.
MessagesFirst(script) ==
  \A i, j \in 1..Len(script) :
    IsStage(script[i]) /\ script[i].arg = "contacted" /\ script[j].do = "append" => j < i

NoStageAgain(script) ==
  \A i, j, k \in 1..Len(script) :
    i < j /\ j < k /\ IsStage(script[i]) /\ IsStage(script[j]) /\ IsStage(script[k])
      => script[i].arg # script[k].arg

Shaped(script) ==
  Worker!WellFormed(script) /\ MessagesFirst(script) /\ NoStageAgain(script)

\* Where the elements of s come from.
FromParts(s, head, middle, tail) ==
  /\ Len(s) = Len(head) + Len(middle) + Len(tail)
  /\ \A i \in 1..Len(s) :
       \/ i \in 1..Len(head) /\ s[i] = head[i]
       \/ \E m \in 1..Len(middle) : i = Len(head) + m /\ s[i] = middle[m]
       \/ \E t \in 1..Len(tail) : i = Len(head) + Len(middle) + t /\ s[i] = tail[t]

LEMMA Parts ==
  ASSUME NEW A, NEW head \in Seq(A), NEW middle \in Seq(A), NEW tail \in Seq(A)
  PROVE  /\ (head \o middle) \o tail \in Seq(A)
         /\ FromParts((head \o middle) \o tail, head, middle, tail)
<1> SUFFICES ASSUME NEW s, s = (head \o middle) \o tail
             PROVE  s \in Seq(A) /\ FromParts(s, head, middle, tail)
  OBVIOUS
<1> DEFINE front == head \o middle
<1>1. Len(head) \in Nat /\ Len(middle) \in Nat /\ Len(tail) \in Nat
  BY LenProperties
<1>2. /\ front \in Seq(A)
      /\ Len(front) = Len(head) + Len(middle)
      /\ \A i \in 1..Len(front) :
           front[i] = IF i <= Len(head) THEN head[i] ELSE middle[i - Len(head)]
  BY ConcatProperties
<1>0. s = front \o tail
  OBVIOUS
<1> HIDE DEF front
<1>3. /\ s \in Seq(A)
      /\ Len(s) = Len(front) + Len(tail)
      /\ \A i \in 1..Len(s) :
           s[i] = IF i <= Len(front) THEN front[i] ELSE tail[i - Len(front)]
  <2>1. front \in Seq(A) /\ tail \in Seq(A)
    BY <1>2
  <2>2. /\ front \o tail \in Seq(A)
        /\ Len(front \o tail) = Len(front) + Len(tail)
        /\ \A i \in 1 .. Len(front) + Len(tail) :
             (front \o tail)[i] = IF i <= Len(front) THEN front[i]
                                                      ELSE tail[i - Len(front)]
    BY <2>1, ConcatProperties, Zenon
  <2>3. QED
    BY <1>0, <2>2
<1>4. ASSUME NEW i \in 1..Len(s)
      PROVE  \/ i \in 1..Len(head) /\ s[i] = head[i]
             \/ \E m \in 1..Len(middle) : i = Len(head) + m /\ s[i] = middle[m]
             \/ \E t \in 1..Len(tail) :
                  i = Len(head) + Len(middle) + t /\ s[i] = tail[t]
  <2>1. CASE i <= Len(head)
    BY <1>1, <1>2, <1>3, <2>1
  <2>2. CASE Len(head) < i /\ i <= Len(front)
    <3>1. s[i] = middle[i - Len(head)]
      BY <1>1, <1>2, <1>3, <2>2
    <3>2. i - Len(head) \in 1..Len(middle) /\ i = Len(head) + (i - Len(head))
      BY <1>1, <1>2, <2>2
    <3>3. QED
      BY <3>1, <3>2
  <2>3. CASE Len(front) < i
    <3>1. s[i] = tail[i - Len(front)]
      BY <1>1, <1>2, <1>3, <2>3
    <3>2. i - Len(front) \in 1..Len(tail) /\ i = Len(front) + (i - Len(front))
      BY <1>1, <1>2, <1>3, <2>3
    <3>3. QED
      BY <1>2, <3>1, <3>2
  <2>4. QED
    BY <1>1, <1>2, <2>1, <2>2, <2>3
<1>5. QED
  BY <1>1, <1>2, <1>3, <1>4 DEF FromParts

\* A first part of a script: it ends nothing and contacts nobody, and leaves
\* each of its stages, also with the next stage, for good.
Opening(head, next) ==
  /\ \A i \in 1..Len(head) :
       /\ ~IsFinal(head[i])
       /\ ~(IsStage(head[i]) /\ head[i].arg = "contacted")
  /\ \A i, j \in 1..Len(head) :
       i < j /\ IsStage(head[i]) /\ IsStage(head[j]) =>
         head[i].arg # head[j].arg /\ head[i].arg # next

\* A last part: at most its first activity writes a stage, its last one and no
\* other ends the run, and there is nothing left to prepare.
Closing(tail) ==
  /\ tail # <<>>
  /\ \A i \in 1..Len(tail) :
       /\ IsFinal(tail[i]) <=> i = Len(tail)
       /\ tail[i].do # "append"
       /\ IsStage(tail[i]) => i = 1

\* Whatever plain activities come between them, such parts make a script of
\* the shape.
LEMMA ShapeOfParts ==
  ASSUME NEW head \in Seq(Worker!Activities), NEW middle \in Seq(Plain),
         NEW tail \in Seq(Worker!Activities),
         Opening(head, tail[1].arg), Closing(tail)
  PROVE  Shaped((head \o middle) \o tail)
<1> SUFFICES ASSUME NEW s, s = (head \o middle) \o tail
             PROVE  Shaped(s)
  OBVIOUS
<1>1. middle \in Seq(Worker!Activities) /\ \A m \in 1..Len(middle) : middle[m] \in Plain
  BY ElementOfSeq, SeqMonotonic DEF Plain
<1>2. s \in Seq(Worker!Activities) /\ FromParts(s, head, middle, tail)
  BY <1>1, Parts
<1>3. PICK lh \in Nat, lm \in Nat, lt \in Nat :
        lh = Len(head) /\ lm = Len(middle) /\ lt = Len(tail) /\ lt # 0
  BY LenProperties, EmptySeq DEF Closing
<1>4. /\ Len(s) = lh + lm + lt
      /\ \A i \in 1..Len(s) :
           \/ i \in 1..lh /\ s[i] = head[i]
           \/ \E m \in 1..lm : i = lh + m /\ s[i] = middle[m]
           \/ \E t \in 1..lt : i = lh + lm + t /\ s[i] = tail[t]
  BY <1>2, <1>3 DEF FromParts
<1>5. DOMAIN s = 1..Len(s)
  BY <1>2, LenProperties
<1>6. \A i \in 1..lh : ~IsFinal(head[i]) /\ ~(IsStage(head[i]) /\ head[i].arg = "contacted")
  BY <1>3 DEF Opening
<1>7. \A m \in 1..lm : ~IsFinal(middle[m]) /\ ~IsStage(middle[m])
  BY <1>1, <1>3 DEF Plain, IsFinal, IsStage
<1>8. \A t \in 1..lt : /\ IsFinal(tail[t]) <=> t = lt
                       /\ tail[t].do # "append"
                       /\ IsStage(tail[t]) => t = 1
  BY <1>3 DEF Closing
<1>9. Worker!WellFormed(s)
  <2>1. ASSUME NEW i \in 1..Len(s)
        PROVE  IsFinal(s[i]) <=> i = Len(s)
    <3>1. CASE i \in 1..lh /\ s[i] = head[i]
      BY <1>3, <1>4, <1>6, <3>1
    <3>2. ASSUME NEW m \in 1..lm, i = lh + m, s[i] = middle[m]
          PROVE  IsFinal(s[i]) <=> i = Len(s)
      BY <1>3, <1>4, <1>7, <3>2
    <3>3. ASSUME NEW t \in 1..lt, i = lh + lm + t, s[i] = tail[t]
          PROVE  IsFinal(s[i]) <=> i = Len(s)
      <4>1. i = Len(s) <=> t = lt
        BY <1>4, <3>3
      <4>2. QED
        BY <1>8, <3>3, <4>1
    <3>4. QED
      BY <1>4, <3>1, <3>2, <3>3
  <2>2. s # <<>>
    BY <1>3, <1>4, EmptySeq
  <2>3. QED
    BY <1>2, <2>1, <2>2 DEF Worker!WellFormed, IsFinal
<1>10. MessagesFirst(s)
  <2>1. ASSUME NEW i \in 1..Len(s), NEW j \in 1..Len(s),
               IsStage(s[i]), s[i].arg = "contacted", s[j].do = "append"
        PROVE  j < i
    <3>1. PICK t \in 1..lt : i = lh + lm + t
      BY <1>4, <1>6, <1>7, <2>1
    <3>2. ~ \E u \in 1..lt : j = lh + lm + u /\ s[j] = tail[u]
      BY <1>8, <2>1, Zenon
    <3>3. j \in 1..lh \/ \E m \in 1..lm : j = lh + m
      BY <1>4, <3>2, Zenon
    <3>4. QED
      BY <3>1, <3>3
  <2>2. QED
    BY <2>1 DEF MessagesFirst
<1>11. NoStageAgain(s)
  <2>1. ASSUME NEW i \in 1..Len(s), IsStage(s[i])
        PROVE  \/ i \in 1..lh /\ s[i] = head[i]
               \/ i = lh + lm + 1 /\ s[i] = tail[1]
    BY <1>4, <1>7, <1>8, <2>1
  <2> USE DEF NoStageAgain
  <2> TAKE i, j, k \in 1..Len(s)
  <2>2. HAVE i < j /\ j < k /\ IsStage(s[i]) /\ IsStage(s[j]) /\ IsStage(s[k])
  <2>3. /\ i \in 1..lh \/ i = lh + lm + 1
        /\ j \in 1..lh \/ j = lh + lm + 1
        /\ k \in 1..lh \/ k = lh + lm + 1
    BY <2>1, <2>2, Zenon
  <2>4. i # lh + lm + 1 /\ j # lh + lm + 1
    BY <2>2, <2>3
  <2>5. j \in 1..lh /\ s[j] = head[j]
    BY <2>1, <2>2, <2>4, Zenon
  <2>6. i \in 1..lh /\ s[i] = head[i]
    BY <2>1, <2>2, <2>4, Zenon
  <2>7. CASE k \in 1..lh /\ s[k] = head[k]
    <3>1. i < k
      BY <2>2
    <3>2. QED
      BY <1>3, <2>2, <2>6, <2>7, <3>1 DEF Opening
  <2>8. CASE s[k] = tail[1]
    BY <1>3, <2>2, <2>5, <2>6, <2>8 DEF Opening
  <2>9. QED
    BY <2>1, <2>2, <2>7, <2>8
<1>12. QED
  BY <1>9, <1>10, <1>11 DEF Shaped

----------------------------------------------------------------------------
(* The scripts, each from its parts.                                       *)

\* The activities a script may name.
Stagings == {Stage(s) : s \in Worker!Stages}

Notes ==
  {Audit("candidate.lifecycle_completed"), Audit("candidate.ingested"),
   Audit("candidate.enriched"), Audit("candidate.qualified"),
   Audit("candidate.outreach_routed"), Audit("candidate.follow_up_scheduled"),
   Audit("candidate.follow_up_due"), Audit("candidate.closed"), Audit("tenant.onboarded")}

Others ==
  {Activity("agent", "enrich"), Activity("agent", "classify"), Activity("agent", "render"),
   Activity("sleep", ""), Activity("tenant", "onboarded")}

LEMMA Kinds ==
  /\ {Running, Completed, Activity("run", "Skipped")} \subseteq Worker!Activities
  /\ Stagings \subseteq Worker!Activities
  /\ Notes \cup Others \subseteq Plain
  /\ Plain \subseteq Worker!Activities
<1>1. {Running, Completed, Activity("run", "Skipped")} \subseteq Worker!Activities
  BY DEF Running, Completed, Activity, Worker!Activities, Worker!Final
<1>2. Stagings \subseteq Worker!Activities
  <2>1. \A s \in Worker!Stages :
          Stage(s) \in [do : {"candidate"}, arg : Worker!Stages, step : {0}]
    BY DEF Stage, Activity
  <2>2. QED
    BY <2>1 DEF Stagings, Worker!Activities
<1>3. Notes \subseteq Plain
  BY DEF Notes, Audit, Activity, Plain, Worker!Activities, Worker!Events
<1>4. Others \subseteq Plain
  <2>1. {Activity("agent", "enrich"), Activity("agent", "classify"),
         Activity("agent", "render")}
          \subseteq [do : {"agent"}, arg : Worker!Prompts, step : {0}]
    BY DEF Activity, Worker!Prompts
  <2>2. {Activity("sleep", ""), Activity("tenant", "onboarded")}
          \subseteq [do : {"tenant", "sleep"}, arg : {"onboarded", ""}, step : {0}]
    BY DEF Activity
  <2>3. Others \subseteq Worker!Activities
    BY <2>1, <2>2 DEF Others, Worker!Activities
  <2>4. \A a \in Others : a.do # "run" /\ a.do # "candidate"
    BY <2>1, <2>2 DEF Others
  <2>5. QED
    BY <2>3, <2>4 DEF Plain
<1>5. Plain \subseteq Worker!Activities
  BY DEF Plain
<1>6. QED
  BY <1>1, <1>2, <1>3, <1>4, <1>5

LEMMA MessageKinds ==
  ASSUME NEW channel \in Channels, NEW n \in Nat
  PROVE  Activity("post", channel) \in Plain /\ Interaction(channel, n) \in Plain
<1> DEFINE keys == Channels \X Nat
<1>1. <<channel, n>> \in keys /\ <<channel, 0>> \in keys
  OBVIOUS
<1>2. /\ channel \in {k[1] : k \in keys}
      /\ n \in {k[2] : k \in keys}
      /\ 0 \in {k[2] : k \in keys}
  <2>1. <<channel, n>>[1] = channel /\ <<channel, n>>[2] = n /\ <<channel, 0>>[2] = 0
    OBVIOUS
  <2>2. QED
    BY <1>1, <2>1, Zenon
<1> HIDE DEF keys
<1>3. Activity("post", channel) \in
        {a \in [do : {"append", "post"}, arg : {k[1] : k \in keys},
                step : {k[2] : k \in keys}] : <<a.arg, a.step>> \in keys}
  BY <1>1, <1>2 DEF Activity
<1>4. Interaction(channel, n) \in
        {a \in [do : {"append", "post"}, arg : {k[1] : k \in keys},
                step : {k[2] : k \in keys}] : <<a.arg, a.step>> \in keys}
  BY <1>1, <1>2 DEF Interaction
<1>5. Activity("post", channel).do = "post" /\ Interaction(channel, n).do = "append"
  BY DEF Activity, Interaction
<1>6. QED
  BY <1>3, <1>4, <1>5 DEF Plain, Worker!Activities, keys

\* Ways to begin and to end.
LEMMA Beginnings ==
  /\ <<Running>> \in Seq(Worker!Activities)
  /\ \A next : Opening(<<Running>>, next)
  /\ \A s \in Worker!Stages : <<Running, Stage(s)>> \in Seq(Worker!Activities)
  /\ \A s \in Worker!Stages :
       s # "contacted" => \A next : Opening(<<Running, Stage(s)>>, next)
<1>1. Running \in Worker!Activities /\ \A s \in Worker!Stages : Stage(s) \in Worker!Activities
  BY Kinds DEF Stagings
<1>2. \A next : Opening(<<Running>>, next)
  BY DEF Opening, IsFinal, IsStage, Running, Activity, Worker!Final
<1>3. ASSUME NEW s, NEW next, s # "contacted"
      PROVE  Opening(<<Running, Stage(s)>>, next)
  BY <1>3 DEF Opening, IsFinal, IsStage, Running, Stage, Activity, Worker!Final
<1>4. QED
  BY <1>1, <1>2, <1>3

LEMMA Endings ==
  ASSUME NEW s \in Worker!Stages, NEW note \in Notes
  PROVE  /\ <<Stage(s), note, Completed>> \in Seq(Worker!Activities)
         /\ Closing(<<Stage(s), note, Completed>>)
         /\ <<note, Completed>> \in Seq(Worker!Activities)
         /\ Closing(<<note, Completed>>)
         /\ <<Completed>> \in Seq(Worker!Activities)
         /\ Closing(<<Completed>>)
<1>1. {Stage(s), note, Completed} \subseteq Worker!Activities
  BY Kinds DEF Stagings
<1>2. note.do = "audit"
  BY DEF Notes, Audit, Activity
<1>3. Stage(s).do = "candidate" /\ Completed.do = "run" /\ IsFinal(Completed)
  BY DEF Stage, Completed, Activity, IsFinal, Worker!Final
<1>4. /\ ~IsFinal(note) /\ ~IsFinal(Stage(s))
      /\ ~IsStage(note) /\ ~IsStage(Completed)
  BY <1>2, <1>3 DEF IsFinal, IsStage
<1>5. Closing(<<Stage(s), note, Completed>>)
  BY <1>2, <1>3, <1>4 DEF Closing
<1>6. Closing(<<note, Completed>>)
  BY <1>2, <1>3, <1>4 DEF Closing
<1>7. Closing(<<Completed>>)
  BY <1>2, <1>3, <1>4 DEF Closing
<1>8. QED
  BY <1>1, <1>5, <1>6, <1>7

\* The workflows that do one thing.
LEMMA ShapeOfSimple ==
  ASSUME NEW middle \in Seq(Plain), NEW s \in Worker!Stages, NEW note \in Notes
  PROVE  Shaped((<<Running>> \o middle) \o <<Stage(s), note, Completed>>)
BY Beginnings, Endings, ShapeOfParts

LEMMA SimpleShapes ==
  ASSUME NEW input
  PROVE  /\ Shaped(Ingest(input).script)
         /\ Shaped(Enrichment(input).script)
         /\ Shaped(Qualification(input).script)
         /\ Shaped(Closure(input).script)
         /\ Shaped(TenantOnboarding.script)
<1>1. /\ {"ingested", "enriched", "qualified", "closed"} \subseteq Worker!Stages
      /\ {Audit("candidate.ingested"), Audit("candidate.enriched"),
          Audit("candidate.qualified"), Audit("candidate.closed"),
          Audit("tenant.onboarded")} \subseteq Notes
      /\ <<>> \in Seq(Plain)
      /\ <<Activity("agent", "enrich")>> \in Seq(Plain)
      /\ <<Activity("agent", "classify")>> \in Seq(Plain)
  <2>1. {"ingested", "enriched", "qualified", "closed"} \subseteq Worker!Stages
    BY DEF Worker!Stages
  <2>2. {Audit("candidate.ingested"), Audit("candidate.enriched"),
         Audit("candidate.qualified"), Audit("candidate.closed"),
         Audit("tenant.onboarded")} \subseteq Notes
    BY DEF Notes
  <2>3. Activity("agent", "enrich") \in Plain /\ Activity("agent", "classify") \in Plain
    BY Kinds DEF Others
  <2>4. QED
    BY <2>1, <2>2, <2>3
<1>2. Shaped(Ingest(input).script)
  <2>1. Ingest(input).script =
          (<<Running>> \o <<>>)
            \o <<Stage("ingested"), Audit("candidate.ingested"), Completed>>
    BY DEF Ingest, Workflow
  <2>2. QED
    BY <1>1, <2>1, ShapeOfSimple
<1>3. Shaped(Enrichment(input).script)
  <2>1. Enrichment(input).script =
          (<<Running>> \o <<Activity("agent", "enrich")>>)
            \o <<Stage("enriched"), Audit("candidate.enriched"), Completed>>
    BY DEF Enrichment, Workflow
  <2>2. QED
    BY <1>1, <2>1, ShapeOfSimple
<1>4. Shaped(Qualification(input).script)
  <2>1. Qualification(input).script =
          (<<Running>> \o <<Activity("agent", "classify")>>)
            \o <<Stage("qualified"), Audit("candidate.qualified"), Completed>>
    BY DEF Qualification, Workflow
  <2>2. QED
    BY <1>1, <2>1, ShapeOfSimple
<1>5. Shaped(Closure(input).script)
  <2>1. Closure(input).script =
          (<<Running>> \o <<>>)
            \o <<Stage("closed"), Audit("candidate.closed"), Completed>>
    BY DEF Closure, Workflow
  <2>2. QED
    BY <1>1, <2>1, ShapeOfSimple
<1>6. Shaped(TenantOnboarding.script)
  <2> DEFINE head == <<Activity("tenant", "onboarded"), Running>>
             tail == <<Audit("tenant.onboarded"), Completed>>
  <2>1. TenantOnboarding.script = (head \o <<>>) \o tail
    BY DEF TenantOnboarding, Workflow
  <2>2. head \in Seq(Worker!Activities)
    <3>1. Activity("tenant", "onboarded") \in Worker!Activities /\ Running \in Worker!Activities
      BY Kinds DEF Others
    <3>2. QED
      BY <3>1
  <2>3. Opening(head, tail[1].arg)
    BY DEF Opening, IsFinal, IsStage, Running, Activity, Worker!Final
  <2>4. tail \in Seq(Worker!Activities) /\ Closing(tail)
    <3>1. "closed" \in Worker!Stages
      BY <1>1
    <3>2. QED
      BY <1>1, <3>1, Endings
  <2> HIDE DEF head, tail
  <2>5. QED
    BY <1>1, <2>1, <2>2, <2>3, <2>4, ShapeOfParts
<1>7. QED
  BY <1>2, <1>3, <1>4, <1>5, <1>6

----------------------------------------------------------------------------
(* The workflows whose scripts depend on the input.                        *)

LEMMA FunctionIsSeq ==
  ASSUME NEW S, NEW n \in Nat, NEW f \in [1..n -> S]
  PROVE  f \in Seq(S)
BY SeqDef

\* A first contact is plain activities.
LEMMA ContactPlain ==
  ASSUME NEW input \in Inputs, NEW channel \in Channels, NEW draft \in Seq(Plain)
  PROVE  Contact(input, channel, draft) \in Seq(Plain)
<1>1. Activity("post", channel) \in Plain /\ Interaction(channel, 0) \in Plain
  BY MessageKinds
<1>2. <<Activity("post", channel), Interaction(channel, 0)>> \in Seq(Plain)
  BY <1>1
<1>3. draft \o <<Activity("post", channel), Interaction(channel, 0)>> \in Seq(Plain)
  BY <1>2, ConcatProperties
<1>4. QED
  BY <1>3, EmptySeq DEF Contact, When

\* So is a step of the cadence.
LEMMA CadencePlain ==
  ASSUME NEW input \in Inputs, NEW i \in Nat
  PROVE  CadenceStep(input, i) \in Seq(Plain)
<1> DEFINE wait == When(input.delays[i] # 0, <<Activity("sleep", "")>>)
           messages == [c \in DOMAIN input.channels |-> Interaction(input.channels[c], i)]
           done == <<Audit("candidate.follow_up_due")>>
<1>1. Activity("sleep", "") \in Plain /\ Audit("candidate.follow_up_due") \in Plain
  BY Kinds DEF Others, Notes
<1>2. wait \in Seq(Plain) /\ done \in Seq(Plain)
  <2>1. done \in Seq(Plain) /\ <<Activity("sleep", "")>> \in Seq(Plain)
    <3>1. \A a \in Plain : <<a>> \in Seq(Plain)
      OBVIOUS
    <3>2. QED
      BY <1>1, <3>1, Zenon
  <2>2. QED
    BY <2>1, EmptySeq DEF When
<1>3. messages \in Seq(Plain)
  <2>1. input.channels \in Seq(Channels)
    BY DEF Inputs
  <2>2. /\ Len(input.channels) \in Nat
        /\ DOMAIN input.channels = 1..Len(input.channels)
        /\ \A c \in 1..Len(input.channels) : input.channels[c] \in Channels
    BY <2>1, LenProperties, ElementOfSeq
  <2>3. messages \in [1..Len(input.channels) -> Plain]
    BY <2>2, MessageKinds
  <2> HIDE DEF messages
  <2>4. QED
    BY <2>2, <2>3, FunctionIsSeq
<1>4. CadenceStep(input, i) = (wait \o messages) \o done
  BY DEF CadenceStep
<1> HIDE DEF wait, messages, done
<1>5. wait \o messages \in Seq(Plain)
  BY <1>2, <1>3, ConcatProperties
<1>6. QED
  BY <1>2, <1>4, <1>5, ConcatProperties

LEMMA LifecycleShape ==
  ASSUME NEW input \in Inputs
  PROVE  Shaped(Lifecycle(input).script)
<1> DEFINE head ==
             <<Running,
               Stage("ingested"),
               Activity("agent", "enrich"),   Stage("enriched"),
               Activity("agent", "classify"), Stage("qualified"),
               Stage("ready_to_contact")>>
           render == <<Activity("agent", "render")>>
           email == Contact(input, "email", render)
           linkedin == Contact(input, "linkedin", render)
           last == IF input.channels = <<>> THEN "closed" ELSE "contacted"
           tail == <<Stage(last), Audit("candidate.lifecycle_completed"), Completed>>
<1>1. email \in Seq(Plain) /\ linkedin \in Seq(Plain)
  <2>1. render \in Seq(Plain)
    <3>1. Activity("agent", "render") \in Plain
      BY Kinds DEF Others
    <3>2. QED
      BY <3>1
  <2>2. QED
    BY <2>1, ContactPlain DEF Channels
<1>2. head \in Seq(Worker!Activities)
  <2>1. {"ingested", "enriched", "qualified", "ready_to_contact"} \subseteq Worker!Stages
    BY DEF Worker!Stages
  <2>2. /\ Running \in Worker!Activities
        /\ Activity("agent", "enrich") \in Worker!Activities
        /\ Activity("agent", "classify") \in Worker!Activities
        /\ Stage("ingested") \in Worker!Activities
        /\ Stage("enriched") \in Worker!Activities
        /\ Stage("qualified") \in Worker!Activities
        /\ Stage("ready_to_contact") \in Worker!Activities
    BY <2>1, Kinds DEF Stagings, Others
  <2>3. QED
    BY <2>2
<1>3. last \in Worker!Stages /\ last \in {"closed", "contacted"}
  BY DEF Worker!Stages
<1>4. Opening(head, last)
  BY <1>3 DEF Opening, IsFinal, IsStage, Running, Stage, Activity, Worker!Final
<1>5. /\ tail \in Seq(Worker!Activities) /\ Closing(tail)
      /\ tail[1].arg = last
  <2>1. Audit("candidate.lifecycle_completed") \in Notes
    BY DEF Notes
  <2>2. tail[1].arg = last
    BY DEF Stage, Activity
  <2> HIDE DEF last
  <2>3. QED
    BY <1>3, <2>1, <2>2, Endings
<1>6. Lifecycle(input).script = ((head \o email) \o linkedin) \o tail
  BY DEF Lifecycle, Workflow, LifecycleScript
<1> HIDE DEF head, email, linkedin, last, tail
<1>7. (head \o email) \o linkedin = head \o (email \o linkedin)
  <2>1. email \in Seq(Worker!Activities) /\ linkedin \in Seq(Worker!Activities)
    BY <1>1, Kinds, SeqMonotonic
  <2>2. QED
    BY <1>2, <2>1, ConcatAssociative
<1>8. email \o linkedin \in Seq(Plain)
  BY <1>1, ConcatProperties
<1>9. Shaped((head \o (email \o linkedin)) \o tail)
  BY <1>2, <1>4, <1>5, <1>8, ShapeOfParts
<1>10. QED
  BY <1>6, <1>7, <1>9

LEMMA TwoParts ==
  ASSUME NEW A, NEW a, NEW b, <<a>> \in Seq(A), <<b>> \in Seq(A), <<a, b>> \in Seq(A)
  PROVE  <<a>> \o <<b>> = <<a, b>>
<1> DEFINE s == <<a>> \o <<b>>
           t == <<a, b>>
<1>1. Len(<<a>>) = 1 /\ Len(<<b>>) = 1 /\ Len(t) = 2
  OBVIOUS
<1>2. /\ s \in Seq(A)
      /\ Len(s) = Len(<<a>>) + Len(<<b>>)
      /\ \A i \in 1 .. Len(<<a>>) + Len(<<b>>) :
           s[i] = IF i <= Len(<<a>>) THEN <<a>>[i] ELSE <<b>>[i - Len(<<a>>)]
  BY ConcatProperties, Zenon
<1> HIDE DEF s
<1>3. Len(s) = 2 /\ s[1] = a /\ s[2] = b
  BY <1>1, <1>2
<1>4. \A i \in 1..Len(s) : s[i] = t[i]
  BY <1>3
<1>5. t \in Seq(A) /\ Len(s) = Len(t)
  BY <1>1, <1>3
<1> HIDE DEF t
<1>6. s = t
  BY <1>2, <1>4, <1>5, SeqEqual
<1>7. QED
  BY <1>6 DEF s, t

\* Five sequences one after the other, bracketed as the script is written and
\* as its parts are taken. Named, like the law below, so that the provers take
\* the equation as it stands when a lemma about it is used.
Regrouped(a, b, c, d, e) == a \o (((b \o c) \o d) \o e) = ((a \o b) \o (c \o d)) \o e

\* Concatenation of sequences over A is associative.
Associates(A) == \A x, y, z \in Seq(A) : (x \o y) \o z = x \o (y \o z)

LEMMA ConcatAssociates == \A A : Associates(A)
BY SMTT(30) DEF Associates

LEMMA Regroup ==
  ASSUME NEW A, NEW a \in Seq(A), NEW b \in Seq(A), NEW c \in Seq(A), NEW d \in Seq(A),
         NEW e \in Seq(A)
  PROVE  Regrouped(a, b, c, d, e)
<1> DEFINE Cat(x, y) == x \o y
<1>1. \A x, y \in Seq(A) : Cat(x, y) \in Seq(A)
  OBVIOUS
<1>2. \A x, y, z \in Seq(A) : Cat(Cat(x, y), z) = Cat(x, Cat(y, z))
  <2>1. Associates(A)
    BY ConcatAssociates, Zenon
  <2>2. QED
    BY <2>1, Zenon DEF Associates
<1> HIDE DEF Cat
<1>3. Cat(a, Cat(Cat(Cat(b, c), d), e)) = Cat(Cat(Cat(a, b), Cat(c, d)), e)
  BY <1>1, <1>2
<1>4. QED
  BY <1>3 DEF Cat, Regrouped

LEMMA OutreachShape ==
  ASSUME NEW input \in Inputs
  PROVE  Shaped(Outreach(input).script)
<1>1. Outreach(input).script = OutreachScript(input)
  BY DEF Outreach, Workflow
<1>2. CASE input.stage = "closed"
  <2> DEFINE tail == <<Activity("run", "Skipped")>>
  <2>1. OutreachScript(input) = (<<Running>> \o <<>>) \o tail
    BY <1>2 DEF OutreachScript
  <2>2. tail \in Seq(Worker!Activities)
    <3>1. Activity("run", "Skipped") \in Worker!Activities
      BY Kinds
    <3>2. QED
      BY <3>1
  <2>3. Closing(tail)
    BY DEF Closing, IsFinal, IsStage, Activity, Worker!Final
  <2> HIDE DEF tail
  <2>4. <<>> \in Seq(Plain)
    BY EmptySeq
  <2>5. QED
    BY <1>1, <2>1, <2>2, <2>3, <2>4, Beginnings, ShapeOfParts
<1>3. CASE input.stage # "closed"
  <2> DEFINE running == <<Running>>
             ready == <<Stage("ready_to_contact")>>
             email == Contact(input, "email", <<>>)
             linkedin == Contact(input, "linkedin", <<>>)
             last == IF input.channels = <<>> THEN "ready_to_contact" ELSE "contacted"
             tail == <<Stage(last), Audit("candidate.outreach_routed"), Completed>>
             head == running \o ready
             messages == email \o linkedin
  <2>1. email \in Seq(Plain) /\ linkedin \in Seq(Plain)
    <3>1. <<>> \in Seq(Plain)
      BY EmptySeq
    <3>2. QED
      BY <3>1, ContactPlain DEF Channels
  <2>2. last \in Worker!Stages /\ "ready_to_contact" \in Worker!Stages
    BY DEF Worker!Stages
  <2>3. tail \in Seq(Worker!Activities) /\ Closing(tail)
    <3>1. Audit("candidate.outreach_routed") \in Notes
      BY DEF Notes
    <3> HIDE DEF last
    <3>2. QED
      BY <2>2, <3>1, Endings
  <2>4. running \in Seq(Worker!Activities) /\ ready \in Seq(Worker!Activities)
    <3>1. Stage("ready_to_contact") \in Worker!Activities
      BY <2>2, Kinds DEF Stagings
    <3>2. ready \in Seq(Worker!Activities)
      BY <3>1
    <3>3. QED
      BY <3>2, Beginnings
  <2>5. head \in Seq(Worker!Activities) /\ Opening(head, tail[1].arg)
    <3>1. <<Running, Stage("ready_to_contact")>> \in Seq(Worker!Activities)
      BY <2>2, Beginnings
    <3>2. head = <<Running, Stage("ready_to_contact")>>
      BY <2>4, <3>1, TwoParts
    <3> HIDE DEF head, tail
    <3>3. QED
      BY <2>2, <3>1, <3>2, Beginnings
  <2>6. OutreachScript(input) = running \o (((ready \o email) \o linkedin) \o tail)
    BY <1>3 DEF OutreachScript
  <2> HIDE DEF running, ready, email, linkedin, last, tail
  <2>7. messages \in Seq(Plain)
    BY <2>1, ConcatProperties
  <2>8. OutreachScript(input) = (head \o messages) \o tail
    <3>1. email \in Seq(Worker!Activities) /\ linkedin \in Seq(Worker!Activities)
      BY <2>1, Kinds, SeqMonotonic
    <3>2. Regrouped(running, ready, email, linkedin, tail)
      BY <2>3, <2>4, <3>1, Regroup
    <3>3. QED
      BY <2>6, <3>2 DEF Regrouped
  <2> HIDE DEF head, messages
  <2>9. QED
    BY <1>1, <2>3, <2>5, <2>7, <2>8, ShapeOfParts
<1>4. QED
  BY <1>2, <1>3

LEMMA FollowUpShape ==
  ASSUME NEW input \in Inputs
  PROVE  Shaped(FollowUp(input).script)
<1> DEFINE head == <<Running, Stage("follow_up"), Audit("candidate.follow_up_scheduled")>>
           steps == [i \in DOMAIN input.delays |-> CadenceStep(input, i)]
           tail == <<Completed>>
<1>1. head \in Seq(Worker!Activities)
  <2>1. "follow_up" \in Worker!Stages /\ Audit("candidate.follow_up_scheduled") \in Notes
    BY DEF Worker!Stages, Notes
  <2>2. /\ Running \in Worker!Activities
        /\ Stage("follow_up") \in Worker!Activities
        /\ Audit("candidate.follow_up_scheduled") \in Worker!Activities
    BY <2>1, Kinds DEF Stagings
  <2>3. QED
    BY <2>2
<1>2. Opening(head, tail[1].arg)
  BY DEF Opening, IsFinal, IsStage, Running, Stage, Audit, Activity, Worker!Final
<1>3. tail \in Seq(Worker!Activities) /\ Closing(tail)
  <2>1. "closed" \in Worker!Stages /\ Audit("candidate.closed") \in Notes
    BY DEF Worker!Stages, Notes
  <2>2. QED
    BY <2>1, Endings
<1>4. FlattenSeq(steps) \in Seq(Plain)
  <2>1. input.delays \in Seq(Nat)
    BY DEF Inputs
  <2>2. Len(input.delays) \in Nat /\ DOMAIN input.delays = 1..Len(input.delays)
    BY <2>1, LenProperties
  <2>3. steps \in [1..Len(input.delays) -> Seq(Plain)]
    BY <2>2, CadencePlain
  <2> HIDE DEF steps
  <2>4. steps \in Seq(Seq(Plain))
    BY <2>2, <2>3, FunctionIsSeq
  <2>5. QED
    BY <2>4, FlattenSeqType
<1>5. FollowUp(input).script = (head \o FlattenSeq(steps)) \o tail
  BY DEF FollowUp, Workflow, FollowUpScript
<1> HIDE DEF head, steps, tail
<1>6. QED
  BY <1>1, <1>2, <1>3, <1>4, <1>5, ShapeOfParts

----------------------------------------------------------------------------
(* The theorems.                                                           *)

\* Whatever a workflow of the worker is started with, its script has the shape
\* on which the theorems about runs rest.
THEOREM RegisteredScriptsAreShaped ==
  ASSUME NEW input \in Inputs, NEW w \in Registered(input)
  PROVE  w.attempts \in Nat /\ Shaped(w.script)
<1>1. w.attempts \in Nat
  BY DEF Registered, Workflow, Lifecycle, Ingest, Enrichment, Qualification, Outreach,
         FollowUp, Closure, TenantOnboarding
<1>2. Shaped(w.script)
  BY SimpleShapes, LifecycleShape, OutreachShape, FollowUpShape DEF Registered
<1>3. QED
  BY <1>1, <1>2

\* So they are workflows CandidateWorkflows may be given.
LEMMA RegisteredAssumptions ==
  ASSUME Decisions \subseteq Worker!HumanStages,
         Edits \subseteq {row \in Row : row.status # "absent"}
  PROVE  /\ Worker!WorkflowsAssumption /\ Worker!ContactAssumption /\ Worker!StagesAssumption
         /\ Worker!EditsAssumption /\ Worker!MessagesAssumption
<1>1. \A w \in AllRegistered : w.attempts \in Nat /\ Shaped(w.script)
  BY RegisteredScriptsAreShaped DEF AllRegistered
<1>2. \A w \in AllRegistered :
        Worker!WellFormed(w.script) /\ DOMAIN w.script = 1..Len(w.script)
  <2>1. \A script : Worker!WellFormed(script) => DOMAIN script = 1..Len(script)
    BY LenProperties DEF Worker!WellFormed
  <2>2. QED
    BY <1>1, <2>1 DEF Shaped
<1>3. Worker!WorkflowsAssumption
  BY <1>1, <1>2 DEF Worker!WorkflowsAssumption
<1>4. Worker!ContactAssumption
  <2> SUFFICES ASSUME NEW w \in AllRegistered,
                      NEW i \in DOMAIN w.script, NEW j \in DOMAIN w.script,
                      w.script[i].do = "candidate", w.script[i].arg = "contacted",
                      w.script[j].do = "append"
               PROVE  j < i
    BY DEF Worker!ContactAssumption
  <2>1. MessagesFirst(w.script) /\ i \in 1..Len(w.script) /\ j \in 1..Len(w.script)
    BY <1>1, <1>2 DEF Shaped
  <2>2. QED
    BY <2>1 DEF MessagesFirst, IsStage
<1>5. Worker!StagesAssumption
  <2> SUFFICES ASSUME NEW w \in AllRegistered,
                      NEW i \in DOMAIN w.script, NEW j \in DOMAIN w.script,
                      NEW k \in DOMAIN w.script,
                      i < j, j < k, \A x \in {i, j, k} : w.script[x].do = "candidate",
                      w.script[i].arg = w.script[k].arg
               PROVE  FALSE
    BY DEF Worker!StagesAssumption
  <2>1. /\ NoStageAgain(w.script)
        /\ i \in 1..Len(w.script) /\ j \in 1..Len(w.script) /\ k \in 1..Len(w.script)
    BY <1>1, <1>2 DEF Shaped
  <2>2. IsStage(w.script[i]) /\ IsStage(w.script[j]) /\ IsStage(w.script[k])
    BY DEF IsStage
  <2>3. QED
    BY <2>1, <2>2 DEF NoStageAgain
<1>6. Worker!EditsAssumption /\ Worker!MessagesAssumption
  BY MessagesAssumption
     DEF Worker!EditsAssumption, Worker!MessagesAssumption, Row, Worker!Row, Statuses,
         Worker!Statuses, Texts, Worker!Texts
<1>7. QED
  BY <1>3, <1>4, <1>5, <1>6

\* A run of any workflow of the worker, started with any input, whose row reads
\* Completed or Skipped has had every row of its workflow written.
THEOREM RegisteredRunsAreDone ==
  ASSUME Decisions \subseteq Worker!HumanStages,
         Edits \subseteq {row \in Row : row.status # "absent"}
  PROVE  Worker!Spec => []Worker!CompletedMeansDone
BY RegisteredAssumptions, Worker!CompletedRunsAreDone

\* Every run of a workflow of the worker writes its rows in order, each at
\* least once before the next, and none after it completed.
THEOREM RegisteredRunsAreDurable ==
  ASSUME Decisions \subseteq Worker!HumanStages,
         Edits \subseteq {row \in Row : row.status # "absent"}
  PROVE  Worker!Spec => Worker!RunsAreDurable
BY RegisteredAssumptions, Worker!RunsImplementDurableRun

\* A candidate that reads "contacted" has the rows of its messages, through
\* whatever channels and addresses it was to be contacted.
THEOREM RegisteredContactedHaveRows ==
  ASSUME Decisions \subseteq Worker!HumanStages,
         Edits \subseteq {row \in Row : row.status # "absent"}
  PROVE  Worker!Spec => []Worker!ContactedHasRows
BY RegisteredAssumptions, Worker!ContactedHaveRows

\* One run of a workflow of the worker, where no human decides, only moves its
\* candidate on to stages the workflow writes later.
THEOREM RegisteredStagesMoveForward ==
  ASSUME Decisions = {}, \A q, r \in Runs : q = r,
         Edits \subseteq {row \in Row : row.status # "absent"}
  PROVE  Worker!Spec => Worker!StageMovesForward
BY RegisteredAssumptions, Worker!StagesMoveForward
=============================================================================
