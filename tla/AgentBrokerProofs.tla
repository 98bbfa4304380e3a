-------------------------- MODULE AgentBrokerProofs --------------------------
(***************************************************************************)
(* The safety properties of AgentBroker, for any requests, any number of   *)
(* effect runs and any bound of the broker. EffectInv is about the runs of *)
(* the effect and their calls, whose order it pins down; RequestInv, on    *)
(* top of it, follows a request through the broker, the page and back.     *)
(***************************************************************************)
EXTENDS AgentBroker, FiniteSetTheorems, TLAPS

-----------------------------------------------------------------------------
(* Queues by their indices.                                                *)

LEMMA AppendAt ==
  ASSUME NEW S, NEW s \in Seq(S), NEW e \in S
  PROVE  /\ Append(s, e) \in Seq(S)
         /\ Len(s) \in Nat /\ Len(s) + 1 \in DOMAIN Append(s, e)
         /\ Append(s, e)[Len(s) + 1] = e
         /\ \A i \in DOMAIN s : i \in DOMAIN Append(s, e) /\ Append(s, e)[i] = s[i]
         /\ \A i \in DOMAIN s : i \in Nat /\ i < Len(s) + 1
         /\ \A i \in DOMAIN Append(s, e) : i \in DOMAIN s \/ i = Len(s) + 1
OBVIOUS

LEMMA TailAt ==
  ASSUME NEW S, NEW s \in Seq(S), s # <<>>
  PROVE  /\ Tail(s) \in Seq(S)
         /\ 1 \in DOMAIN s /\ Head(s) = s[1] /\ Head(s) \in S
         /\ \A i \in DOMAIN Tail(s) : i \in Nat /\ i >= 1 /\ i + 1 \in DOMAIN s /\ Tail(s)[i] = s[i + 1]
         /\ \A i \in DOMAIN s : i \in Nat /\ i >= 1
         /\ \A i \in DOMAIN s : i # 1 => i - 1 \in DOMAIN Tail(s) /\ Tail(s)[i - 1] = s[i]
OBVIOUS

LEMMA ElementAt ==
  ASSUME NEW S, NEW s \in Seq(S), NEW i \in DOMAIN s
  PROVE  s[i] \in S /\ i \in Nat /\ i >= 1
OBVIOUS

-----------------------------------------------------------------------------
(* The runs of the effect.                                                 *)

Question == [cmd : {"listen", "ready", "notReady"}, run : Runs]
Reply == [cmd : {"listen", "ready"}, run : Runs]
Announcing(m) == m.cmd # "notReady"

EffectType ==
  /\ ready \in BOOLEAN
  /\ calls \in Seq(Question)
  /\ replies \in Seq(Reply)
  /\ listening \subseteq Runs
  /\ mounts \in 0..MaxMounts
  /\ mounted \in {0, mounts}
  /\ stage \in [Runs -> {"none", "listening", "announcing", "ready", "over"}]

\* The installations are under way in the order of their mounts: the replies
\* first, then the calls.
OrderInv ==
  /\ \A i, j \in DOMAIN replies : i < j => replies[i].run < replies[j].run
  /\ \A i, j \in DOMAIN calls :
       i < j /\ Announcing(calls[i]) /\ Announcing(calls[j]) => calls[i].run < calls[j].run
  /\ \A i \in DOMAIN replies, j \in DOMAIN calls :
       Announcing(calls[j]) => replies[i].run < calls[j].run

Awaiting(cmd) == IF cmd = "listen" THEN "listening" ELSE "announcing"

\* An installation that is not over has its call or its reply under way, and
\* a listener from the time its registration was served.
StageInv ==
  /\ \A k \in Runs : k > mounts <=> stage[k] = "none"
  /\ mounted # 0 => stage[mounted] \in {"listening", "announcing", "ready"}
  /\ \A i \in DOMAIN replies :
       /\ stage[replies[i].run] = Awaiting(replies[i].cmd)
       /\ replies[i].cmd = "listen" => replies[i].run \in listening
  /\ \A i \in DOMAIN calls : Announcing(calls[i]) =>
       /\ stage[calls[i].run] = Awaiting(calls[i].cmd)
       /\ calls[i].cmd = "listen" => calls[i].run \notin listening
  /\ \A k \in Runs : stage[k] \in {"listening", "announcing"} =>
       \/ \E i \in DOMAIN replies : replies[i].run = k
       \/ \E i \in DOMAIN calls : calls[i].run = k /\ Announcing(calls[i])
  /\ \A k \in listening : stage[k] = "listening" \/ k = mounted
  /\ mounted # 0 /\ stage[mounted] # "listening" => mounted \in listening

\* One run announces itself at a time. A broker that is ready has its mounted
\* run, or a call or a reply under way that leads to frontend_not_ready.
AnnounceInv ==
  /\ \A i \in DOMAIN calls : calls[i].cmd = "ready" =>
       /\ replies = <<>>
       /\ \A j \in DOMAIN calls : calls[j].cmd = IF j < i THEN "notReady" ELSE
                                               IF j = i THEN "ready" ELSE "listen"
  /\ \A i \in DOMAIN replies : replies[i].cmd = "ready" =>
       i = 1 /\ ready /\ \A j \in DOMAIN calls : calls[j].cmd = "listen"
  /\ \A k \in Runs : stage[k] = "ready" =>
       k = mounted /\ calls = <<>> /\ replies = <<>> /\ ready
  /\ ready => \/ mounted # 0 /\ stage[mounted] = "ready"
              \/ \E i \in DOMAIN calls : calls[i].cmd = "notReady"
              \/ \E i \in DOMAIN replies : replies[i].cmd = "ready"

EffectInv == EffectType /\ OrderInv /\ StageInv /\ AnnounceInv

effectVars == <<ready, calls, replies, listening, mounted, mounts, stage>>

LEMMA InitEffect == Init => EffectInv
<1> SUFFICES ASSUME Init PROVE EffectInv
  OBVIOUS
<1>1. calls = <<>> /\ replies = <<>> /\ DOMAIN calls = {} /\ DOMAIN replies = {}
  BY DEF Init
<1>2. EffectType
  <2>1. calls \in Seq(Question) /\ replies \in Seq(Reply)
    BY <1>1
  <2>2. mounts \in 0..MaxMounts
    <3>1. mounts = 0
      BY DEF Init
    <3> QED BY <3>1, AgentBrokerAssumption
  <2>3. stage \in [Runs -> {"none", "listening", "announcing", "ready", "over"}]
    BY DEF Init
  <2>4. mounted \in {0, mounts} /\ ready \in BOOLEAN /\ listening \subseteq Runs
    BY DEF Init
  <2> QED BY <2>1, <2>2, <2>3, <2>4 DEF EffectType
<1> QED BY <1>1, <1>2, AgentBrokerAssumption DEF Init, EffectInv, OrderInv, StageInv, AnnounceInv, Runs

\* What is under way belongs to a run that was mounted.
LEMMA UnderWay ==
  ASSUME EffectInv
  PROVE  /\ mounts \in Nat /\ \A k \in Runs : k \in Nat /\ k # 0
         /\ \A i \in DOMAIN replies :
              replies[i] \in Reply /\ replies[i].run \in Runs /\ replies[i].run <= mounts
         /\ \A i \in DOMAIN calls : calls[i] \in Question /\ calls[i].run \in Runs
         /\ \A i \in DOMAIN calls : Announcing(calls[i]) => calls[i].run <= mounts
<1>1. mounts \in Nat /\ \A k \in Runs : k \in Nat /\ k # 0
  BY DEF EffectInv, EffectType, Runs
<1>2. \A i \in DOMAIN replies : replies[i] \in Reply /\ replies[i].run \in Runs
  <2> SUFFICES ASSUME NEW i \in DOMAIN replies PROVE replies[i] \in Reply
    BY DEF Reply
  <2> QED BY ElementAt DEF EffectInv, EffectType
<1>3. \A i \in DOMAIN calls : calls[i] \in Question /\ calls[i].run \in Runs
  <2> SUFFICES ASSUME NEW i \in DOMAIN calls PROVE calls[i] \in Question
    BY DEF Question
  <2> QED BY ElementAt DEF EffectInv, EffectType
<1>4. \A i \in DOMAIN replies : replies[i].run <= mounts
  <2> SUFFICES ASSUME NEW i \in DOMAIN replies PROVE ~(replies[i].run > mounts)
    BY <1>1, <1>2
  <2>1. stage[replies[i].run] # "none"
    BY DEF EffectInv, StageInv, Awaiting
  <2> QED BY <1>2, <2>1 DEF EffectInv, StageInv
<1>5. \A i \in DOMAIN calls : Announcing(calls[i]) => calls[i].run <= mounts
  <2> SUFFICES ASSUME NEW i \in DOMAIN calls, Announcing(calls[i]) PROVE ~(calls[i].run > mounts)
    BY <1>1, <1>3
  <2>1. stage[calls[i].run] # "none"
    BY DEF EffectInv, StageInv, Awaiting
  <2> QED BY <1>3, <2>1 DEF EffectInv, StageInv
<1> QED BY <1>1, <1>2, <1>3, <1>4, <1>5

\* Rust serves a call and resolves it: the message at the head of the calls
\* moves to the end of the replies.
Served(m) ==
  /\ calls # <<>> /\ m = Head(calls) /\ Announcing(m)
  /\ calls' = Tail(calls) /\ replies' = Append(replies, m)

LEMMA ServedKeepsOrder ==
  ASSUME EffectInv, NEW m, Served(m)
  PROVE  /\ m \in Reply /\ 1 \in DOMAIN calls /\ m = calls[1]
         /\ calls' \in Seq(Question) /\ replies' \in Seq(Reply)
         /\ \A i \in DOMAIN calls' : i \in Nat /\ i >= 1 /\ i + 1 \in DOMAIN calls /\ calls'[i] = calls[i + 1]
         /\ \A i \in DOMAIN calls : i # 1 => i - 1 \in DOMAIN calls' /\ calls'[i - 1] = calls[i]
         /\ Len(replies) + 1 \in DOMAIN replies' /\ replies'[Len(replies) + 1] = m
         /\ \A i \in DOMAIN replies : i \in DOMAIN replies' /\ replies'[i] = replies[i]
         /\ \A i \in DOMAIN replies' : i \in DOMAIN replies \/ i = Len(replies) + 1
         /\ \A i \in DOMAIN calls' : Announcing(calls'[i]) => calls'[i].run # m.run
         /\ OrderInv'
<1>1. /\ calls # <<>> /\ m = Head(calls) /\ Announcing(m) /\ calls' = Tail(calls)
      /\ replies' = Append(replies, m)
  BY DEF Served
<1>2. m \in Reply
  <2>1. m \in Question
    BY <1>1, TailAt DEF EffectInv, EffectType
  <2> QED BY <1>1, <2>1 DEF Question, Reply, Announcing
<1>3. /\ calls' \in Seq(Question)
      /\ 1 \in DOMAIN calls /\ m = calls[1]
      /\ \A i \in DOMAIN calls' : i \in Nat /\ i >= 1 /\ i + 1 \in DOMAIN calls /\ calls'[i] = calls[i + 1]
      /\ \A i \in DOMAIN calls : i \in Nat /\ i >= 1
      /\ \A i \in DOMAIN calls : i # 1 => i - 1 \in DOMAIN calls' /\ calls'[i - 1] = calls[i]
  BY <1>1, TailAt DEF EffectInv, EffectType
<1>4. /\ replies' \in Seq(Reply)
      /\ Len(replies) \in Nat /\ Len(replies) + 1 \in DOMAIN replies'
      /\ replies'[Len(replies) + 1] = m
      /\ \A i \in DOMAIN replies : i \in DOMAIN replies' /\ replies'[i] = replies[i]
      /\ \A i \in DOMAIN replies : i \in Nat /\ i < Len(replies) + 1
      /\ \A i \in DOMAIN replies' : i \in DOMAIN replies \/ i = Len(replies) + 1
  BY <1>1, <1>2, AppendAt DEF EffectInv, EffectType
<1>6. \A i \in DOMAIN calls' : Announcing(calls'[i]) => m.run < calls'[i].run
  <2> SUFFICES ASSUME NEW i \in DOMAIN calls', Announcing(calls'[i]) PROVE m.run < calls'[i].run
    OBVIOUS
  <2>1. i + 1 \in DOMAIN calls /\ 1 < i + 1 /\ calls'[i] = calls[i + 1]
    BY <1>3
  <2> QED BY <1>1, <1>3, <2>1 DEF EffectInv, OrderInv, Announcing
<1>7. \A i \in DOMAIN replies : replies[i].run < m.run
  BY <1>1, <1>3 DEF EffectInv, OrderInv, Announcing
<1>8. OrderInv'
  <2>1. \A i, j \in DOMAIN replies' : i < j => replies'[i].run < replies'[j].run
    BY <1>4, <1>7 DEF EffectInv, OrderInv
  <2>2. \A i, j \in DOMAIN calls' :
          i < j /\ Announcing(calls'[i]) /\ Announcing(calls'[j]) => calls'[i].run < calls'[j].run
    <3> SUFFICES ASSUME NEW i \in DOMAIN calls', NEW j \in DOMAIN calls', i < j,
                        Announcing(calls'[i]), Announcing(calls'[j])
                 PROVE  calls'[i].run < calls'[j].run
      OBVIOUS
    <3>1. /\ i + 1 \in DOMAIN calls /\ j + 1 \in DOMAIN calls /\ i + 1 < j + 1
          /\ calls'[i] = calls[i + 1] /\ calls'[j] = calls[j + 1]
      BY <1>3
    <3> QED BY <3>1 DEF EffectInv, OrderInv
  <2>3. \A i \in DOMAIN replies', j \in DOMAIN calls' :
          Announcing(calls'[j]) => replies'[i].run < calls'[j].run
    BY <1>3, <1>4, <1>6 DEF EffectInv, OrderInv
  <2> QED BY <2>1, <2>2, <2>3 DEF OrderInv, Announcing
<1>9. \A i \in DOMAIN calls' : Announcing(calls'[i]) => calls'[i].run # m.run
  BY <1>2, <1>3, <1>6 DEF Reply, Runs
<1> QED BY <1>2, <1>3, <1>4, <1>8, <1>9

\* The stages and the listeners keep their meaning when a call is served that
\* leaves the stages alone, and that registers the listener if it was to.
LEMMA ServedKeepsStages ==
  ASSUME EffectInv, NEW m, Served(m), UNCHANGED <<stage, mounts, mounted>>,
         listening' = IF m.cmd = "listen" THEN listening \cup {m.run} ELSE listening
  PROVE  StageInv'
<1>1. Announcing(m)
  BY DEF Served
<1>2. /\ stage[m.run] = Awaiting(m.cmd)
      /\ m.cmd = "listen" => m.run \notin listening /\ stage[m.run] = "listening"
  BY <1>1, ServedKeepsOrder DEF EffectInv, StageInv, Awaiting
<1>3. \A i \in DOMAIN replies' :
        /\ stage'[replies'[i].run] = Awaiting(replies'[i].cmd)
        /\ replies'[i].cmd = "listen" => replies'[i].run \in listening'
  BY <1>2, ServedKeepsOrder DEF EffectInv, StageInv
<1>4. \A i \in DOMAIN calls' : Announcing(calls'[i]) =>
        /\ stage'[calls'[i].run] = Awaiting(calls'[i].cmd)
        /\ calls'[i].cmd = "listen" => calls'[i].run \notin listening'
  BY ServedKeepsOrder DEF EffectInv, StageInv
<1>5. \A k \in Runs : stage'[k] \in {"listening", "announcing"} =>
        \/ \E i \in DOMAIN replies' : replies'[i].run = k
        \/ \E i \in DOMAIN calls' : calls'[i].run = k /\ Announcing(calls'[i])
  <2> SUFFICES ASSUME NEW k \in Runs, stage[k] \in {"listening", "announcing"},
                      \A i \in DOMAIN replies' : replies'[i].run # k
               PROVE  \E i \in DOMAIN calls' : calls'[i].run = k /\ Announcing(calls'[i])
    OBVIOUS
  <2>1. PICK i \in DOMAIN calls : calls[i].run = k /\ Announcing(calls[i])
    BY ServedKeepsOrder DEF EffectInv, StageInv
  <2>2. i # 1
    BY <2>1, ServedKeepsOrder
  <2> QED BY <2>1, <2>2, ServedKeepsOrder
<1>6. /\ \A k \in listening' : stage[k] = "listening" \/ k = mounted
      /\ listening \subseteq listening'
  BY <1>2 DEF EffectInv, StageInv
<1> QED BY <1>3, <1>4, <1>5, <1>6 DEF EffectInv, StageInv, Announcing

\* The event plugin registers a listener.
LEMMA StepListen == ASSUME EffectInv, Listen PROVE EffectInv'
<1> DEFINE m == Head(calls)
<1>1. /\ Served(m) /\ m.cmd = "listen" /\ listening' = listening \cup {m.run}
      /\ UNCHANGED <<ready, mounted, mounts, stage>>
  BY DEF Listen, CallsNext, Served, Announcing, rust, effect
<1> HIDE DEF m
<1>2. /\ m \in Reply /\ 1 \in DOMAIN calls /\ m = calls[1]
      /\ \A i \in DOMAIN calls' : i \in Nat /\ i >= 1 /\ i + 1 \in DOMAIN calls /\ calls'[i] = calls[i + 1]
      /\ \A i \in DOMAIN calls : i # 1 => i - 1 \in DOMAIN calls' /\ calls'[i - 1] = calls[i]
      /\ replies'[Len(replies) + 1] = m
      /\ \A i \in DOMAIN replies : i \in DOMAIN replies' /\ replies'[i] = replies[i]
      /\ \A i \in DOMAIN replies' : i \in DOMAIN replies \/ i = Len(replies) + 1
  BY <1>1, ServedKeepsOrder
<1>3. EffectType'
  <2>1. m.run \in Runs
    BY <1>2 DEF Reply
  <2> QED BY <1>1, <2>1, ServedKeepsOrder DEF EffectInv, EffectType
<1>4. OrderInv' /\ StageInv'
  BY <1>1, ServedKeepsOrder, ServedKeepsStages
<1>5. AnnounceInv'
  <2>1. \A i \in DOMAIN calls : calls[i].cmd # "ready"
    BY <1>1, <1>2 DEF EffectInv, AnnounceInv
  <2>2. \A i \in DOMAIN calls' : calls'[i].cmd # "ready"
    BY <1>2, <2>1
  <2>3. ASSUME NEW i \in DOMAIN replies', replies'[i].cmd = "ready"
        PROVE  i = 1 /\ ready /\ \A j \in DOMAIN calls' : calls'[j].cmd = "listen"
    BY <1>1, <1>2, <2>3 DEF EffectInv, AnnounceInv
  <2>4. \A k \in Runs : stage[k] # "ready"
    BY <1>1 DEF EffectInv, AnnounceInv, Served
  <2>5. ready =>
          \/ \E i \in DOMAIN calls' : calls'[i].cmd = "notReady"
          \/ \E i \in DOMAIN replies' : replies'[i].cmd = "ready"
    <3> SUFFICES ASSUME ready, NEW i \in DOMAIN calls, calls[i].cmd = "notReady"
                 PROVE  \E j \in DOMAIN calls' : calls'[j].cmd = "notReady"
      <4>1. ~(mounted # 0 /\ stage[mounted] = "ready")
        BY <2>4, AgentBrokerAssumption DEF EffectInv, EffectType, Runs
      <4> QED BY <1>1, <1>2, <4>1 DEF EffectInv, AnnounceInv
    <3>1. i # 1
      BY <1>1, <1>2
    <3> QED BY <1>2, <3>1
  <2> QED BY <1>1, <2>2, <2>3, <2>4, <2>5 DEF AnnounceInv
<1> QED BY <1>3, <1>4, <1>5 DEF EffectInv

\* The broker takes requests from now on: an installation announces itself.
LEMMA StepFrontendReady == ASSUME EffectInv, FrontendReady PROVE EffectInv'
<1> DEFINE m == Head(calls)
<1>1. /\ Served(m) /\ m.cmd = "ready" /\ ready'
      /\ UNCHANGED <<listening, mounted, mounts, stage>>
  BY DEF FrontendReady, CallsNext, Served, Announcing, effect
<1> HIDE DEF m
<1>2. EffectType'
  <2>1. ready' \in BOOLEAN
    BY DEF FrontendReady
  <2> QED BY <1>1, <2>1, ServedKeepsOrder DEF EffectInv, EffectType
<1>3. OrderInv' /\ StageInv'
  BY <1>1, ServedKeepsOrder, ServedKeepsStages
<1>4. AnnounceInv'
  <2>1. /\ 1 \in DOMAIN calls /\ calls[1].cmd = "ready"
        /\ \A i \in DOMAIN calls' : i \in Nat /\ i >= 1 /\ i + 1 \in DOMAIN calls /\ calls'[i] = calls[i + 1]
    BY <1>1, ServedKeepsOrder
  <2>2. replies = <<>> /\ \A j \in DOMAIN calls : j # 1 /\ ~(j < 1) => calls[j].cmd = "listen"
    BY <2>1 DEF EffectInv, AnnounceInv
  <2>3. \A i \in DOMAIN calls' : calls'[i].cmd = "listen"
    BY <2>1, <2>2
  <2>4. 1 \in DOMAIN replies' /\ replies'[1] = m /\ \A i \in DOMAIN replies' : i = 1
    BY <1>1, <2>2, ServedKeepsOrder
  <2>5. \A k \in Runs : stage[k] # "ready"
    BY <2>1 DEF EffectInv, AnnounceInv
  <2> QED BY <1>1, <2>3, <2>4, <2>5 DEF AnnounceInv
<1> QED BY <1>2, <1>3, <1>4 DEF EffectInv

\* The broker takes no more requests.
LEMMA StepFrontendNotReady == ASSUME EffectInv, FrontendNotReady PROVE EffectInv'
<1>1. /\ calls # <<>> /\ Head(calls).cmd = "notReady" /\ calls' = Tail(calls) /\ ~ready'
      /\ UNCHANGED <<replies, listening, mounted, mounts, stage>>
  BY DEF FrontendNotReady, CallsNext, effect
<1>2. /\ calls' \in Seq(Question)
      /\ 1 \in DOMAIN calls /\ calls[1].cmd = "notReady"
      /\ \A i \in DOMAIN calls' : i \in Nat /\ i >= 1 /\ i + 1 \in DOMAIN calls /\ calls'[i] = calls[i + 1]
      /\ \A i \in DOMAIN calls : i \in Nat /\ i >= 1
      /\ \A i \in DOMAIN calls : i # 1 => i - 1 \in DOMAIN calls' /\ calls'[i - 1] = calls[i]
  BY <1>1, TailAt DEF EffectInv, EffectType
<1>3. EffectType'
  <2>1. ready' \in BOOLEAN
    BY DEF FrontendNotReady
  <2> QED BY <1>1, <1>2, <2>1 DEF EffectInv, EffectType
<1>4. OrderInv'
  <2>1. ASSUME NEW i \in DOMAIN calls', NEW j \in DOMAIN calls', i < j,
               Announcing(calls'[i]), Announcing(calls'[j])
        PROVE  calls'[i].run < calls'[j].run
    <3>1. /\ i + 1 \in DOMAIN calls /\ j + 1 \in DOMAIN calls /\ i + 1 < j + 1
          /\ calls'[i] = calls[i + 1] /\ calls'[j] = calls[j + 1]
      BY <1>2, <2>1
    <3> QED BY <2>1, <3>1 DEF EffectInv, OrderInv
  <2> QED BY <1>1, <1>2, <2>1 DEF EffectInv, OrderInv, Announcing
<1>5. StageInv'
  <2>1. ASSUME NEW k \in Runs, NEW i \in DOMAIN calls, calls[i].run = k, Announcing(calls[i])
        PROVE  \E j \in DOMAIN calls' : calls'[j].run = k /\ Announcing(calls'[j])
    <3>1. i # 1
      BY <1>2, <2>1 DEF Announcing
    <3> QED BY <1>2, <2>1, <3>1
  <2>2. \A k \in Runs : stage'[k] \in {"listening", "announcing"} =>
          \/ \E i \in DOMAIN replies' : replies'[i].run = k
          \/ \E i \in DOMAIN calls' : calls'[i].run = k /\ Announcing(calls'[i])
    BY <1>1, <2>1 DEF EffectInv, StageInv
  <2>3. \A i \in DOMAIN calls' : Announcing(calls'[i]) =>
          /\ stage'[calls'[i].run] = Awaiting(calls'[i].cmd)
          /\ calls'[i].cmd = "listen" => calls'[i].run \notin listening'
    BY <1>1, <1>2 DEF EffectInv, StageInv
  <2> QED BY <1>1, <2>2, <2>3 DEF EffectInv, StageInv, Announcing
<1>6. AnnounceInv'
  <2>1. ASSUME NEW i \in DOMAIN calls', calls'[i].cmd = "ready"
        PROVE  /\ replies = <<>>
               /\ \A j \in DOMAIN calls' : calls'[j].cmd = IF j < i THEN "notReady" ELSE
                                                        IF j = i THEN "ready" ELSE "listen"
    <3>1. i + 1 \in DOMAIN calls /\ calls[i + 1].cmd = "ready"
      BY <1>2, <2>1
    <3>2. /\ replies = <<>>
          /\ \A j \in DOMAIN calls : calls[j].cmd = IF j < i + 1 THEN "notReady" ELSE
                                                    IF j = i + 1 THEN "ready" ELSE "listen"
      BY <3>1 DEF EffectInv, AnnounceInv
    <3>3. ASSUME NEW j \in DOMAIN calls'
          PROVE  calls'[j].cmd = IF j < i THEN "notReady" ELSE IF j = i THEN "ready" ELSE "listen"
      <4>1. j + 1 \in DOMAIN calls /\ calls'[j] = calls[j + 1] /\ j \in Nat /\ i \in Nat
        BY <1>2
      <4> QED BY <3>2, <4>1
    <3> QED BY <3>2, <3>3
  <2>2. \A i \in DOMAIN replies : replies[i].cmd # "ready"
    BY <1>2 DEF EffectInv, AnnounceInv
  <2>3. \A k \in Runs : stage[k] # "ready"
    BY <1>1 DEF EffectInv, AnnounceInv
  <2> QED BY <1>1, <2>1, <2>2, <2>3 DEF AnnounceInv
<1> QED BY <1>3, <1>4, <1>5, <1>6 DEF EffectInv

\* A run of the effect begins to install its listener, behind all others.
LEMMA StepMount == ASSUME EffectInv, Mount PROVE EffectInv'
<1> DEFINE k == mounts + 1
           m == Call("listen", k)
<1>1. /\ mounted = 0 /\ mounts < MaxMounts /\ mounts' = k /\ mounted' = k
      /\ stage' = [stage EXCEPT ![k] = "listening"] /\ calls' = Append(calls, m)
      /\ UNCHANGED <<ready, replies, listening>>
  BY DEF Mount, rust
<1>2. /\ k \in Runs /\ k # 0 /\ k > mounts /\ k \in 0..MaxMounts
      /\ \A j \in Runs : j # k => (j > mounts <=> j > k)
      /\ \A j \in Runs : j \in Int
  BY <1>1, AgentBrokerAssumption DEF EffectInv, EffectType, Runs
<1>3. m.cmd = "listen" /\ m.run = k /\ m \in Question /\ Announcing(m)
  BY <1>2 DEF Question, Call, Announcing
<1> HIDE DEF k, m
<1>4. /\ calls' \in Seq(Question)
      /\ Len(calls) \in Nat /\ Len(calls) + 1 \in DOMAIN calls'
      /\ calls'[Len(calls) + 1] = m
      /\ \A i \in DOMAIN calls : i \in DOMAIN calls' /\ calls'[i] = calls[i]
      /\ \A i \in DOMAIN calls : i \in Nat /\ i < Len(calls) + 1
      /\ \A i \in DOMAIN calls' : i \in DOMAIN calls \/ i = Len(calls) + 1
  BY <1>1, <1>3, AppendAt DEF EffectInv, EffectType
<1>5. EffectType'
  BY <1>1, <1>2, <1>4 DEF EffectInv, EffectType
<1>6. stage[k] = "none" /\ stage' \in [Runs -> {"none", "listening", "announcing", "ready", "over"}]
  BY <1>2, <1>5 DEF EffectInv, StageInv, EffectType
<1>7. /\ \A i \in DOMAIN replies : replies[i].run \in Runs /\ replies[i].run < k /\ replies[i].run # k
      /\ \A i \in DOMAIN calls : Announcing(calls[i]) =>
           calls[i].run \in Runs /\ calls[i].run < k /\ calls[i].run # k
  BY UnderWay DEF k
<1>8. OrderInv'
  <2>3. \A i, j \in DOMAIN calls' :
          i < j /\ Announcing(calls'[i]) /\ Announcing(calls'[j]) => calls'[i].run < calls'[j].run
    BY <1>3, <1>4, <1>7 DEF EffectInv, OrderInv
  <2> QED BY <1>1, <1>3, <1>4, <1>7, <2>3 DEF EffectInv, OrderInv, Announcing
<1>9. StageInv'
  <2>1. stage'[k] = "listening" /\ \A j \in Runs : j # k => stage'[j] = stage[j]
    BY <1>1, <1>2 DEF EffectInv, EffectType
  <2>2. k \notin listening
    BY <1>1, <1>2, <1>6 DEF EffectInv, StageInv
  <2>3. \A j \in Runs : j > mounts' <=> stage'[j] = "none"
    BY <1>1, <1>2, <2>1 DEF EffectInv, StageInv
  <2>4. \A j \in Runs : stage'[j] \in {"listening", "announcing"} =>
          \/ \E i \in DOMAIN replies' : replies'[i].run = j
          \/ \E i \in DOMAIN calls' : calls'[i].run = j /\ Announcing(calls'[i])
    BY <1>1, <1>3, <1>4, <2>1 DEF EffectInv, StageInv
  <2>5. \A i \in DOMAIN replies' :
          /\ stage'[replies'[i].run] = Awaiting(replies'[i].cmd)
          /\ replies'[i].cmd = "listen" => replies'[i].run \in listening'
    BY <1>1, <1>7, <2>1 DEF EffectInv, StageInv
  <2>6. \A i \in DOMAIN calls' : Announcing(calls'[i]) =>
          /\ stage'[calls'[i].run] = Awaiting(calls'[i].cmd)
          /\ calls'[i].cmd = "listen" => calls'[i].run \notin listening'
    BY <1>1, <1>3, <1>4, <1>7, <2>1, <2>2 DEF EffectInv, StageInv, Awaiting
  <2>7. \A j \in listening' : stage'[j] = "listening" \/ j = mounted'
    BY <1>1, <2>1, <2>2, UnderWay DEF EffectInv, StageInv, EffectType
  <2> QED BY <1>1, <2>1, <2>3, <2>4, <2>5, <2>6, <2>7 DEF StageInv, Announcing
<1>10. AnnounceInv'
  <2>1. \A j \in Runs : stage'[j] # "ready"
    BY <1>1, <1>2 DEF EffectInv, AnnounceInv, EffectType
  <2>2. ASSUME NEW i \in DOMAIN calls', calls'[i].cmd = "ready"
        PROVE  /\ replies' = <<>>
               /\ \A j \in DOMAIN calls' : calls'[j].cmd = IF j < i THEN "notReady" ELSE
                                                        IF j = i THEN "ready" ELSE "listen"
    <3>1. i \in DOMAIN calls /\ calls[i].cmd = "ready"
      BY <1>3, <1>4, <2>2
    <3> QED BY <1>1, <1>3, <1>4, <3>1 DEF EffectInv, AnnounceInv
  <2>3. ready => \/ \E i \in DOMAIN calls' : calls'[i].cmd = "notReady"
                 \/ \E i \in DOMAIN replies' : replies'[i].cmd = "ready"
    BY <1>1, <1>4 DEF EffectInv, AnnounceInv
  <2>4. \A i \in DOMAIN replies' : replies'[i].cmd = "ready" =>
          i = 1 /\ ready' /\ \A j \in DOMAIN calls' : calls'[j].cmd = "listen"
    BY <1>1, <1>3, <1>4 DEF EffectInv, AnnounceInv
  <2> QED BY <1>1, <2>1, <2>2, <2>3, <2>4 DEF AnnounceInv
<1> QED BY <1>5, <1>8, <1>9, <1>10 DEF EffectInv

-----------------------------------------------------------------------------
(* The page handles the reply at the head of the queue.                    *)

Resumes(m) == replies # <<>> /\ m = Head(replies) /\ replies' = Tail(replies)

LEMMA ResumesAt ==
  ASSUME EffectInv, NEW m, Resumes(m)
  PROVE  /\ m \in Reply /\ m.run \in Runs /\ 1 \in DOMAIN replies /\ m = replies[1]
         /\ replies' \in Seq(Reply)
         /\ \A i \in DOMAIN replies' :
              i \in Nat /\ i >= 1 /\ i + 1 \in DOMAIN replies /\ replies'[i] = replies[i + 1]
         /\ \A i \in DOMAIN replies : i # 1 => i - 1 \in DOMAIN replies' /\ replies'[i - 1] = replies[i]
         /\ \A i, j \in DOMAIN replies' : i < j => replies'[i].run < replies'[j].run
         /\ \A i \in DOMAIN replies' : replies'[i].run > m.run
         /\ \A i \in DOMAIN calls : Announcing(calls[i]) => calls[i].run > m.run
         /\ stage[m.run] = Awaiting(m.cmd)
<1>1. /\ m \in Reply /\ 1 \in DOMAIN replies /\ m = replies[1] /\ replies' \in Seq(Reply)
      /\ \A i \in DOMAIN replies' :
           i \in Nat /\ i >= 1 /\ i + 1 \in DOMAIN replies /\ replies'[i] = replies[i + 1]
      /\ \A i \in DOMAIN replies : i # 1 => i - 1 \in DOMAIN replies' /\ replies'[i - 1] = replies[i]
  BY TailAt DEF Resumes, EffectInv, EffectType
<1>2. m.run \in Runs /\ m.run \in Nat
  BY <1>1, UnderWay
<1>3. ASSUME NEW i \in DOMAIN replies' PROVE replies'[i].run > m.run
  <2>1. i + 1 \in DOMAIN replies /\ 1 < i + 1 /\ replies'[i] = replies[i + 1]
    BY <1>1
  <2>2. replies[1].run < replies[i + 1].run
    BY <1>1, <2>1 DEF EffectInv, OrderInv
  <2>3. replies[i + 1].run \in Nat
    BY <2>1, UnderWay
  <2> QED BY <1>1, <1>2, <2>1, <2>2, <2>3
<1>4. ASSUME NEW i \in DOMAIN replies', NEW j \in DOMAIN replies', i < j
      PROVE  replies'[i].run < replies'[j].run
  <2>1. /\ i + 1 \in DOMAIN replies /\ j + 1 \in DOMAIN replies /\ i + 1 < j + 1
        /\ replies'[i] = replies[i + 1] /\ replies'[j] = replies[j + 1]
    BY <1>1, <1>4
  <2> QED BY <2>1 DEF EffectInv, OrderInv
<1>5. ASSUME NEW i \in DOMAIN calls, Announcing(calls[i]) PROVE calls[i].run > m.run
  <2>1. replies[1].run < calls[i].run
    BY <1>1, <1>5 DEF EffectInv, OrderInv
  <2> QED BY <1>1, <1>2, <2>1, UnderWay
<1>6. stage[m.run] = Awaiting(m.cmd)
  BY <1>1 DEF EffectInv, StageInv
<1> QED BY <1>1, <1>2, <1>3, <1>4, <1>5, <1>6

\* The reply of the run that is mounted is the last message under way that
\* belongs to an installation.
LEMMA LastUnderWay ==
  ASSUME EffectInv, NEW m, Resumes(m), m.run = mounted
  PROVE  /\ mounted = mounts /\ mounted # 0
         /\ replies' = <<>> /\ \A i \in DOMAIN calls : ~Announcing(calls[i])
<1>1. mounted = mounts /\ mounted # 0 /\ mounts \in Nat
  BY ResumesAt, UnderWay DEF EffectInv, EffectType
<1>2. \A i \in DOMAIN calls : ~Announcing(calls[i])
  BY <1>1, ResumesAt, UnderWay
<1>3. ASSUME NEW i \in DOMAIN replies' PROVE FALSE
  <2>1. replies'[i].run > mounts /\ i + 1 \in DOMAIN replies /\ replies'[i] = replies[i + 1]
    BY <1>1, ResumesAt
  <2> QED BY <1>1, <2>1, UnderWay
<1>4. replies' = <<>>
  <2> SUFFICES ASSUME replies' # <<>> PROVE FALSE
    OBVIOUS
  <2>1. replies' \in Seq(Reply)
    BY ResumesAt
  <2>2. 1 \in DOMAIN replies'
    BY <2>1, TailAt
  <2> QED BY <1>3, <2>2
<1> QED BY <1>1, <1>2, <1>4

\* A run that was torn down meanwhile stops its listener and is over.
LEMMA CancelledEnds ==
  ASSUME EffectInv, NEW m, Resumes(m), m.run # mounted, UNCHANGED <<mounts, mounted>>,
         listening' = listening \ {m.run}, stage' = [stage EXCEPT ![m.run] = "over"],
         \A i \in DOMAIN calls : i \in DOMAIN calls' /\ calls'[i] = calls[i],
         \A i \in DOMAIN calls' : i \in DOMAIN calls \/ ~Announcing(calls'[i])
  PROVE  OrderInv' /\ StageInv'
<1>1. OrderInv'
  <2>1. \A i \in DOMAIN replies', j \in DOMAIN calls' :
          Announcing(calls'[j]) => replies'[i].run < calls'[j].run
    BY ResumesAt DEF EffectInv, OrderInv
  <2>2. \A i, j \in DOMAIN calls' :
          i < j /\ Announcing(calls'[i]) /\ Announcing(calls'[j]) => calls'[i].run < calls'[j].run
    BY DEF EffectInv, OrderInv
  <2>3. \A i, j \in DOMAIN replies' : i < j => replies'[i].run < replies'[j].run
    BY ResumesAt
  <2> QED BY <2>1, <2>2, <2>3 DEF OrderInv, Announcing
<1>2. m.run \in Runs /\ stage'[m.run] = "over" /\ \A k \in Runs : k # m.run => stage'[k] = stage[k]
  BY ResumesAt DEF EffectInv, EffectType
<1>3. \A i \in DOMAIN replies' : replies'[i].run \in Runs /\ replies'[i].run # m.run
  BY ResumesAt, UnderWay
<1>4. \A i \in DOMAIN calls : calls[i].run \in Runs /\ (Announcing(calls[i]) => calls[i].run # m.run)
  BY <1>2, ResumesAt, UnderWay
<1>5. \A k \in Runs : k > mounts <=> stage'[k] = "none"
  BY <1>2, ResumesAt DEF EffectInv, StageInv, Awaiting
<1>6. \A i \in DOMAIN replies' :
        /\ stage'[replies'[i].run] = Awaiting(replies'[i].cmd)
        /\ replies'[i].cmd = "listen" => replies'[i].run \in listening'
  BY <1>2, <1>3, ResumesAt DEF EffectInv, StageInv
<1>7. \A i \in DOMAIN calls' : Announcing(calls'[i]) =>
        /\ stage'[calls'[i].run] = Awaiting(calls'[i].cmd)
        /\ calls'[i].cmd = "listen" => calls'[i].run \notin listening'
  BY <1>2, <1>4 DEF EffectInv, StageInv
<1>8. \A k \in Runs : stage'[k] \in {"listening", "announcing"} =>
        \/ \E i \in DOMAIN replies' : replies'[i].run = k
        \/ \E i \in DOMAIN calls' : calls'[i].run = k /\ Announcing(calls'[i])
  <2> SUFFICES ASSUME NEW k \in Runs, k # m.run, stage[k] \in {"listening", "announcing"},
                      \A i \in DOMAIN calls : ~(calls[i].run = k /\ Announcing(calls[i]))
               PROVE  \E i \in DOMAIN replies' : replies'[i].run = k
    BY <1>2
  <2>1. PICK i \in DOMAIN replies : replies[i].run = k
    BY DEF EffectInv, StageInv
  <2> QED BY <2>1, ResumesAt
<1>9. /\ mounted # 0 => mounted \in Runs /\ stage'[mounted] = stage[mounted]
      /\ \A k \in listening' : k \in Runs /\ k # m.run
  BY <1>2, UnderWay, AgentBrokerAssumption DEF EffectInv, EffectType, Runs
<1>10. /\ mounted # 0 => stage'[mounted] \in {"listening", "announcing", "ready"}
       /\ mounted # 0 /\ stage'[mounted] # "listening" => mounted \in listening'
       /\ \A k \in listening' : stage'[k] = "listening" \/ k = mounted
  BY <1>2, <1>9 DEF EffectInv, StageInv
<1> QED BY <1>1, <1>5, <1>6, <1>7, <1>8, <1>10 DEF StageInv, Announcing

\* install goes on after listen.
LEMMA StepListened == ASSUME EffectInv, Listened PROVE EffectInv'
<1> DEFINE m == Head(replies)
<1>1. Resumes(m) /\ m.cmd = "listen" /\ UNCHANGED <<ready, mounted, mounts>>
  BY DEF Listened, RepliesNext, Resumes, rust
<1>2. /\ m.run # mounted => /\ listening' = listening \ {m.run}
                            /\ stage' = [stage EXCEPT ![m.run] = "over"] /\ UNCHANGED calls
      /\ m.run = mounted => /\ stage' = [stage EXCEPT ![m.run] = "announcing"]
                            /\ calls' = Append(calls, Call("ready", m.run)) /\ UNCHANGED listening
  BY DEF Listened, Cancelled
<1> HIDE DEF m
<1>3. /\ m \in Reply /\ m.run \in Runs /\ 1 \in DOMAIN replies /\ m = replies[1]
      /\ replies' \in Seq(Reply)
      /\ \A i \in DOMAIN replies' :
           i \in Nat /\ i >= 1 /\ i + 1 \in DOMAIN replies /\ replies'[i] = replies[i + 1]
      /\ \A i \in DOMAIN replies : i # 1 => i - 1 \in DOMAIN replies' /\ replies'[i - 1] = replies[i]
      /\ stage[m.run] = "listening"
  BY <1>1, ResumesAt DEF Awaiting
<1>4. \A k \in Runs : stage[k] # "ready"
  BY <1>1 DEF EffectInv, AnnounceInv, Resumes
<1>5. \A i \in DOMAIN calls : calls[i].cmd # "ready"
  BY <1>1 DEF EffectInv, AnnounceInv, Resumes
<1>6. CASE m.run # mounted
  <2>1. EffectType'
    BY <1>1, <1>2, <1>3, <1>6 DEF EffectInv, EffectType
  <2>2. OrderInv' /\ StageInv'
    BY <1>1, <1>2, <1>6, CancelledEnds
  <2>3. AnnounceInv'
    <3>1. \A k \in Runs : stage'[k] # "ready"
      BY <1>2, <1>4, <1>6 DEF EffectInv, EffectType
    <3>2. \A i \in DOMAIN replies' : replies'[i].cmd # "ready"
      <4> SUFFICES ASSUME NEW i \in DOMAIN replies' PROVE replies'[i].cmd # "ready"
        OBVIOUS
      <4>1. i + 1 \in DOMAIN replies /\ i + 1 # 1 /\ replies'[i] = replies[i + 1]
        BY <1>3
      <4> QED BY <4>1 DEF EffectInv, AnnounceInv
    <3>3. \A i \in DOMAIN replies : replies[i].cmd = "ready" => i = 1
      BY DEF EffectInv, AnnounceInv
    <3>4. ready => \E i \in DOMAIN calls : calls[i].cmd = "notReady"
      <4>1. ~(mounted # 0 /\ stage[mounted] = "ready")
        BY <1>4, AgentBrokerAssumption DEF EffectInv, EffectType, Runs
      <4> QED BY <1>1, <1>3, <3>3, <4>1 DEF EffectInv, AnnounceInv
    <3> QED BY <1>1, <1>2, <1>5, <1>6, <3>1, <3>2, <3>4 DEF AnnounceInv
  <2> QED BY <2>1, <2>2, <2>3 DEF EffectInv
<1>7. CASE m.run = mounted
  <2> DEFINE c == Call("ready", m.run)
  <2>1. /\ mounted = mounts /\ mounted # 0
        /\ replies' = <<>> /\ \A i \in DOMAIN calls : calls[i].cmd = "notReady"
    BY <1>1, <1>7, LastUnderWay DEF Announcing
  <2>2. c.cmd = "ready" /\ c.run = mounted /\ c \in Question
    BY <1>3, <1>7 DEF Call, Question
  <2>3. calls' = Append(calls, c)
    BY <1>2, <1>7
  <2> HIDE DEF c
  <2>4. /\ calls' \in Seq(Question)
        /\ Len(calls) \in Nat /\ Len(calls) + 1 \in DOMAIN calls'
        /\ calls'[Len(calls) + 1] = c
        /\ \A i \in DOMAIN calls : i \in DOMAIN calls' /\ calls'[i] = calls[i]
        /\ \A i \in DOMAIN calls : i \in Nat /\ i < Len(calls) + 1
        /\ \A i \in DOMAIN calls' : i \in DOMAIN calls \/ i = Len(calls) + 1
    BY <2>2, <2>3, AppendAt DEF EffectInv, EffectType
  <2>5. /\ stage'[mounted] = "announcing" /\ \A k \in Runs : k # mounted => stage'[k] = stage[k]
        /\ stage' \in [Runs -> {"none", "listening", "announcing", "ready", "over"}]
        /\ listening' = listening
    BY <1>2, <1>3, <1>7 DEF EffectInv, EffectType
  <2>6. EffectType'
    BY <1>1, <1>3, <2>4, <2>5 DEF EffectInv, EffectType
  <2>7. DOMAIN replies' = {}
    BY <2>1
  <2>8. OrderInv'
    BY <2>1, <2>4, <2>7 DEF OrderInv, Announcing
  <2>9. StageInv'
    <3>1. \A k \in Runs : k # mounted => stage[k] \notin {"listening", "announcing"}
      <4> SUFFICES ASSUME NEW k \in Runs, k # mounted, stage[k] \in {"listening", "announcing"} PROVE FALSE
        OBVIOUS
      <4>1. PICK i \in DOMAIN replies : replies[i].run = k
        BY <2>1 DEF EffectInv, StageInv, Announcing
      <4>2. i # 1
        BY <1>3, <1>7, <4>1
      <4> QED BY <1>3, <2>7, <4>2
    <3>2. \A k \in Runs : k > mounts <=> stage'[k] = "none"
      BY <1>3, <1>7, <2>5 DEF EffectInv, StageInv
    <3>3. mounted \in listening
      BY <1>1, <1>3, <1>7 DEF EffectInv, StageInv
    <3>4. \A i \in DOMAIN calls' : Announcing(calls'[i]) => calls'[i] = c
      BY <2>1, <2>4 DEF Announcing
    <3>5. \A k \in listening : k \in Runs /\ (stage'[k] = "listening" \/ k = mounted)
      BY <2>5 DEF EffectInv, StageInv, EffectType
    <3>6. \A k \in Runs : stage'[k] \in {"listening", "announcing"} =>
            \E i \in DOMAIN calls' : calls'[i].run = k /\ Announcing(calls'[i])
      BY <2>2, <2>4, <2>5, <3>1 DEF Announcing
    <3>7. \A i \in DOMAIN calls' : Announcing(calls'[i]) =>
            /\ stage'[calls'[i].run] = Awaiting(calls'[i].cmd)
            /\ calls'[i].cmd = "listen" => calls'[i].run \notin listening'
      BY <2>2, <2>5, <3>4 DEF Awaiting
    <3> QED BY <1>1, <2>5, <2>7, <3>2, <3>3, <3>5, <3>6, <3>7 DEF StageInv, Announcing
  <2>10. AnnounceInv'
    <3>1. \A k \in Runs : stage'[k] # "ready"
      BY <1>3, <1>4, <1>7, <2>5
    <3>2. ASSUME NEW i \in DOMAIN calls', calls'[i].cmd = "ready"
          PROVE  \A j \in DOMAIN calls' : calls'[j].cmd = IF j < i THEN "notReady" ELSE
                                                       IF j = i THEN "ready" ELSE "listen"
      <4>1. i = Len(calls) + 1
        BY <2>1, <2>4, <3>2
      <4> QED BY <2>1, <2>2, <2>4, <4>1
    <3>3. \A i \in DOMAIN replies : replies[i].cmd = "ready" => i = 1
      BY DEF EffectInv, AnnounceInv
    <3>4. ready => \E i \in DOMAIN calls' : calls'[i].cmd = "notReady"
      <4>1. stage[mounted] # "ready"
        BY <1>3, <1>7
      <4>2. ready => \E i \in DOMAIN calls : calls[i].cmd = "notReady"
        BY <1>1, <1>3, <3>3, <4>1 DEF EffectInv, AnnounceInv
      <4> QED BY <2>4, <4>2
    <3> QED BY <1>1, <2>1, <2>7, <3>1, <3>2, <3>4 DEF AnnounceInv
  <2> QED BY <2>6, <2>8, <2>9, <2>10 DEF EffectInv
<1> QED BY <1>6, <1>7

\* install goes on after the announcement.
LEMMA StepAnnounced == ASSUME EffectInv, Announced PROVE EffectInv'
<1> DEFINE m == Head(replies)
           c == Call("notReady", m.run)
<1>1. Resumes(m) /\ m.cmd = "ready" /\ UNCHANGED <<ready, mounted, mounts>>
  BY DEF Announced, RepliesNext, Resumes, rust
<1>2. /\ m.run # mounted => /\ listening' = listening \ {m.run}
                            /\ stage' = [stage EXCEPT ![m.run] = "over"] /\ calls' = Append(calls, c)
      /\ m.run = mounted => /\ stage' = [stage EXCEPT ![m.run] = "ready"]
                            /\ UNCHANGED <<listening, calls>>
  BY DEF Announced, Cancelled, UndoesAnnouncement
<1> HIDE DEF m
<1>3. /\ m \in Reply /\ m.run \in Runs /\ 1 \in DOMAIN replies /\ m = replies[1]
      /\ replies' \in Seq(Reply)
      /\ \A i \in DOMAIN replies' : i \in Nat /\ i >= 1 /\ i + 1 \in DOMAIN replies /\ replies'[i] = replies[i + 1]
      /\ stage[m.run] = "announcing"
  BY <1>1, ResumesAt DEF Awaiting
<1>4. /\ ready /\ \A i \in DOMAIN calls : calls[i].cmd = "listen"
      /\ \A k \in Runs : stage[k] # "ready"
  BY <1>1, <1>3 DEF EffectInv, AnnounceInv, Resumes
<1>5. \A i \in DOMAIN replies' : replies'[i].cmd # "ready"
  <2> SUFFICES ASSUME NEW i \in DOMAIN replies' PROVE replies'[i].cmd # "ready"
    OBVIOUS
  <2>1. i + 1 \in DOMAIN replies /\ i + 1 # 1 /\ replies'[i] = replies[i + 1]
    BY <1>3
  <2> QED BY <2>1 DEF EffectInv, AnnounceInv
<1>6. CASE m.run # mounted
  <2>1. c.cmd = "notReady" /\ c \in Question
    BY <1>3 DEF Call, Question
  <2>2. calls' = Append(calls, c)
    BY <1>2, <1>6
  <2> HIDE DEF c
  <2>3. /\ calls' \in Seq(Question)
        /\ Len(calls) + 1 \in DOMAIN calls' /\ calls'[Len(calls) + 1] = c
        /\ \A i \in DOMAIN calls : i \in DOMAIN calls' /\ calls'[i] = calls[i]
        /\ \A i \in DOMAIN calls' : i \in DOMAIN calls \/ i = Len(calls) + 1
    BY <2>1, <2>2, AppendAt DEF EffectInv, EffectType
  <2>4. EffectType'
    BY <1>1, <1>2, <1>3, <1>6, <2>3 DEF EffectInv, EffectType
  <2>5. \A i \in DOMAIN calls' : i \in DOMAIN calls \/ ~Announcing(calls'[i])
    BY <2>1, <2>3 DEF Announcing
  <2>6. OrderInv' /\ StageInv'
    BY <1>1, <1>2, <1>6, <2>3, <2>5, CancelledEnds
  <2>7. \A k \in Runs : stage'[k] # "ready"
    BY <1>2, <1>4, <1>6 DEF EffectInv, EffectType
  <2>8. \A i \in DOMAIN calls' : calls'[i].cmd # "ready"
    BY <1>4, <2>1, <2>3
  <2>9. AnnounceInv'
    BY <1>5, <2>1, <2>3, <2>7, <2>8 DEF AnnounceInv
  <2> QED BY <2>4, <2>6, <2>9 DEF EffectInv
<1>7. CASE m.run = mounted
  <2>1. /\ mounted = mounts /\ mounted # 0 /\ replies' = <<>> /\ DOMAIN replies' = {}
        /\ \A i \in DOMAIN calls : ~Announcing(calls[i])
    BY <1>1, <1>7, LastUnderWay
  <2>2. calls = <<>>
    <3> SUFFICES ASSUME calls # <<>> PROVE FALSE
      OBVIOUS
    <3>1. 1 \in DOMAIN calls
      BY TailAt DEF EffectInv, EffectType
    <3> QED BY <1>4, <2>1, <3>1 DEF Announcing
  <2>3. calls' = <<>> /\ DOMAIN calls' = {} /\ listening' = listening
    BY <1>2, <1>7, <2>2
  <2>4. /\ stage'[mounted] = "ready" /\ \A k \in Runs : k # mounted => stage'[k] = stage[k]
        /\ stage' \in [Runs -> {"none", "listening", "announcing", "ready", "over"}]
    BY <1>2, <1>3, <1>7 DEF EffectInv, EffectType
  <2>5. EffectType'
    BY <1>1, <1>3, <2>2, <2>3, <2>4 DEF EffectInv, EffectType
  <2>6. OrderInv'
    BY <2>1, <2>3 DEF OrderInv
  <2>7. StageInv'
    <3>1. \A k \in Runs : stage'[k] \notin {"listening", "announcing"}
      <4> SUFFICES ASSUME NEW k \in Runs, k # mounted, stage[k] \in {"listening", "announcing"} PROVE FALSE
        BY <2>4
      <4>1. PICK i \in DOMAIN replies : replies[i].run = k
        BY <2>1 DEF EffectInv, StageInv
      <4>2. i # 1
        BY <1>3, <1>7, <4>1
      <4>3. i - 1 \in DOMAIN replies'
        BY <1>1, <4>1, <4>2, ResumesAt
      <4> QED BY <2>1, <4>3
    <3>2. \A k \in Runs : k > mounts <=> stage'[k] = "none"
      BY <1>3, <1>7, <2>4 DEF EffectInv, StageInv
    <3>3. \A k \in listening : k = mounted
      BY <2>4, <3>1 DEF EffectInv, StageInv, EffectType
    <3>4. mounted \in listening
      BY <1>3, <1>7, <2>1 DEF EffectInv, StageInv
    <3> QED BY <1>1, <2>1, <2>3, <2>4, <3>1, <3>2, <3>3, <3>4 DEF StageInv
  <2>8. AnnounceInv'
    BY <1>1, <1>4, <2>1, <2>3, <2>4 DEF AnnounceInv
  <2> QED BY <2>5, <2>6, <2>7, <2>8 DEF EffectInv
<1> QED BY <1>6, <1>7

\* The teardown of the mounted run.
LEMMA StepUnmount == ASSUME EffectInv, Unmount PROVE EffectInv'
<1> DEFINE k == mounted
           c == Call("notReady", k)
<1>1. /\ k # 0 /\ mounted' = 0 /\ UNCHANGED <<ready, mounts, replies>>
      /\ listening' = IF stage[k] = "listening" THEN listening ELSE listening \ {k}
      /\ calls' = IF stage[k] = "ready" THEN Append(calls, c) ELSE calls
      /\ stage' = IF stage[k] = "ready" THEN [stage EXCEPT ![k] = "over"] ELSE stage
  BY DEF Unmount, rust
<1>2. k \in Runs /\ k = mounts /\ 0 \notin Runs
  BY <1>1, AgentBrokerAssumption DEF EffectInv, EffectType, Runs
<1>3. c.cmd = "notReady" /\ c \in Question
  BY <1>2 DEF Call, Question
<1> HIDE DEF c
<1>4. \A j \in listening : j \in Runs /\ (stage[j] = "listening" \/ j = k)
  BY DEF EffectInv, EffectType, StageInv
<1>5. CASE stage[k] = "ready"
  <2>1. /\ calls = <<>> /\ replies = <<>> /\ ready /\ \A j \in Runs : stage[j] = "ready" => j = k
    BY <1>2, <1>5 DEF EffectInv, AnnounceInv
  <2>2. DOMAIN calls = {} /\ DOMAIN replies = {} /\ calls \in Seq(Question)
    BY <2>1
  <2>3. calls' \in Seq(Question) /\ calls' = <<c>>
    BY <1>1, <1>3, <1>5, <2>1
  <2>4. DOMAIN calls' = {1} /\ calls'[1].cmd = "notReady"
    BY <1>3, <2>3
  <2>5. /\ stage'[k] = "over" /\ \A j \in Runs : j # k => stage'[j] = stage[j]
        /\ stage' \in [Runs -> {"none", "listening", "announcing", "ready", "over"}]
    BY <1>1, <1>2, <1>5 DEF EffectInv, EffectType
  <2>6. listening' = listening \ {k}
    BY <1>1, <1>5
  <2>7. EffectType'
    BY <1>1, <2>3, <2>5, <2>6 DEF EffectInv, EffectType
  <2>8. \A j \in Runs : stage'[j] \notin {"listening", "announcing", "ready"}
    BY <2>1, <2>2, <2>5 DEF EffectInv, StageInv
  <2>9. listening' = {}
    BY <1>4, <2>6, <2>5, <2>8
  <2>10. \A j \in Runs : j > mounts <=> stage'[j] = "none"
    BY <1>2, <1>5, <2>5 DEF EffectInv, StageInv
  <2>11. OrderInv' /\ StageInv' /\ AnnounceInv'
    BY <1>1, <2>1, <2>2, <2>4, <2>8, <2>9, <2>10 DEF OrderInv, StageInv, AnnounceInv, Announcing
  <2> QED BY <2>7, <2>11 DEF EffectInv
<1>6. CASE stage[k] # "ready"
  <2>1. UNCHANGED <<calls, replies, stage, ready, mounts>>
    BY <1>1, <1>6
  <2>2. listening' \subseteq listening /\ \A j \in Runs : j \in listening /\ j # k => j \in listening'
    BY <1>1
  <2>3. EffectType' /\ OrderInv'
    BY <1>1, <2>1, <2>2 DEF EffectInv, EffectType, OrderInv
  <2>4. \A j \in listening' : stage[j] = "listening"
    BY <1>1, <1>4
  <2>5. \A j \in Runs : stage[j] = "listening" /\ j \in listening => j \in listening'
    BY <1>1
  <2>6. \A i \in DOMAIN replies : replies[i].cmd = "listen" => replies[i].run \in listening'
    <3> SUFFICES ASSUME NEW i \in DOMAIN replies, replies[i].cmd = "listen"
                 PROVE  replies[i].run \in listening'
      OBVIOUS
    <3>1. replies[i].run \in listening /\ stage[replies[i].run] = "listening" /\ replies[i].run \in Runs
      BY UnderWay DEF EffectInv, StageInv, Awaiting
    <3> QED BY <2>5, <3>1
  <2>7. StageInv'
    BY <1>1, <2>1, <2>2, <2>4, <2>6 DEF EffectInv, StageInv, Announcing
  <2>8. AnnounceInv'
    BY <1>1, <1>2, <1>6, <2>1 DEF EffectInv, AnnounceInv
  <2> QED BY <2>3, <2>7, <2>8 DEF EffectInv
<1> QED BY <1>5, <1>6

\* The other steps leave the runs and their calls alone.
LEMMA StepEffectIdle == ASSUME EffectInv, UNCHANGED effectVars PROVE EffectInv'
BY DEF EffectInv, EffectType, OrderInv, StageInv, AnnounceInv, effectVars, Announcing

ElsewhereStep ==
  TakeUp \/ Cancel \/ \E r \in Requests : Complete(r) \/ Respond(r) \/ Relaunch(r) \/ ThreadStep(r)

LEMMA ElsewhereIdle == ElsewhereStep => UNCHANGED effectVars
BY DEF ElsewhereStep, effectVars, ThreadStep, TakeUp, Cancel, Complete, Respond, Relaunch,
       Dispatch, Emit, GiveUp, Deliver, DeliveryTimesOut, rust, effect, ipc

LEMMA NextEffect == ASSUME EffectInv, [Next]_vars PROVE EffectInv'
<1>1. CASE CallStep
  BY <1>1, StepListen, StepFrontendReady, StepFrontendNotReady DEF CallStep
<1>2. CASE EffectStep
  BY <1>2, StepMount, StepListened, StepAnnounced, StepUnmount DEF EffectStep
<1>3. CASE ElsewhereStep
  BY <1>3, ElsewhereIdle, StepEffectIdle
<1>4. CASE UNCHANGED vars
  BY <1>4, StepEffectIdle DEF vars, rust, effect, ipc, effectVars
<1> QED BY <1>1, <1>2, <1>3, <1>4 DEF Next, PageStep, ElsewhereStep

LEMMA EffectInductive == Spec => []EffectInv
<1> QED BY InitEffect, NextEffect, PTL DEF Spec

\* What a finished exchange shows.
LEMMA EffectSettles == EffectInv => BrokerKnowsListener
<1> SUFFICES ASSUME EffectInv, calls = <<>>, replies = <<>>
             PROVE  (ready <=> mounted # 0) /\ listening = {mounted} \ {0}
  BY DEF BrokerKnowsListener
<1>1. DOMAIN calls = {} /\ DOMAIN replies = {}
  OBVIOUS
<1>2. \A k \in Runs : stage[k] \notin {"listening", "announcing"}
  BY <1>1 DEF EffectInv, StageInv
<1>3. mounted # 0 => mounted \in Runs /\ stage[mounted] = "ready" /\ mounted \in listening
  BY <1>2, AgentBrokerAssumption DEF EffectInv, EffectType, StageInv, Runs
<1>4. \A k \in listening : k = mounted /\ k # 0
  BY <1>2, UnderWay DEF EffectInv, EffectType, StageInv
<1>5. ready => mounted # 0
  BY <1>1 DEF EffectInv, AnnounceInv
<1>6. mounted # 0 => ready
  BY <1>3 DEF EffectInv, AnnounceInv
<1>7. listening = {mounted} \ {0}
  BY <1>3, <1>4
<1> QED BY <1>5, <1>6, <1>7

\* Once the calls are done the broker knows whether anybody listens, however
\* often the bridge was installed and torn down in between.
THEOREM BrokerKnows == Spec => []BrokerKnowsListener
BY EffectInductive, EffectSettles, PTL

-----------------------------------------------------------------------------
(* The broker and the threads of the requests.                             *)

\* The broker holds a request exactly while its client waits and its thread
\* has nothing in its channel; an import is done when its client was answered.
BrokerInv ==
  /\ pending \subseteq Requests /\ IsFiniteSet(pending) /\ Cardinality(pending) <= MaxPending
  /\ client \in [Requests -> {"new", "emitting", "waiting", "refused", "answered",
                              "unavailable", "gone"}]
  /\ inbox \in [Requests -> {None, "answer", "unavailable"}]
  /\ delivery \in [Requests -> {None, "awaited", "done", "failed"}]
  /\ \A r \in pending : client[r] \in {"emitting", "waiting"} /\ inbox[r] = None
  /\ \A r \in Requests : client[r] = "new" => inbox[r] = None
  /\ \A r \in Requests : client[r] \in {"emitting", "waiting"} /\ r \notin pending => inbox[r] # None
  /\ \A r \in Requests : Kind[r] = "import" /\ delivery[r] = "done" => client[r] = "answered"
  /\ relaunched => \E r \in Requests : Kind[r] = "import" /\ client[r] = "answered"

LEMMA InitBroker == Init => BrokerInv
<1> SUFFICES ASSUME Init PROVE BrokerInv
  OBVIOUS
<1>1. IsFiniteSet(pending) /\ Cardinality(pending) = 0
  BY FS_EmptySet DEF Init
<1> QED BY <1>1, AgentBrokerAssumption DEF Init, BrokerInv

\* A set the broker takes a request from, or empties, stays within its bound.
LEMMA FewerPending ==
  ASSUME BrokerInv, pending' \subseteq pending
  PROVE  IsFiniteSet(pending') /\ Cardinality(pending') <= MaxPending
<1>1. /\ IsFiniteSet(pending) /\ IsFiniteSet(pending')
      /\ Cardinality(pending') <= Cardinality(pending)
  BY FS_Subset DEF BrokerInv
<1>2. Cardinality(pending) \in Nat /\ Cardinality(pending') \in Nat
  BY <1>1, FS_CardinalityType
<1> QED BY <1>1, <1>2, AgentBrokerAssumption DEF BrokerInv

LEMMA StepDispatch == ASSUME BrokerInv, NEW r \in Requests, Dispatch(r) PROVE BrokerInv'
<1>1. CASE ready /\ ~Full
  <2>1. /\ client[r] = "new" /\ pending' = pending \cup {r}
        /\ client' = [client EXCEPT ![r] = "emitting"] /\ UNCHANGED <<inbox, delivery, relaunched>>
    BY <1>1 DEF Dispatch, after
  <2>2. r \notin pending /\ IsFiniteSet(pending) /\ Cardinality(pending) \in Nat
    BY <2>1, FS_CardinalityType DEF BrokerInv
  <2>3. Cardinality(pending) < MaxPending
    BY <1>1, <2>2, AgentBrokerAssumption DEF Full
  <2>4. IsFiniteSet(pending') /\ Cardinality(pending') <= MaxPending
    <3>1. IsFiniteSet(pending \cup {r}) /\ Cardinality(pending \cup {r}) = Cardinality(pending) + 1
      BY <2>2, FS_AddElement
    <3> QED BY <2>1, <2>2, <2>3, <3>1, AgentBrokerAssumption
  <2> QED BY <2>1, <2>4 DEF BrokerInv
<1>2. CASE ~(ready /\ ~Full)
  <2>1. /\ client[r] = "new" /\ client' = [client EXCEPT ![r] = "refused"]
        /\ UNCHANGED <<pending, inbox, delivery, relaunched>>
    BY <1>2 DEF Dispatch, after
  <2> QED BY <2>1 DEF BrokerInv
<1> QED BY <1>1, <1>2

LEMMA StepEmit == ASSUME BrokerInv, NEW r \in Requests, Emit(r) PROVE BrokerInv'
<1>1. client[r] = "emitting" /\ UNCHANGED <<inbox, delivery, relaunched>>
  BY DEF Emit, after
<1>2. CASE client' = [client EXCEPT ![r] = "waiting"] /\ UNCHANGED pending
  BY <1>1, <1>2 DEF BrokerInv
<1>3. CASE client' = [client EXCEPT ![r] = "refused"] /\ pending' = pending \ {r}
  BY <1>1, <1>3, FewerPending DEF BrokerInv
<1> QED BY <1>2, <1>3 DEF Emit, CancelPending

LEMMA StepGiveUp == ASSUME BrokerInv, NEW r \in Requests, GiveUp(r) PROVE BrokerInv'
<1>1. /\ client[r] = "waiting" /\ client' = [client EXCEPT ![r] = "gone"] /\ pending' = pending \ {r}
      /\ UNCHANGED <<inbox, relaunched>>
      /\ \A q \in Requests : delivery'[q] = "done" => delivery[q] = "done"
      /\ delivery' \in [Requests -> {None, "awaited", "done", "failed"}]
  BY DEF GiveUp, CancelPending, Close, BrokerInv
<1> QED BY <1>1, FewerPending DEF BrokerInv

LEMMA StepDeliver == ASSUME BrokerInv, NEW r \in Requests, Deliver(r) PROVE BrokerInv'
<1>1. /\ client[r] = "waiting" /\ r \notin pending /\ UNCHANGED <<pending, inbox, relaunched>>
      /\ delivery' \in [Requests -> {None, "awaited", "done", "failed"}]
      /\ \A q \in Requests : q # r /\ delivery'[q] = "done" => delivery[q] = "done"
      /\ client' \in [Requests -> {"new", "emitting", "waiting", "refused", "answered",
                                   "unavailable", "gone"}]
      /\ \A q \in Requests : q # r => client'[q] = client[q]
      /\ client'[r] \in {"answered", "unavailable", "gone"}
  BY DEF Deliver, Close, BrokerInv
<1>2. Kind[r] = "import" /\ delivery'[r] = "done" => client'[r] = "answered"
  BY <1>1 DEF Deliver, Close, BrokerInv
<1> QED BY <1>1, <1>2 DEF BrokerInv

LEMMA StepRespond == ASSUME BrokerInv, NEW r \in Requests, Respond(r) PROVE BrokerInv'
<1>1. pending' = pending \ {r} /\ UNCHANGED <<client, relaunched>>
  BY DEF Respond
<1>2. /\ \A q \in Requests : q # r => inbox'[q] = inbox[q] /\ delivery'[q] = delivery[q]
      /\ inbox' \in [Requests -> {None, "answer", "unavailable"}]
      /\ delivery' \in [Requests -> {None, "awaited", "done", "failed"}]
      /\ r \notin pending => inbox'[r] = inbox[r]
      /\ r \in pending => inbox'[r] = "answer"
      /\ Kind[r] = "import" => delivery'[r] # "done"
  BY DEF Respond, BrokerInv, AwaitsDelivery
<1> QED BY <1>1, <1>2, FewerPending, AgentBrokerAssumption DEF BrokerInv

LEMMA StepFailAll == ASSUME BrokerInv, FrontendNotReady PROVE BrokerInv'
<1>1. /\ pending' = {} /\ UNCHANGED <<client, delivery, relaunched>>
      /\ inbox' = [r \in Requests |-> IF r \in pending THEN "unavailable" ELSE inbox[r]]
  BY DEF FrontendNotReady, after
<1> QED BY <1>1, FewerPending, AgentBrokerAssumption DEF BrokerInv

LEMMA StepOutcome ==
  ASSUME BrokerInv, NEW r \in Requests, DeliveryTimesOut(r) \/ Relaunch(r) PROVE BrokerInv'
<1>1. UNCHANGED <<pending, client, inbox>>
  BY DEF DeliveryTimesOut, Relaunch, rust
<1>2. CASE DeliveryTimesOut(r)
  BY <1>1, <1>2 DEF DeliveryTimesOut, BrokerInv
<1>3. CASE Relaunch(r)
  BY <1>1, <1>3 DEF Relaunch, BrokerInv
<1> QED BY <1>2, <1>3

brokerVars == <<pending, client, inbox, delivery, relaunched>>

LEMMA StepBrokerIdle == ASSUME BrokerInv, UNCHANGED brokerVars PROVE BrokerInv'
BY DEF BrokerInv, brokerVars

\* Steps of the page and of the effect that the threads do not see.
PageOnly ==
  \/ Listen \/ FrontendReady \/ EffectStep \/ TakeUp \/ Cancel
  \/ \E r \in Requests : Complete(r)

LEMMA PageOnlyIdle == PageOnly => UNCHANGED brokerVars
BY DEF PageOnly, brokerVars, EffectStep, Listen, FrontendReady, Mount, Listened, Announced,
       Unmount, TakeUp, Cancel, Complete, rust, after

LEMMA NextCases ==
  ASSUME Next
  PROVE  \/ PageOnly \/ FrontendNotReady
         \/ \E r \in Requests :
              \/ Dispatch(r) \/ Emit(r) \/ GiveUp(r) \/ Deliver(r) \/ Respond(r)
              \/ DeliveryTimesOut(r) \/ Relaunch(r)
BY DEF Next, CallStep, EffectStep, PageStep, ThreadStep, PageOnly

LEMMA NextBroker == ASSUME BrokerInv, [Next]_vars PROVE BrokerInv'
<1>1. CASE UNCHANGED vars
  BY <1>1, StepBrokerIdle DEF vars, rust, after, brokerVars
<1>2. CASE PageOnly
  BY <1>2, PageOnlyIdle, StepBrokerIdle
<1> QED BY <1>1, <1>2, NextCases, StepDispatch, StepEmit, StepGiveUp, StepDeliver, StepRespond,
           StepFailAll, StepOutcome

\* The app reloads only after the client of an import has its answer.
THEOREM RelaunchIsAfterDelivery == Spec => []RelaunchAfterDelivery
<1>1. BrokerInv => RelaunchAfterDelivery
  BY DEF BrokerInv, RelaunchAfterDelivery
<1> QED BY <1>1, InitBroker, NextBroker, PTL DEF Spec

-----------------------------------------------------------------------------
(* The events and what the page does with them.                            *)

Envelope == [type : {"request", "cancel"}, id : Requests, to : SUBSET Runs]
Early(r) == client[r] \in {"new", "emitting"}

PageType ==
  /\ events \in Seq(Envelope)
  /\ handled \in [Requests -> SUBSET Runs]
  /\ running \subseteq Requests /\ answers \subseteq Requests

\* A request is emitted once, before its cancellation, and on its way nobody
\* has taken it up.
QueueInv ==
  /\ \A i \in DOMAIN events : ~Early(events[i].id)
  /\ \A i \in DOMAIN events : events[i].type = "request" => handled[events[i].id] = {}
  /\ \A i, j \in DOMAIN events :
       events[i].type = "request" /\ events[j].type = "request" /\ events[i].id = events[j].id => i = j
  /\ \A i, j \in DOMAIN events :
       events[i].type = "request" /\ events[j].type = "cancel" /\ events[i].id = events[j].id => i < j

\* What runs was taken up, and has no answer.
WorkInv ==
  /\ \A r \in Requests : handled[r] # {} => ~Early(r)
  /\ \A r \in running : handled[r] # {} /\ r \notin answers /\ inbox[r] # "answer"
  /\ \A r \in answers : handled[r] # {}
  /\ \A r \in Requests : inbox[r] = "answer" => handled[r] # {}

PageInv == PageType /\ QueueInv /\ WorkInv

LEMMA InitPage == Init => PageInv
<1> SUFFICES ASSUME Init PROVE PageInv
  OBVIOUS
<1>1. events = <<>> /\ DOMAIN events = {} /\ events \in Seq(Envelope)
  BY DEF Init
<1> QED BY <1>1, AgentBrokerAssumption DEF Init, PageInv, PageType, QueueInv, WorkInv, Early

LEMMA EnvelopeAt ==
  ASSUME PageType
  PROVE  \A i \in DOMAIN events :
           /\ events[i] \in Envelope /\ events[i].id \in Requests /\ events[i].to \subseteq Runs
           /\ events[i].type \in {"request", "cancel"} /\ i \in Nat /\ i >= 1
<1> SUFFICES ASSUME NEW i \in DOMAIN events PROVE events[i] \in Envelope /\ i \in Nat /\ i >= 1
  BY DEF Envelope
<1> QED BY ElementAt DEF PageType

\* An event is emitted to the listeners of the moment.
Posts(type, r) == events' = Append(events, Event(type, r))

LEMMA PostsAt ==
  ASSUME PageType, EffectInv, NEW type \in {"request", "cancel"}, NEW r \in Requests, Posts(type, r)
  PROVE  /\ events' \in Seq(Envelope)
         /\ Len(events) \in Nat /\ Len(events) + 1 \in DOMAIN events'
         /\ events'[Len(events) + 1].type = type /\ events'[Len(events) + 1].id = r
         /\ events'[Len(events) + 1].to = listening
         /\ \A i \in DOMAIN events : i \in DOMAIN events' /\ events'[i] = events[i]
         /\ \A i \in DOMAIN events : i \in Nat /\ i < Len(events) + 1
         /\ \A i \in DOMAIN events' : i \in DOMAIN events \/ i = Len(events) + 1
<1>1. Event(type, r) \in Envelope
  BY DEF Event, Envelope, EffectInv, EffectType
<1>2. /\ Event(type, r).type = type /\ Event(type, r).id = r /\ Event(type, r).to = listening
  BY DEF Event
<1> QED BY <1>1, <1>2, AppendAt DEF Posts, PageType

\* The page takes the event at the head of the queue.
Takes == events # <<>> /\ events' = Tail(events)

LEMMA TakesAt ==
  ASSUME PageType, Takes
  PROVE  /\ 1 \in DOMAIN events /\ Head(events) = events[1] /\ Head(events).id \in Requests
         /\ events' \in Seq(Envelope)
         /\ \A i \in DOMAIN events' :
              i \in Nat /\ i >= 1 /\ i + 1 \in DOMAIN events /\ events'[i] = events[i + 1]
         /\ \A i \in DOMAIN events : i # 1 => i - 1 \in DOMAIN events' /\ events'[i - 1] = events[i]
BY TailAt, EnvelopeAt DEF Takes, PageType

\* A request or its cancellation is added, or nothing.
LEMMA PostingKeepsQueue ==
  ASSUME PageType, QueueInv, EffectInv, NEW r \in Requests,
         \A q \in Requests : client'[q] \in {"new", "emitting"} => Early(q),
         client'[r] \notin {"new", "emitting"},
         \/ Posts("request", r) /\ Early(r) /\ handled[r] = {}
         \/ Posts("cancel", r)
         \/ UNCHANGED events,
         UNCHANGED handled
  PROVE  QueueInv' /\ events' \in Seq(Envelope)
<1>1. CASE Posts("request", r) /\ Early(r) /\ handled[r] = {}
  <2>1. \A i \in DOMAIN events : events[i].id \in Requests /\ events[i].id # r
    BY <1>1, EnvelopeAt DEF QueueInv
  <2>2. \A i \in DOMAIN events' : client'[events'[i].id] \notin {"new", "emitting"}
    BY <1>1, <2>1, PostsAt DEF QueueInv, Early
  <2>3. \A i \in DOMAIN events' : events'[i].type = "request" => handled'[events'[i].id] = {}
    BY <1>1, PostsAt DEF QueueInv
  <2>4. \A i, j \in DOMAIN events' :
          events'[i].type = "request" /\ events'[j].type = "request" /\ events'[i].id = events'[j].id
            => i = j
    BY <1>1, <2>1, PostsAt DEF QueueInv
  <2>5. \A i, j \in DOMAIN events' :
          events'[i].type = "request" /\ events'[j].type = "cancel" /\ events'[i].id = events'[j].id
            => i < j
    BY <1>1, <2>1, PostsAt DEF QueueInv
  <2>6. events' \in Seq(Envelope)
    BY <1>1, PostsAt
  <2> QED BY <2>2, <2>3, <2>4, <2>5, <2>6 DEF QueueInv, Early
<1>2. CASE Posts("cancel", r)
  <2>1. \A i \in DOMAIN events : events[i].id \in Requests
    BY EnvelopeAt
  <2>2. \A i \in DOMAIN events' : client'[events'[i].id] \notin {"new", "emitting"}
    BY <1>2, <2>1, PostsAt DEF QueueInv, Early
  <2>3. \A i \in DOMAIN events' : events'[i].type = "request" => handled'[events'[i].id] = {}
    BY <1>2, PostsAt DEF QueueInv
  <2>4. \A i, j \in DOMAIN events' :
          events'[i].type = "request" /\ events'[j].type = "request" /\ events'[i].id = events'[j].id
            => i = j
    BY <1>2, PostsAt DEF QueueInv
  <2>5. \A i, j \in DOMAIN events' :
          events'[i].type = "request" /\ events'[j].type = "cancel" /\ events'[i].id = events'[j].id
            => i < j
    BY <1>2, PostsAt DEF QueueInv
  <2>6. events' \in Seq(Envelope)
    BY <1>2, PostsAt
  <2> QED BY <2>2, <2>3, <2>4, <2>5, <2>6 DEF QueueInv, Early
<1>3. CASE UNCHANGED events
  BY <1>3, EnvelopeAt DEF QueueInv, Early, PageType
<1> QED BY <1>1, <1>2, <1>3

LEMMA TakingKeepsQueue ==
  ASSUME PageType, QueueInv, Takes, UNCHANGED client,
         \A r \in Requests : handled'[r] # handled[r] => events[1].type = "request" /\ events[1].id = r
  PROVE  QueueInv' /\ events' \in Seq(Envelope)
<1>1. ASSUME NEW i \in DOMAIN events'
      PROVE  /\ i \in Nat /\ i + 1 \in DOMAIN events /\ i + 1 # 1 /\ events'[i] = events[i + 1]
             /\ events[i + 1].id \in Requests
  BY TakesAt, EnvelopeAt
<1>2. \A i \in DOMAIN events' : client'[events'[i].id] \notin {"new", "emitting"}
  BY <1>1 DEF QueueInv, Early
<1>3. \A i \in DOMAIN events' : events'[i].type = "request" => handled'[events'[i].id] = {}
  <2> SUFFICES ASSUME NEW i \in DOMAIN events', events'[i].type = "request"
               PROVE  handled'[events'[i].id] = {}
    OBVIOUS
  <2>1. handled[events'[i].id] = {}
    BY <1>1 DEF QueueInv
  <2>2. ~(events[1].type = "request" /\ events[1].id = events'[i].id)
    BY <1>1, TakesAt DEF QueueInv
  <2> QED BY <1>1, <2>1, <2>2
<1>4. \A i, j \in DOMAIN events' :
        events'[i].type = "request" /\ events'[j].type = "request" /\ events'[i].id = events'[j].id
          => i = j
  BY <1>1 DEF QueueInv
<1>5. \A i, j \in DOMAIN events' :
        events'[i].type = "request" /\ events'[j].type = "cancel" /\ events'[i].id = events'[j].id
          => i < j
  BY <1>1 DEF QueueInv
<1> QED BY <1>2, <1>3, <1>4, <1>5, TakesAt DEF QueueInv, Early

\* The steps of a thread, and the answer of a request.
LEMMA StepPageThreads ==
  ASSUME BrokerInv, EffectInv, PageInv, NEW r \in Requests,
         Dispatch(r) \/ Emit(r) \/ GiveUp(r) \/ Deliver(r) \/ Respond(r)
  PROVE  PageInv'
<1>1. CASE Dispatch(r)
  <2>1. /\ client' \in [Requests -> {"new", "emitting", "waiting", "refused", "answered",
                                     "unavailable", "gone"}]
        /\ \A q \in Requests : client'[q] \in {"new", "emitting"} => Early(q)
        /\ UNCHANGED <<events, handled, running, answers, inbox>>
    BY <1>1 DEF Dispatch, BrokerInv, Early, work
  <2>2. QueueInv'
    BY <2>1, EnvelopeAt DEF PageInv, QueueInv, Early
  <2> QED BY <2>1, <2>2 DEF PageInv, PageType, WorkInv, Early
<1>2. CASE Emit(r)
  <2>1. /\ client[r] = "emitting" /\ client'[r] \in {"waiting", "refused"}
        /\ \A q \in Requests : q # r => client'[q] = client[q]
        /\ Posts("request", r) \/ Posts("cancel", r) \/ UNCHANGED events
        /\ UNCHANGED <<handled, running, answers, inbox>>
    BY <1>2 DEF Emit, CancelPending, Posts, BrokerInv, work
  <2>2. Early(r) /\ handled[r] = {} /\ \A q \in Requests : client'[q] \in {"new", "emitting"} => Early(q)
    BY <2>1 DEF PageInv, WorkInv, Early
  <2>3. QueueInv' /\ events' \in Seq(Envelope)
    BY <2>1, <2>2, PostingKeepsQueue DEF PageInv
  <2> QED BY <2>1, <2>2, <2>3 DEF PageInv, PageType, WorkInv, Early
<1>3. CASE GiveUp(r)
  <2>1. /\ client[r] = "waiting" /\ client'[r] = "gone"
        /\ \A q \in Requests : q # r => client'[q] = client[q]
        /\ Posts("cancel", r) \/ UNCHANGED events
        /\ UNCHANGED <<handled, running, answers, inbox>>
    BY <1>3 DEF GiveUp, CancelPending, Posts, BrokerInv, work
  <2>2. \A q \in Requests : client'[q] \in {"new", "emitting"} => Early(q)
    BY <2>1 DEF Early
  <2>3. QueueInv' /\ events' \in Seq(Envelope)
    BY <2>1, <2>2, PostingKeepsQueue DEF PageInv
  <2> QED BY <2>1, <2>2, <2>3 DEF PageInv, PageType, WorkInv, Early
<1>4. CASE Deliver(r)
  <2>1. /\ \A q \in Requests : client'[q] \in {"new", "emitting"} => Early(q)
        /\ UNCHANGED <<events, handled, running, answers, inbox>>
    BY <1>4 DEF Deliver, BrokerInv, Early, work
  <2>2. QueueInv'
    BY <2>1, EnvelopeAt DEF PageInv, QueueInv, Early
  <2> QED BY <2>1, <2>2 DEF PageInv, PageType, WorkInv, Early
<1>5. CASE Respond(r)
  <2>1. /\ r \in answers /\ answers' = answers \ {r}
        /\ \A q \in Requests : q # r => inbox'[q] = inbox[q]
        /\ UNCHANGED <<events, handled, running, client>>
    BY <1>5 DEF Respond, BrokerInv
  <2>2. QueueInv'
    BY <2>1 DEF PageInv, QueueInv, Early
  <2> QED BY <2>1, <2>2 DEF PageInv, PageType, WorkInv, Early
<1> QED BY <1>1, <1>2, <1>3, <1>4, <1>5

LEMMA StepTakeUp == ASSUME PageInv, TakeUp PROVE PageInv'
<1> DEFINE r == events[1].id
<1>1. /\ Takes /\ events[1].type = "request" /\ r \in Requests
      /\ handled' = [handled EXCEPT ![r] = @ \cup Reached]
      /\ running' = IF Reached = {} THEN running ELSE running \cup {r}
      /\ UNCHANGED <<client, answers, inbox>>
  <2>1. Takes
    BY DEF TakeUp, Takes
  <2>2. 1 \in DOMAIN events /\ Head(events) = events[1] /\ Head(events).id \in Requests
    BY <2>1, TakesAt DEF PageInv
  <2> QED BY <2>1, <2>2 DEF TakeUp, rust
<1>2. Reached \subseteq Runs /\ handled[r] = {}
  BY <1>1, TakesAt, EnvelopeAt DEF Reached, PageInv, QueueInv
<1> HIDE DEF r
<1>3. handled' \in [Requests -> SUBSET Runs] /\ handled'[r] = Reached
  BY <1>1, <1>2 DEF PageInv, PageType
<1>4. \A q \in Requests : q # r => handled'[q] = handled[q]
  BY <1>1 DEF PageInv, PageType
<1>5. QueueInv' /\ events' \in Seq(Envelope)
  BY <1>1, <1>4, TakingKeepsQueue DEF PageInv, r
<1>6. ~Early(r) /\ r \notin answers /\ inbox[r] # "answer"
  BY <1>1, <1>2, TakesAt DEF PageInv, QueueInv, WorkInv, r
<1>7. WorkInv'
  BY <1>1, <1>2, <1>3, <1>4, <1>6 DEF PageInv, WorkInv, Early
<1>8. running' \subseteq Requests /\ answers' \subseteq Requests
  BY <1>1 DEF PageInv, PageType
<1> QED BY <1>3, <1>5, <1>7, <1>8 DEF PageInv, PageType

LEMMA StepCancel == ASSUME PageInv, Cancel PROVE PageInv'
<1>1. Takes /\ running' \subseteq running /\ UNCHANGED <<client, answers, inbox, handled>>
  BY DEF Cancel, Takes, rust
<1>2. QueueInv' /\ events' \in Seq(Envelope)
  BY <1>1, TakingKeepsQueue DEF PageInv
<1> QED BY <1>1, <1>2 DEF PageInv, PageType, WorkInv, Early

\* The other steps post and take nothing; work may end.
LEMMA StepPageRest ==
  ASSUME PageInv, UNCHANGED <<events, handled, client>>,
         running' \subseteq running, answers' \subseteq answers \cup (running \ running'),
         \A r \in Requests : inbox'[r] = "answer" => inbox[r] = "answer"
  PROVE  PageInv'
<1>1. QueueInv'
  BY DEF PageInv, QueueInv, Early
<1>2. WorkInv'
  BY DEF PageInv, PageType, WorkInv, Early
<1> QED BY <1>1, <1>2 DEF PageInv, PageType

LEMMA NextPage == ASSUME BrokerInv, EffectInv, PageInv, [Next]_vars PROVE PageInv'
<1>1. CASE UNCHANGED vars
  BY <1>1, StepPageRest DEF vars, rust, work
<1>2. CASE Listen \/ FrontendReady \/ EffectStep
  <2>1. UNCHANGED <<events, handled, client, answers, inbox>> /\ running' \subseteq running
    BY <1>2 DEF Listen, FrontendReady, EffectStep, Mount, Listened, Announced, Unmount, rust, work
  <2> QED BY <2>1, StepPageRest
<1>3. CASE FrontendNotReady
  <2>1. UNCHANGED <<events, handled, client, answers, running>>
    BY <1>3 DEF FrontendNotReady, work
  <2>2. \A r \in Requests : inbox'[r] = "answer" => inbox[r] = "answer"
    BY <1>3 DEF FrontendNotReady
  <2> QED BY <2>1, <2>2, StepPageRest
<1>4. CASE \E r \in Requests : Complete(r)
  <2>1. /\ UNCHANGED <<events, handled, client, inbox>>
        /\ running' \subseteq running /\ answers' \subseteq answers \cup (running \ running')
    BY <1>4 DEF Complete, rust
  <2> QED BY <2>1, StepPageRest
<1>5. CASE \E r \in Requests : DeliveryTimesOut(r) \/ Relaunch(r)
  <2>1. UNCHANGED <<events, handled, client, inbox, running, answers>>
    BY <1>5 DEF DeliveryTimesOut, Relaunch, rust, work
  <2> QED BY <2>1, StepPageRest
<1>6. CASE TakeUp \/ Cancel
  BY <1>6, StepTakeUp, StepCancel
<1> QED BY <1>1, <1>2, <1>3, <1>4, <1>5, <1>6, NextCases, StepPageThreads DEF PageOnly

\* Every request is taken up once, by the mounted run, and otherwise only by
\* runs that were torn down while they registered their listener.
THEOREM TakenUpOnceHolds == Spec => TakenUpOnce
<1> DEFINE Once == \A r \in Requests : handled'[r] # handled[r] =>
                     /\ handled[r] = {}
                     /\ handled'[r] \ {mounted} \subseteq {k \in Runs : stage[k] = "listening"}
<1>1. ASSUME EffectInv, PageInv, [Next]_vars PROVE [Once]_vars
  <2> SUFFICES ASSUME NEW r \in Requests, handled'[r] # handled[r]
               PROVE  /\ handled[r] = {}
                      /\ handled'[r] \ {mounted} \subseteq {k \in Runs : stage[k] = "listening"}
    OBVIOUS
  <2>1. TakeUp
    BY <1>1 DEF Next, CallStep, EffectStep, PageStep, ThreadStep, Listen, FrontendReady,
                FrontendNotReady, Mount, Listened, Announced, Unmount, Cancel, Complete, Respond,
                Relaunch, Dispatch, Emit, GiveUp, Deliver, DeliveryTimesOut, work, vars
  <2>2. Takes
    BY <2>1 DEF TakeUp, Takes
  <2>3. 1 \in DOMAIN events /\ Head(events) = events[1]
    BY <1>1, <2>2, TakesAt DEF PageInv
  <2>4. events[1].type = "request" /\ handled' = [handled EXCEPT ![events[1].id] = @ \cup Reached]
    BY <2>1, <2>3 DEF TakeUp
  <2>5. handled[events[1].id] = {} /\ r = events[1].id
    BY <1>1, <2>3, <2>4 DEF PageInv, PageType, QueueInv
  <2>6. handled'[r] = Reached
    BY <1>1, <2>4, <2>5 DEF PageInv, PageType
  <2>7. \A k \in Reached : k \in Runs /\ (stage[k] = "listening" \/ k = mounted)
    BY <1>1 DEF Reached, EffectInv, EffectType, StageInv
  <2> QED BY <2>5, <2>6, <2>7
<1>2. Init => EffectInv /\ BrokerInv /\ PageInv
  BY InitEffect, InitBroker, InitPage
<1>3. EffectInv /\ BrokerInv /\ PageInv /\ [Next]_vars => (EffectInv /\ BrokerInv /\ PageInv)'
  BY NextEffect, NextBroker, NextPage
<1> QED BY <1>1, <1>2, <1>3, PTL DEF Spec, TakenUpOnce

-----------------------------------------------------------------------------
(* Whom the events reach, and the cancellation of the waits.               *)

IsRequest(i) == events[i].type = "request"
IsCancel(i) == events[i].type = "cancel"

\* A run that took up a request, or will, keeps its listener while it is
\* mounted; and the cancellation of the request reaches it.
ReachInv ==
  /\ \A j \in DOMAIN calls : calls[j].cmd = "listen" =>
       /\ \A i \in DOMAIN events : calls[j].run \notin events[i].to
       /\ \A r \in Requests : calls[j].run \notin handled[r]
  /\ \A i \in DOMAIN events : \A k \in events[i].to : k <= mounts
  /\ \A r \in Requests : \A k \in handled[r] : k <= mounts
  /\ \A r \in Requests : mounted \in handled[r] => mounted \in listening
  /\ \A i, j \in DOMAIN events : IsRequest(i) /\ IsCancel(j) /\ events[i].id = events[j].id =>
       events[i].to \cap listening \subseteq events[j].to
  /\ \A j \in DOMAIN events : IsCancel(j) => handled[events[j].id] \cap listening \subseteq events[j].to

\* The mounted run carries out the request, or may yet take it up.
Awaited(w) ==
  \/ w \in running /\ handled[w] = {mounted}
  \/ \E i \in DOMAIN events : IsRequest(i) /\ events[i].id = w

Cancelling(w) == \E i \in DOMAIN events : IsCancel(i) /\ events[i].id = w

CancelInv ==
  \A w \in Requests :
    Kind[w] = "wait" /\ client[w] = "gone" /\ inbox[w] # "unavailable" /\ Awaited(w) => Cancelling(w)

LEMMA InitReach == Init => ReachInv /\ CancelInv
<1> SUFFICES ASSUME Init PROVE ReachInv /\ CancelInv
  OBVIOUS
<1>1. DOMAIN events = {} /\ DOMAIN calls = {}
  BY DEF Init
<1> QED BY <1>1 DEF Init, ReachInv, CancelInv

\* Steps of the runs of the effect and of their calls.
LEMMA EffectKeepsReach ==
  ASSUME EffectInv, PageInv, ReachInv, UNCHANGED <<events, handled>>,
         \A j \in DOMAIN calls' : calls'[j].cmd = "listen" =>
           (\E i \in DOMAIN calls : calls[i] = calls'[j]) \/ calls'[j].run = mounts + 1,
         \A k \in listening' : k \in listening \/
           \E j \in DOMAIN calls : calls[j].cmd = "listen" /\ calls[j].run = k,
         mounts' \in {mounts, mounts + 1},
         mounted' \in {0, mounts + 1} \/ (mounted' = mounted /\ (mounted \in listening => mounted \in listening'))
  PROVE  ReachInv'
<1>1. /\ \A i \in DOMAIN events : events[i].id \in Requests /\ events[i].to \subseteq Runs
      /\ \A r \in Requests : handled[r] \subseteq Runs
      /\ mounts \in Nat /\ \A k \in Runs : k \in Nat /\ k # 0
  BY EnvelopeAt, UnderWay DEF PageInv, PageType
<1>2. /\ \A i \in DOMAIN events : \A k \in events[i].to : k <= mounts /\ k # mounts + 1 /\ k # 0
      /\ \A r \in Requests : \A k \in handled[r] : k <= mounts /\ k # mounts + 1 /\ k # 0
  BY <1>1 DEF ReachInv
<1>3. \A j \in DOMAIN calls' : calls'[j].cmd = "listen" =>
        /\ \A i \in DOMAIN events : calls'[j].run \notin events[i].to
        /\ \A r \in Requests : calls'[j].run \notin handled[r]
  BY <1>2 DEF ReachInv
<1>4. /\ \A i \in DOMAIN events : \A k \in events[i].to : k <= mounts'
      /\ \A r \in Requests : \A k \in handled[r] : k <= mounts'
  BY <1>1, <1>2
<1>5. \A r \in Requests : mounted' \in handled[r] => mounted' \in listening'
  BY <1>2 DEF ReachInv
<1>6. /\ \A i \in DOMAIN events : events[i].to \cap listening' \subseteq listening
      /\ \A r \in Requests : handled[r] \cap listening' \subseteq listening
  BY DEF ReachInv
<1>7. \A i, j \in DOMAIN events : IsRequest(i) /\ IsCancel(j) /\ events[i].id = events[j].id =>
        events[i].to \cap listening' \subseteq events[j].to
  BY <1>6 DEF ReachInv
<1>8. \A j \in DOMAIN events : IsCancel(j) => handled[events[j].id] \cap listening' \subseteq events[j].to
  BY <1>1, <1>6 DEF ReachInv
<1> QED BY <1>3, <1>4, <1>5, <1>7, <1>8 DEF ReachInv, IsRequest, IsCancel

\* An event is posted: it reaches exactly those that listen now.
LEMMA PostKeepsReach ==
  ASSUME EffectInv, PageInv, ReachInv, NEW r \in Requests,
         UNCHANGED <<calls, listening, mounted, mounts, handled>>,
         (Posts("request", r) /\ Early(r)) \/ Posts("cancel", r)
  PROVE  ReachInv'
<1> DEFINE n == Len(events) + 1
<1>1. /\ n \in DOMAIN events' /\ events'[n].to = listening /\ events'[n].id = r
      /\ events'[n].type \in {"request", "cancel"}
      /\ \A i \in DOMAIN events : i \in DOMAIN events' /\ events'[i] = events[i]
      /\ \A i \in DOMAIN events' : i \in DOMAIN events \/ i = n
  BY PostsAt DEF PageInv
<1>2. events'[n].type = "request" => \A i \in DOMAIN events : events[i].id # r
  <2>1. Posts("cancel", r) => events'[n].type = "cancel"
    BY PostsAt DEF PageInv
  <2> QED BY <2>1 DEF PageInv, QueueInv
<1> HIDE DEF n
<1>3. \A i \in DOMAIN events : events[i].id \in Requests
  BY EnvelopeAt DEF PageInv
<1>4. \A k \in listening : k <= mounts
  <2> SUFFICES ASSUME NEW k \in listening PROVE k <= mounts
    OBVIOUS
  <2>1. k \in Runs /\ stage[k] # "none" /\ k \in Nat /\ mounts \in Nat
    BY UnderWay, AgentBrokerAssumption DEF EffectInv, EffectType, StageInv
  <2> QED BY <2>1 DEF EffectInv, StageInv
<1>5. \A j \in DOMAIN calls : calls[j].cmd = "listen" => calls[j].run \notin listening
  BY DEF EffectInv, StageInv, Announcing
<1>6. \A j \in DOMAIN calls : calls[j].cmd = "listen" =>
        /\ \A i \in DOMAIN events' : calls[j].run \notin events'[i].to
        /\ \A q \in Requests : calls[j].run \notin handled[q]
  BY <1>1, <1>5 DEF ReachInv
<1>7. \A i \in DOMAIN events' : \A k \in events'[i].to : k <= mounts
  BY <1>1, <1>4 DEF ReachInv
<1>8. \A i, j \in DOMAIN events' :
        events'[i].type = "request" /\ events'[j].type = "cancel" /\ events'[i].id = events'[j].id =>
          events'[i].to \cap listening \subseteq events'[j].to
  BY <1>1, <1>2 DEF ReachInv, IsRequest, IsCancel
<1>9. \A j \in DOMAIN events' : events'[j].type = "cancel" =>
        handled[events'[j].id] \cap listening \subseteq events'[j].to
  BY <1>1 DEF ReachInv, IsCancel
<1> QED BY <1>6, <1>7, <1>8, <1>9 DEF ReachInv, IsRequest, IsCancel

LEMMA TakeKeepsReach ==
  ASSUME EffectInv, PageInv, ReachInv, TakeUp \/ Cancel
  PROVE  ReachInv'
<1>1. Takes /\ UNCHANGED <<calls, listening, mounted, mounts>>
  BY DEF TakeUp, Cancel, Takes, effect, ipc
<1>2. /\ 1 \in DOMAIN events /\ Head(events) = events[1] /\ events[1].id \in Requests
      /\ \A i \in DOMAIN events' : i \in Nat /\ i + 1 \in DOMAIN events /\ events'[i] = events[i + 1]
  BY <1>1, TakesAt DEF PageInv
<1>3. \A r \in Requests : handled'[r] = handled[r] \/
        /\ r = events[1].id /\ events[1].type = "request"
        /\ handled'[r] = handled[r] \cup (events[1].to \cap listening)
  BY <1>2 DEF TakeUp, Cancel, Reached, PageInv, PageType
<1>4. \A j \in DOMAIN calls : calls[j].cmd = "listen" =>
        /\ \A i \in DOMAIN events' : calls[j].run \notin events'[i].to
        /\ \A q \in Requests : calls[j].run \notin handled'[q]
  BY <1>2, <1>3 DEF ReachInv
<1>5. /\ \A i \in DOMAIN events' : \A k \in events'[i].to : k <= mounts
      /\ \A r \in Requests : \A k \in handled'[r] : k <= mounts
      /\ \A r \in Requests : mounted \in handled'[r] => mounted \in listening
  BY <1>2, <1>3 DEF ReachInv
<1>6. \A i, j \in DOMAIN events' :
        events'[i].type = "request" /\ events'[j].type = "cancel" /\ events'[i].id = events'[j].id =>
          events'[i].to \cap listening \subseteq events'[j].to
  BY <1>2 DEF ReachInv, IsRequest, IsCancel
<1>7. ASSUME NEW j \in DOMAIN events', events'[j].type = "cancel"
      PROVE  handled'[events'[j].id] \cap listening \subseteq events'[j].to
  <2>1. /\ j + 1 \in DOMAIN events /\ events'[j] = events[j + 1] /\ IsCancel(j + 1)
        /\ events[j + 1].id \in Requests
    BY <1>2, <1>7, EnvelopeAt DEF IsCancel, PageInv
  <2>2. handled[events[j + 1].id] \cap listening \subseteq events[j + 1].to
    BY <2>1 DEF ReachInv
  <2>3. events[1].type = "request" /\ events[1].id = events[j + 1].id =>
          events[1].to \cap listening \subseteq events[j + 1].to
    BY <1>2, <2>1 DEF ReachInv, IsRequest
  <2> QED BY <1>3, <2>1, <2>2, <2>3
<1> QED BY <1>1, <1>4, <1>5, <1>6, <1>7 DEF ReachInv, IsRequest, IsCancel

\* A call to listen is an old one, or that of the run that mounts.
Relistens ==
  \A j \in DOMAIN calls' : calls'[j].cmd = "listen" =>
    (\E i \in DOMAIN calls : calls[i] = calls'[j]) \/ calls'[j].run = mounts + 1

LEMMA ServedRelistens ==
  ASSUME EffectInv, calls # <<>>, calls' = Tail(calls) PROVE Relistens /\ 1 \in DOMAIN calls /\ Head(calls) = calls[1]
BY TailAt DEF EffectInv, EffectType, Relistens

LEMMA CallRelistens ==
  ASSUME EffectInv, NEW k \in Runs, NEW cmd \in {"listen", "ready", "notReady"},
         cmd = "listen" => k = mounts + 1, calls' = Append(calls, Call(cmd, k))
  PROVE  Relistens
<1>1. Call(cmd, k) \in Question /\ Call(cmd, k).cmd = cmd /\ Call(cmd, k).run = k
  BY DEF Call, Question
<1> QED BY <1>1, AppendAt DEF EffectInv, EffectType, Relistens

LEMMA CallStepReach == ASSUME EffectInv, PageInv, ReachInv, CallStep PROVE ReachInv'
<1>1. /\ calls # <<>> /\ calls' = Tail(calls)
      /\ UNCHANGED <<events, handled, mounts, mounted>>
  BY DEF CallStep, Listen, FrontendReady, FrontendNotReady, CallsNext, work, effect
<1>2. \/ UNCHANGED listening
      \/ listening' = listening \cup {Head(calls).run} /\ Head(calls).cmd = "listen"
  BY DEF CallStep, Listen, FrontendReady, FrontendNotReady, CallsNext, effect
<1>3. Relistens /\ 1 \in DOMAIN calls /\ Head(calls) = calls[1]
  BY <1>1, ServedRelistens
<1>4. /\ \A k \in listening' : k \in listening \/
           \E j \in DOMAIN calls : calls[j].cmd = "listen" /\ calls[j].run = k
      /\ mounted \in listening => mounted \in listening'
  BY <1>2, <1>3
<1> QED BY <1>1, <1>3, <1>4, EffectKeepsReach DEF Relistens

LEMMA EffectStepReach == ASSUME EffectInv, PageInv, ReachInv, EffectStep PROVE ReachInv'
<1>1. UNCHANGED <<events, handled>> /\ listening' \subseteq listening
  BY DEF EffectStep, Mount, Listened, Announced, Unmount, work
<1>2. calls' = calls => Relistens
  BY DEF Relistens
<1>3. CASE Mount
  <2>1. /\ mounts < MaxMounts /\ mounts' = mounts + 1 /\ mounted' = mounts + 1
        /\ calls' = Append(calls, Call("listen", mounts + 1))
    BY <1>3 DEF Mount
  <2>2. mounts + 1 \in Runs
    BY <2>1, AgentBrokerAssumption DEF EffectInv, EffectType, Runs
  <2>3. Relistens
    BY <2>1, <2>2, CallRelistens
  <2> QED BY <1>1, <2>1, <2>3, EffectKeepsReach DEF Relistens
<1>4. CASE Listened \/ Announced
  <2> DEFINE k == Head(replies).run
  <2>1. /\ replies # <<>> /\ UNCHANGED <<mounts, mounted>>
        /\ listening' = IF k = mounted THEN listening ELSE listening \ {k}
        /\ \/ calls' = calls \/ calls' = Append(calls, Call("ready", k))
           \/ calls' = Append(calls, Call("notReady", k))
    BY <1>4 DEF Listened, Announced, RepliesNext, Cancelled, UndoesAnnouncement
  <2>2. k \in Runs
    <3>1. Head(replies) = replies[1] /\ 1 \in DOMAIN replies
      BY <2>1, TailAt DEF EffectInv, EffectType
    <3> QED BY <3>1, UnderWay
  <2>3. Relistens
    BY <1>2, <2>1, <2>2, CallRelistens
  <2>4. mounted \in listening => mounted \in listening'
    BY <2>1
  <2> QED BY <1>1, <2>1, <2>3, <2>4, EffectKeepsReach DEF Relistens
<1>5. CASE Unmount
  <2>1. /\ mounted # 0 /\ mounted' = 0 /\ mounts' = mounts
        /\ calls' = calls \/ calls' = Append(calls, Call("notReady", mounted))
    BY <1>5 DEF Unmount
  <2>2. mounted \in Runs
    BY <2>1, AgentBrokerAssumption DEF EffectInv, EffectType, Runs
  <2>3. Relistens
    BY <1>2, <2>1, <2>2, CallRelistens
  <2> QED BY <1>1, <2>1, <2>3, EffectKeepsReach DEF Relistens
<1> QED BY <1>3, <1>4, <1>5 DEF EffectStep

reachVars == <<calls, listening, mounted, mounts, events, handled>>

LEMMA NextReach ==
  ASSUME EffectInv, BrokerInv, PageInv, ReachInv, [Next]_vars PROVE ReachInv'
<1>1. CASE CallStep \/ EffectStep
  BY <1>1, CallStepReach, EffectStepReach
<1>2. CASE TakeUp \/ Cancel
  BY <1>2, TakeKeepsReach
<1>3. ASSUME NEW r \in Requests, Emit(r) \/ GiveUp(r) PROVE ReachInv'
  <2>1. /\ UNCHANGED <<calls, listening, mounted, mounts, handled>>
        /\ (Posts("request", r) /\ Early(r)) \/ Posts("cancel", r) \/ UNCHANGED events
    BY <1>3 DEF Emit, GiveUp, CancelPending, Posts, Early, effect, ipc, work
  <2>2. CASE UNCHANGED events
    BY <2>1, <2>2 DEF ReachInv, IsRequest, IsCancel
  <2> QED BY <2>1, <2>2, PostKeepsReach
<1>4. CASE UNCHANGED reachVars
  BY <1>4 DEF ReachInv, IsRequest, IsCancel, reachVars
<1>5. ASSUME NEW r \in Requests,
             \/ Dispatch(r) \/ Deliver(r) \/ Respond(r) \/ Complete(r)
             \/ DeliveryTimesOut(r) \/ Relaunch(r)
      PROVE  UNCHANGED reachVars
  BY <1>5 DEF Dispatch, Deliver, Respond, Complete, DeliveryTimesOut, Relaunch, effect, ipc, work, reachVars
<1>6. UNCHANGED vars => UNCHANGED reachVars
  BY DEF vars, effect, ipc, work, reachVars
<1> QED BY <1>1, <1>2, <1>3, <1>4, <1>5, <1>6 DEF Next, PageStep, ThreadStep

-----------------------------------------------------------------------------
(* The cancellation of the waits.                                          *)

\* Nothing that was awaited by nobody is awaited again, and a cancellation
\* stays on its way.
LEMMA CancelStays ==
  ASSUME PageInv, CancelInv, NEW w \in Requests,
         client'[w] = "gone" => client[w] = "gone",
         inbox'[w] # "unavailable" => inbox[w] # "unavailable",
         Awaited(w)' => Awaited(w), Cancelling(w) => Cancelling(w)'
  PROVE  Kind[w] = "wait" /\ client'[w] = "gone" /\ inbox'[w] # "unavailable" /\ Awaited(w)'
           => Cancelling(w)'
BY DEF CancelInv

CancelAt(w) ==
  Kind[w] = "wait" /\ client[w] = "gone" /\ inbox[w] # "unavailable" /\ Awaited(w) => Cancelling(w)

\* An answered request is no longer awaited.
LEMMA AnsweredIsOver ==
  ASSUME PageInv, NEW w \in Requests, inbox[w] = "answer" PROVE ~Awaited(w)
<1>1. handled[w] # {} /\ w \notin running
  BY DEF PageInv, WorkInv
<1> QED BY <1>1 DEF Awaited, PageInv, QueueInv, IsRequest

\* Posting an event of another request changes nothing for w.
LEMMA PostElsewhere ==
  ASSUME EffectInv, PageInv, NEW w \in Requests, NEW r \in Requests, UNCHANGED <<running, handled, mounted>>,
         \/ Posts("request", r) /\ r # w
         \/ Posts("cancel", r)
         \/ UNCHANGED events
  PROVE  (Awaited(w)' => Awaited(w)) /\ (Cancelling(w) => Cancelling(w)')
<1>1. CASE Posts("request", r) /\ r # w
  BY <1>1, PostsAt DEF PageInv, Awaited, Cancelling, IsRequest, IsCancel
<1>2. CASE Posts("cancel", r)
  BY <1>2, PostsAt DEF PageInv, Awaited, Cancelling, IsRequest, IsCancel
<1>3. CASE UNCHANGED events
  BY <1>3 DEF Awaited, Cancelling, IsRequest, IsCancel
<1> QED BY <1>1, <1>2, <1>3

LEMMA ThreadStepCancel ==
  ASSUME EffectInv, BrokerInv, PageInv, CancelInv, NEW r \in Requests, NEW w \in Requests,
         Dispatch(r) \/ Emit(r) \/ GiveUp(r) \/ Deliver(r) \/ Respond(r)
  PROVE  CancelAt(w)'
<1>1. CASE Dispatch(r)
  <2>1. /\ UNCHANGED <<inbox, running, handled, mounted, events>>
        /\ client'[w] = "gone" => client[w] = "gone"
    BY <1>1 DEF Dispatch, BrokerInv, work, effect
  <2> QED BY <2>1, PostElsewhere, CancelStays DEF CancelAt
<1>2. CASE Emit(r)
  <2>1. /\ UNCHANGED <<inbox, running, handled, mounted>>
        /\ Posts("request", r) \/ Posts("cancel", r) \/ UNCHANGED events
        /\ client'[r] # "gone" /\ (w # r => client'[w] = client[w])
    BY <1>2 DEF Emit, CancelPending, Posts, BrokerInv, work, effect
  <2>2. CASE w = r
    BY <2>1, <2>2 DEF CancelAt
  <2>3. CASE w # r
    BY <2>1, <2>3, PostElsewhere, CancelStays DEF CancelAt
  <2> QED BY <2>2, <2>3
<1>3. CASE GiveUp(r)
  <2>1. /\ UNCHANGED <<inbox, running, handled, mounted>> /\ client[r] = "waiting"
        /\ Posts("cancel", r) \/ (UNCHANGED events /\ r \notin pending)
        /\ w # r => client'[w] = client[w]
    BY <1>3 DEF GiveUp, CancelPending, Posts, BrokerInv, work, effect
  <2>2. CASE w # r
    BY <2>1, <2>2, PostElsewhere, CancelStays DEF CancelAt
  <2>3. CASE w = r /\ Posts("cancel", r)
    BY <2>3, PostsAt DEF PageInv, CancelAt, Cancelling, IsCancel
  <2>4. CASE w = r /\ UNCHANGED events /\ r \notin pending
    <3>1. inbox[r] = "answer" \/ inbox[r] = "unavailable"
      BY <2>1, <2>4 DEF BrokerInv
    <3>2. inbox[r] = "answer" => ~Awaited(r)
      BY AnsweredIsOver
    <3>3. Awaited(r)' => Awaited(r)
      BY <2>1, <2>4, PostElsewhere
    <3> QED BY <2>1, <2>4, <3>1, <3>2, <3>3 DEF CancelAt
  <2> QED BY <2>1, <2>2, <2>3, <2>4
<1>4. CASE Deliver(r)
  <2>1. /\ UNCHANGED <<inbox, running, handled, mounted, events>>
        /\ client'[r] = "gone" => inbox[r] = "answer"
        /\ w # r => client'[w] = client[w]
    BY <1>4 DEF Deliver, BrokerInv, work, effect
  <2>2. CASE w # r
    BY <2>1, <2>2, PostElsewhere, CancelStays DEF CancelAt
  <2>3. CASE w = r
    <3>1. inbox[r] = "answer" => ~Awaited(r)
      BY AnsweredIsOver
    <3>2. Awaited(r)' => Awaited(r)
      BY <2>1, PostElsewhere
    <3> QED BY <2>1, <2>3, <3>1, <3>2 DEF CancelAt
  <2> QED BY <2>2, <2>3
<1>5. CASE Respond(r)
  <2>1. /\ UNCHANGED <<client, running, handled, mounted, events>>
        /\ w # r \/ r \notin pending => inbox'[w] = inbox[w]
        /\ r \in pending => client[r] # "gone"
    BY <1>5 DEF Respond, BrokerInv, effect
  <2>2. CASE w # r \/ r \notin pending
    BY <2>1, <2>2, PostElsewhere, CancelStays DEF CancelAt
  <2>3. CASE w = r /\ r \in pending
    BY <2>1, <2>3 DEF CancelAt
  <2> QED BY <2>2, <2>3
<1> QED BY <1>1, <1>2, <1>3, <1>4, <1>5

\* A request is taken up while its cancellation, if there is one, stays behind.
LEMMA TakeUpCancel ==
  ASSUME EffectInv, PageInv, CancelInv, TakeUp, NEW w \in Requests PROVE CancelAt(w)'
<1> DEFINE r == events[1].id
<1>1. Takes /\ UNCHANGED <<client, inbox, mounted>>
  BY DEF TakeUp, Takes, rust, effect
<1>2. /\ 1 \in DOMAIN events /\ Head(events) = events[1] /\ r \in Requests
      /\ \A i \in DOMAIN events' : i + 1 \in DOMAIN events /\ events'[i] = events[i + 1]
      /\ \A i \in DOMAIN events : i # 1 => i - 1 \in DOMAIN events' /\ events'[i - 1] = events[i]
  BY <1>1, TakesAt DEF PageInv
<1>3. /\ events[1].type = "request" /\ running' \subseteq running \cup {r}
      /\ \A q \in Requests : q # r => handled'[q] = handled[q]
  BY <1>2 DEF TakeUp, PageInv, PageType
<1>4. Awaited(w)' => Awaited(w)
  <2>1. (\E i \in DOMAIN events' : events'[i].type = "request" /\ events'[i].id = w) =>
          \E i \in DOMAIN events : events[i].type = "request" /\ events[i].id = w
    BY <1>2
  <2>2. w = r => \E i \in DOMAIN events : events[i].type = "request" /\ events[i].id = w
    BY <1>2, <1>3
  <2>3. w # r /\ w \in running' => w \in running
    BY <1>3
  <2> QED BY <1>1, <1>3, <2>1, <2>2, <2>3 DEF Awaited, IsRequest
<1>5. Cancelling(w) => Cancelling(w)'
  <2> SUFFICES ASSUME NEW i \in DOMAIN events, IsCancel(i), events[i].id = w PROVE Cancelling(w)'
    BY DEF Cancelling
  <2>1. i # 1
    BY <1>3 DEF IsCancel
  <2> QED BY <1>2, <2>1 DEF Cancelling, IsCancel
<1> QED BY <1>1, <1>4, <1>5, CancelStays DEF CancelAt

\* A cancellation is taken: it reaches the mounted run, if that is at work.
LEMMA CancelCancel ==
  ASSUME EffectInv, PageInv, ReachInv, CancelInv, Cancel, NEW w \in Requests PROVE CancelAt(w)'
<1> DEFINE r == events[1].id
<1>1. Takes /\ UNCHANGED <<client, inbox, mounted, handled>>
  BY DEF Cancel, Takes, rust, effect
<1>2. /\ 1 \in DOMAIN events /\ Head(events) = events[1] /\ r \in Requests
      /\ \A i \in DOMAIN events' : i \in Nat /\ i >= 1 /\ i + 1 \in DOMAIN events /\ events'[i] = events[i + 1]
      /\ \A i \in DOMAIN events : i # 1 => i - 1 \in DOMAIN events' /\ events'[i - 1] = events[i]
  BY <1>1, TakesAt DEF PageInv
<1>3. /\ events[1].type = "cancel"
      /\ running' = IF events[1].to \cap listening # {} /\ Kind[r] = "wait" THEN running \ {r} ELSE running
  BY <1>2 DEF Cancel, Reached
<1>4. (\E i \in DOMAIN events' : events'[i].type = "request" /\ events'[i].id = w) =>
        \E i \in DOMAIN events : events[i].type = "request" /\ events[i].id = w
  BY <1>2
<1>5. Awaited(w)' => Awaited(w)
  BY <1>1, <1>3, <1>4 DEF Awaited, IsRequest
<1>6. CASE w # r
  <2>1. Cancelling(w) => Cancelling(w)'
    <3> SUFFICES ASSUME NEW i \in DOMAIN events, IsCancel(i), events[i].id = w PROVE Cancelling(w)'
      BY DEF Cancelling
    <3>1. i # 1
      BY <1>6
    <3> QED BY <1>2, <3>1 DEF Cancelling, IsCancel
  <2> QED BY <1>1, <1>5, <2>1, CancelStays DEF CancelAt
<1>7. CASE w = r
  <2> SUFFICES ASSUME Kind[w] = "wait", Awaited(w)' PROVE FALSE
    BY DEF CancelAt
  <2>1. ~\E i \in DOMAIN events' : events'[i].type = "request" /\ events'[i].id = w
    <3> SUFFICES ASSUME NEW i \in DOMAIN events', events'[i].type = "request", events'[i].id = w PROVE FALSE
      OBVIOUS
    <3>1. i + 1 \in DOMAIN events /\ events[i + 1].type = "request" /\ events[i + 1].id = r /\ i \in Nat
      BY <1>2, <1>7
    <3>2. i + 1 < 1
      BY <1>2, <1>3, <3>1 DEF PageInv, QueueInv
    <3> QED BY <3>1, <3>2
  <2>2. w \in running' /\ handled[w] = {mounted}
    BY <1>1, <2>1 DEF Awaited, IsRequest
  <2>3. mounted \in listening
    BY <2>2 DEF ReachInv
  <2>4. mounted \in events[1].to
    BY <1>2, <1>3, <1>7, <2>2, <2>3 DEF ReachInv, IsCancel
  <2> QED BY <1>3, <1>7, <2>2, <2>3, <2>4
<1> QED BY <1>6, <1>7

\* A run that mounts has taken nothing up, and a teardown leaves no run.
LEMMA RunStepCancel ==
  ASSUME EffectInv, PageInv, ReachInv, CancelInv, NEW w \in Requests,
         UNCHANGED <<events, handled, client>>, running' \subseteq running,
         mounted' \in {mounted, 0, mounts + 1}, inbox'[w] # "unavailable" => inbox[w] # "unavailable"
  PROVE  CancelAt(w)'
<1>1. handled[w] = {mounted'} => mounted' = mounted
  <2>1. mounts + 1 \notin handled[w] /\ 0 \notin handled[w]
    BY UnderWay DEF PageInv, PageType, ReachInv
  <2> QED BY <2>1
<1>2. (Awaited(w)' => Awaited(w)) /\ (Cancelling(w) => Cancelling(w)')
  BY <1>1 DEF Awaited, Cancelling, IsRequest, IsCancel
<1> QED BY <1>2, CancelStays DEF CancelAt

LEMMA NextCancel ==
  ASSUME EffectInv, BrokerInv, PageInv, ReachInv, CancelInv, [Next]_vars PROVE CancelInv'
<1> SUFFICES ASSUME NEW w \in Requests PROVE CancelAt(w)'
  BY DEF CancelInv, CancelAt
<1>1. CASE TakeUp \/ Cancel
  BY <1>1, TakeUpCancel, CancelCancel
<1>2. CASE CallStep \/ EffectStep
  <2>1. /\ UNCHANGED <<events, handled, client>> /\ running' \subseteq running
        /\ inbox'[w] # "unavailable" => inbox[w] # "unavailable"
    BY <1>2 DEF CallStep, EffectStep, Listen, FrontendReady, FrontendNotReady, Mount, Listened,
                Announced, Unmount, rust, work
  <2>2. mounted' \in {mounted, 0, mounts + 1}
    BY <1>2 DEF CallStep, EffectStep, Listen, FrontendReady, FrontendNotReady, Mount, Listened,
                Announced, Unmount, effect
  <2> QED BY <2>1, <2>2, RunStepCancel
<1>3. ASSUME NEW r \in Requests, Complete(r) \/ DeliveryTimesOut(r) \/ Relaunch(r) PROVE CancelAt(w)'
  <2>1. UNCHANGED <<events, handled, client, inbox, mounted>> /\ running' \subseteq running
    BY <1>3 DEF Complete, DeliveryTimesOut, Relaunch, rust, work, effect
  <2> QED BY <2>1, RunStepCancel
<1>4. CASE UNCHANGED vars
  <2>1. UNCHANGED <<events, handled, client, inbox, mounted, running>>
    BY <1>4 DEF vars, rust, work, effect
  <2> QED BY <2>1, RunStepCancel
<1> QED BY <1>1, <1>2, <1>3, <1>4, ThreadStepCancel DEF Next, PageStep, ThreadStep

-----------------------------------------------------------------------------
BrokerIInv == EffectInv /\ BrokerInv /\ PageInv /\ ReachInv /\ CancelInv

LEMMA BrokerInductive == Spec => []BrokerIInv
<1>1. Init => BrokerIInv
  BY InitEffect, InitBroker, InitPage, InitReach DEF BrokerIInv
<1>2. BrokerIInv /\ [Next]_vars => BrokerIInv'
  BY NextEffect, NextBroker, NextPage, NextReach, NextCancel DEF BrokerIInv
<1> QED BY <1>1, <1>2, PTL DEF Spec

\* Type correctness, and with it the bound of the broker.
THEOREM BrokerTyped == Spec => []TypeOK
<1>1. ASSUME BrokerIInv PROVE TypeOK
  <2>1. \A k \in listening : k \in Runs /\ stage[k] # "over"
    BY <1>1, UnderWay DEF BrokerIInv, EffectInv, EffectType, StageInv
  <2>2. running \subseteq {r \in Requests : handled[r] # {}}
    BY <1>1 DEF BrokerIInv, PageInv, PageType, WorkInv
  <2>3. /\ pending \subseteq {r \in Requests : client[r] \in {"emitting", "waiting"}}
        /\ Cardinality(pending) <= MaxPending
        /\ client \in [Requests -> {"new", "emitting", "waiting", "refused", "answered",
                                    "unavailable", "gone"}]
    BY <1>1 DEF BrokerIInv, BrokerInv
  <2> QED BY <1>1, <2>1, <2>2, <2>3 DEF TypeOK, BrokerIInv, EffectInv, EffectType
<1> QED BY <1>1, BrokerInductive, PTL

\* A wait whose client has given up is on its way to be cancelled.
THEOREM NoOrphanWaits == Spec => []NoOrphanWait
<1>1. ASSUME BrokerIInv PROVE NoOrphanWait
  <2> SUFFICES ASSUME NEW w \in running, Kind[w] = "wait", client[w] = "gone",
                      handled[w] = {mounted}, inbox[w] # "unavailable"
               PROVE  \E i \in DOMAIN events : events[i].type = "cancel" /\ events[i].id = w
    BY DEF NoOrphanWait
  <2>1. w \in Requests
    BY <1>1 DEF BrokerIInv, PageInv, PageType
  <2> QED BY <1>1, <2>1 DEF BrokerIInv, CancelInv, Awaited, Cancelling, IsCancel
<1> QED BY <1>1, BrokerInductive, PTL
=============================================================================
