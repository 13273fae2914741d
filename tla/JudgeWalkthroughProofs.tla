----------------------- MODULE JudgeWalkthroughProofs -----------------------
(***************************************************************************)
(* Proofs about JudgeWalkthrough and what it is made of: the decision      *)
(* proof, for every trail and payload; the record of every answer of the   *)
(* manager; and the page, where a step is marked done exactly as long as   *)
(* its product is there and what is said of a proof is true, for any       *)
(* number of phases in progress.                                           *)
(***************************************************************************)
EXTENDS JudgeWalkthrough, SequenceTheorems, WellFoundedInduction, TLAPS

-----------------------------------------------------------------------------
(* The decision proof *)

\* Induction over the natural numbers, with a set for the predicate.
LEMMA SetInduction ==
    ASSUME NEW S, 0 \in S, \A n \in Nat : n \in S => n + 1 \in S
    PROVE  Nat \subseteq S
<1> DEFINE Less == {p \in Nat \X Nat : p[1] < p[2]}
           T == Nat \ S
<1> SUFFICES ASSUME T # {} PROVE FALSE
  OBVIOUS
<1>1. IsWellFoundedOn(Less, Nat)
  BY NatLessThanWellFounded DEF OpToRel
<1>2. PICK n \in T : \A m \in T : <<m, n>> \notin Less
  BY <1>1, WFMin
<1>3. n # 0 /\ n - 1 \in Nat
  BY <1>2
<1>4. n - 1 \in T
  BY <1>2, <1>3
<1>5. <<n - 1, n>> \in Less
  BY <1>2, <1>3
<1> QED BY <1>2, <1>4, <1>5

\* h holds the hashes of the first N events, as createAuditChain computes them.
Hashes(events, h, N) ==
    h = [n \in 0 .. N |-> IF n = 0 THEN Genesis ELSE Link(n, h[n - 1], events[n])]

LEMMA HashesExist ==
    ASSUME NEW events, NEW N \in Nat
    PROVE  \E h : Hashes(events, h, N)
<1> DEFINE S == {k \in Nat : \E h : Hashes(events, h, k)}
<1>1. 0 \in S
  <2>1. Hashes(events, [n \in 0 .. 0 |-> Genesis], 0)
    BY DEF Hashes
  <2> QED BY <2>1
<1>2. ASSUME NEW k \in Nat, k \in S PROVE k + 1 \in S
  <2>1. PICK h : Hashes(events, h, k)
    BY <1>2
  <2> DEFINE g == [n \in 0 .. k + 1 |-> IF n = k + 1 THEN Link(n, h[k], events[n]) ELSE h[n]]
  <2>2. ASSUME NEW n \in 0 .. k + 1
        PROVE  g[n] = IF n = 0 THEN Genesis ELSE Link(n, g[n - 1], events[n])
    <3>1. CASE n = 0
      BY <2>1, <3>1 DEF Hashes
    <3>2. CASE n \in 1 .. k
      <4>1. n \in 0 .. k /\ n - 1 \in 0 .. k /\ n # k + 1 /\ n - 1 # k + 1 /\ n - 1 \in 0 .. k + 1
        BY <3>2
      <4>2. g[n] = h[n] /\ g[n - 1] = h[n - 1]
        BY <4>1
      <4>3. h[n] = Link(n, h[n - 1], events[n])
        BY <2>1, <3>2, <4>1 DEF Hashes
      <4> QED BY <3>2, <4>2, <4>3
    <3>3. CASE n = k + 1
      <4>1. n - 1 = k /\ k # k + 1 /\ k \in 0 .. k + 1 /\ n # 0
        BY <3>3
      <4>2. g[n] = Link(n, h[k], events[n]) /\ g[k] = h[k]
        BY <3>3, <4>1
      <4> QED BY <4>1, <4>2
    <3> QED BY <3>1, <3>2, <3>3
  <2>3. g = [n \in 0 .. k + 1 |-> IF n = 0 THEN Genesis ELSE Link(n, g[n - 1], events[n])]
    BY <2>2
  <2>4. Hashes(events, g, k + 1)
    BY <2>3 DEF Hashes
  <2> QED BY <2>4
<1> HIDE DEF S
<1>3. N \in S
  BY <1>1, <1>2, SetInduction
<1> QED BY <1>3 DEF S

LEMMA ChainHashes ==
    ASSUME NEW E, NEW events \in Seq(E)
    PROVE  \E h : /\ Hashes(events, h, Len(events))
                  /\ CreateAuditChain(events) =
                        [n \in 1 .. Len(events) |->
                            [sequence |-> n, previousHash |-> h[n - 1], payload |-> events[n],
                             hash |-> h[n]]]
<1> DEFINE h == CHOOSE g : Hashes(events, g, Len(events))
<1>1. Hashes(events, h, Len(events))
  BY HashesExist
<1>2. CreateAuditChain(events) =
                        [n \in 1 .. Len(events) |->
                            [sequence |-> n, previousHash |-> h[n - 1], payload |-> events[n],
                             hash |-> h[n]]]
  BY DEF CreateAuditChain, Hashes
<1> QED BY <1>1, <1>2

\* verifyDecisionProof finds what createSignedDecisionProof made intact, for
\* every trail of events and whatever was decided.
THEOREM SignedVerifies ==
    ASSUME NEW decided, NEW E, NEW events \in Seq(E)
    PROVE  VerifyDecisionProof(CreateSignedDecisionProof(decided, CreateAuditChain(events)))
<1> DEFINE chain == CreateAuditChain(events)
           N == Len(events)
           payload == [decided |-> decided, auditChain |-> chain, auditRootHash |-> Root(chain)]
<1>1. PICK h : /\ Hashes(events, h, N)
               /\ chain = [n \in 1 .. N |->
                              [sequence |-> n, previousHash |-> h[n - 1], payload |-> events[n],
                               hash |-> h[n]]]
  BY ChainHashes
<1> HIDE DEF chain, N
<1>2. \A n \in 1 .. N :
         /\ chain[n].sequence = n /\ chain[n].previousHash = h[n - 1]
         /\ chain[n].payload = events[n] /\ chain[n].hash = h[n]
  BY <1>1
<1>3. h[0] = Genesis /\ \A n \in 1 .. N : h[n] = Link(n, h[n - 1], events[n])
  BY <1>1 DEF Hashes, N
<1>4. Len(chain) = N
  BY <1>1 DEF N
<1>5. \A n \in 1 .. N : h[n - 1] = IF n = 1 THEN Genesis ELSE chain[n - 1].hash
  <2>1. ASSUME NEW n \in 1 .. N, n # 1 PROVE n - 1 \in 1 .. N
    BY <2>1 DEF N
  <2>2. ASSUME NEW n \in 1 .. N, n = 1 PROVE n - 1 = 0
    BY <2>2
  <2> QED BY <1>2, <1>3, <2>1, <2>2
<1>6. ChainValid(payload)
  BY <1>2, <1>3, <1>4, <1>5 DEF ChainValid
<1> QED BY <1>6 DEF VerifyDecisionProof, CreateSignedDecisionProof, chain

\* A signature vouches for one payload under one key: verifyDecisionProof accepts
\* no other one with it, however the record was edited, hashed anew and given
\* another key to be checked against.
THEOREM SignatureFixesPayload ==
    ASSUME NEW proof, VerifyDecisionProof(proof),
           NEW other, VerifyDecisionProof(other), other.signature = proof.signature
    PROVE  other.payload = proof.payload /\ other.publicKey = proof.publicKey
<1>1. /\ proof.signature = Sign(Sha256(proof.payload), proof.publicKey)
      /\ other.signature = Sign(Sha256(other.payload), other.publicKey)
  BY DEF VerifyDecisionProof
<1> QED BY <1>1 DEF Sign, Sha256

\* The hash before the first link of a chain, or of its link n.
HashAt(chain, n) == IF n = 0 THEN Genesis ELSE chain[n].hash

LEMMA LinksAreApart ==
    ASSUME NEW s1, NEW h1, NEW e1, NEW s2, NEW h2, NEW e2
    PROVE  /\ Link(s1, h1, e1) # Genesis
           /\ Link(s1, h1, e1) = Link(s2, h2, e2) => s1 = s2 /\ h1 = h2 /\ e1 = e2
<1>1. Link(s1, h1, e1) # Genesis
  <2>1. Len(Link(s1, h1, e1)) = 2 /\ Len(Genesis) = 1
    BY DEF Link, Sha256, Genesis
  <2> QED BY <2>1
<1>2. ASSUME Link(s1, h1, e1) = Link(s2, h2, e2) PROVE s1 = s2 /\ h1 = h2 /\ e1 = e2
  <2> DEFINE r == [sequence |-> s1, previousHash |-> h1, payload |-> e1]
             q == [sequence |-> s2, previousHash |-> h2, payload |-> e2]
  <2>1. r = q
    BY <1>2 DEF Link, Sha256
  <2>2. r.sequence = q.sequence /\ r.previousHash = q.previousHash /\ r.payload = q.payload
    BY <2>1
  <2> QED BY <2>2
<1> QED BY <1>1, <1>2

LEMMA ValidLinks ==
    ASSUME NEW E, NEW record, record.auditChain \in Seq(E), ChainValid(record)
    PROVE  /\ \A n \in 1 .. Len(record.auditChain) :
                 /\ record.auditChain[n].previousHash = HashAt(record.auditChain, n - 1)
                 /\ HashAt(record.auditChain, n) =
                       Link(record.auditChain[n].sequence, HashAt(record.auditChain, n - 1),
                            record.auditChain[n].payload)
           /\ HashAt(record.auditChain, Len(record.auditChain)) = record.auditRootHash
<1> DEFINE chain == record.auditChain
<1>1. \A n \in 1 .. Len(chain) :
         /\ HashAt(chain, n) = chain[n].hash
         /\ HashAt(chain, n - 1) = (IF n = 1 THEN Genesis ELSE chain[n - 1].hash)
  BY DEF HashAt
<1>2. \A n \in 1 .. Len(chain) :
         /\ chain[n].previousHash = HashAt(chain, n - 1)
         /\ HashAt(chain, n) = Link(chain[n].sequence, HashAt(chain, n - 1), chain[n].payload)
  BY <1>1 DEF ChainValid
<1>3. Root(chain) = record.auditRootHash
  BY DEF ChainValid
<1>4. chain = <<>> <=> Len(chain) = 0
  OBVIOUS
<1>5. HashAt(chain, Len(chain)) = Root(chain)
  BY <1>4 DEF HashAt, Root
<1> QED BY <1>2, <1>3, <1>5

\* An entry of a trail; Values holds the hashes and the events.
Entry(Values) == [sequence : Nat, previousHash : Values, payload : Values, hash : Values]

LEMMA SameEntry ==
    ASSUME NEW E, NEW x \in Entry(E), NEW y \in Entry(E),
           x.sequence = y.sequence, x.previousHash = y.previousHash, x.payload = y.payload,
           x.hash = y.hash
    PROVE  x = y
BY DEF Entry

\* Two trails that verifyDecisionProof accepts with one root are the same, event for
\* event, without a bound on their length: from the end to the start each hash
\* fixes the entry before it, and only the first one has none.
THEOREM RootFixesTrail ==
    ASSUME NEW E, NEW record, NEW other,
           record.auditChain \in Seq(Entry(E)), ChainValid(record),
           other.auditChain \in Seq(Entry(E)), ChainValid(other),
           other.auditRootHash = record.auditRootHash
    PROVE  other.auditChain = record.auditChain
<1> DEFINE c == record.auditChain
           d == other.auditChain
           C(j) == HashAt(c, Len(c) - j)
           D(j) == HashAt(d, Len(d) - j)
           S == {j \in Nat : j <= Len(c) => j <= Len(d) /\ C(j) = D(j)}
<1>1. c \in Seq(Entry(E)) /\ d \in Seq(Entry(E)) /\ Len(c) \in Nat /\ Len(d) \in Nat
  OBVIOUS
<1>2. /\ \A n \in 1 .. Len(c) :
            /\ c[n].previousHash = HashAt(c, n - 1)
            /\ HashAt(c, n) = Link(c[n].sequence, HashAt(c, n - 1), c[n].payload)
      /\ \A n \in 1 .. Len(d) :
            /\ d[n].previousHash = HashAt(d, n - 1)
            /\ HashAt(d, n) = Link(d[n].sequence, HashAt(d, n - 1), d[n].payload)
      /\ HashAt(c, Len(c)) = HashAt(d, Len(d))
  BY ValidLinks
<1>3. HashAt(c, 0) = Genesis /\ HashAt(d, 0) = Genesis
  BY DEF HashAt
<1> HIDE DEF c, d
<1>4. ASSUME NEW j \in Nat, j < Len(c), j <= Len(d), C(j) = D(j)
      PROVE  /\ j < Len(d) /\ C(j + 1) = D(j + 1)
             /\ c[Len(c) - j].sequence = d[Len(d) - j].sequence
             /\ c[Len(c) - j].payload = d[Len(d) - j].payload
  <2>1. Len(c) - j \in 1 .. Len(c) /\ Len(c) - (j + 1) = (Len(c) - j) - 1
    BY <1>1, <1>4
  <2>2. C(j) = Link(c[Len(c) - j].sequence, C(j + 1), c[Len(c) - j].payload)
    BY <1>2, <2>1
  <2>3. C(j) # Genesis
    BY <2>2, LinksAreApart
  <2>4. Len(d) - j # 0
    BY <1>3, <1>4, <2>3
  <2>5. Len(d) - j \in 1 .. Len(d) /\ Len(d) - (j + 1) = (Len(d) - j) - 1
    BY <1>1, <1>4, <2>4
  <2>6. D(j) = Link(d[Len(d) - j].sequence, D(j + 1), d[Len(d) - j].payload)
    BY <1>2, <2>5
  <2> HIDE DEF C, D
  <2>7. /\ C(j + 1) = D(j + 1)
        /\ c[Len(c) - j].sequence = d[Len(d) - j].sequence
        /\ c[Len(c) - j].payload = d[Len(d) - j].payload
    <3> DEFINE s1 == c[Len(c) - j].sequence
               s2 == d[Len(d) - j].sequence
               e1 == c[Len(c) - j].payload
               e2 == d[Len(d) - j].payload
    <3>1. Link(s1, C(j + 1), e1) = Link(s2, D(j + 1), e2)
      BY <1>4, <2>2, <2>6
    <3> HIDE DEF s1, s2, e1, e2
    <3>2. s1 = s2 /\ C(j + 1) = D(j + 1) /\ e1 = e2
      BY <3>1, LinksAreApart
    <3> QED BY <3>2 DEF s1, s2, e1, e2
  <2>8. j < Len(d)
    BY <1>1, <2>5
  <2> QED BY <2>7, <2>8
<1>5. \A j \in Nat : j <= Len(c) => j <= Len(d) /\ C(j) = D(j)
  <2>1. 0 \in S
    BY <1>1, <1>2
  <2>2. ASSUME NEW j \in Nat, j \in S PROVE j + 1 \in S
    <3>1. SUFFICES ASSUME j + 1 <= Len(c) PROVE j + 1 <= Len(d) /\ C(j + 1) = D(j + 1)
      OBVIOUS
    <3>2. j < Len(c) /\ j <= Len(d) /\ C(j) = D(j)
      BY <1>1, <2>2, <3>1
    <3>3. j < Len(d) /\ C(j + 1) = D(j + 1)
      BY <1>4, <3>2
    <3> HIDE DEF C, D
    <3> QED BY <1>1, <3>3
  <2> HIDE DEF S
  <2>3. Nat \subseteq S
    BY <2>1, <2>2, SetInduction
  <2> QED BY <2>3 DEF S
<1>6. Len(c) = Len(d)
  <2>1. Len(c) <= Len(d) /\ C(Len(c)) = D(Len(c))
    BY <1>1, <1>5
  <2>2. HashAt(d, Len(d) - Len(c)) = Genesis
    BY <1>1, <1>3, <2>1
  <2>3. CASE Len(d) - Len(c) = 0
    BY <1>1, <2>3
  <2>4. CASE Len(d) - Len(c) # 0
    <3>1. Len(d) - Len(c) \in 1 .. Len(d)
      BY <1>1, <2>1, <2>4
    <3>2. HashAt(d, Len(d) - Len(c)) # Genesis
      BY <1>2, <3>1, LinksAreApart
    <3> QED BY <2>2, <3>2
  <2> QED BY <2>3, <2>4
<1>7. ASSUME NEW n \in 1 .. Len(c) PROVE d[n] = c[n]
  <2> DEFINE j == Len(c) - n
  <2>1. j \in Nat /\ j < Len(c) /\ Len(c) - j = n /\ Len(d) - j = n
        /\ j + 1 \in Nat /\ j + 1 <= Len(c) /\ j <= Len(c)
        /\ n \in 1 .. Len(d) /\ Len(c) - (j + 1) = n - 1 /\ Len(d) - (j + 1) = n - 1
    BY <1>1, <1>6
  <2>2. C(j) = D(j) /\ C(j + 1) = D(j + 1)
    <3> HIDE DEF j, C, D
    <3> QED BY <1>5, <2>1
  <2>3. HashAt(c, n) = HashAt(d, n) /\ HashAt(c, n - 1) = HashAt(d, n - 1)
    BY <2>1, <2>2
  <2>4. c[n].sequence = d[n].sequence /\ c[n].payload = d[n].payload
    BY <1>1, <1>4, <1>6, <2>1, <2>2
  <2>5. c[n].hash = d[n].hash /\ c[n].previousHash = d[n].previousHash
    BY <1>2, <2>1, <2>3 DEF HashAt
  <2>6. c[n] \in Entry(E) /\ d[n] \in Entry(E)
    <3> DEFINE T == Entry(E)
    <3>1. c \in Seq(T) /\ d \in Seq(T) /\ n \in 1 .. Len(c) /\ n \in 1 .. Len(d)
      BY <1>1, <2>1
    <3> HIDE DEF T
    <3>2. c[n] \in T /\ d[n] \in T
      BY <3>1
    <3> QED BY <3>2 DEF T
  <2> QED BY <2>4, <2>5, <2>6, SameEntry
<1> QED BY <1>1, <1>6, <1>7 DEF c, d

-----------------------------------------------------------------------------
(* What the manager's answers come to *)

RecordOf(response) ==
    [rawDecision |-> DecisionOf(response),
     effectiveDecision |-> EffectiveDecision(Said(response)),
     preferredContact |-> Said(response).preferredContact,
     restricted |-> Said(response).restricted]

\* A spoken request for a restricted action has no effect of its own.
LEMMA AnswersAreRecorded ==
    ASSUME NEW response \in ManagerOptions
    PROVE  /\ EscalationRecord(TaskOf(response)) = RecordOf(response)
           /\ RecordOf(response) \in Record /\ RecordOf(response) # Nothing
           /\ RecordOf(response).effectiveDecision # "REQUEST_WRITTEN_REPORT"
           /\ RecordOf(response).restricted # {} =>
                 RecordOf(response).effectiveDecision \in
                    {"REQUIRES_AUTHENTICATED_HUMAN_APPROVAL", "DECLINE_ESCALATION"}
<1> DEFINE said == Said(response)
           task == TaskOf(response)
           r == RecordOf(response)
<1>1. DecisionOf(response) \in {"ACKNOWLEDGE_AND_START_HUMAN_SOURCING",
                                "RETRY_APPROVED_SUPPLIERS_LATER", "DECLINE_ESCALATION"}
  BY DEF DecisionOf, ManagerOptions
<1>2. /\ said \in Spoken /\ said.decision = DecisionOf(response)
      /\ said.restricted \in SUBSET {"INCREASE_BUDGET"}
  BY <1>1 DEF Said, Spoken, ManagerDecisions, SafeDecisions
<1>3. task.outcome = "ANSWERED" /\ task.completed /\ task.result = said /\ task.verified
  BY DEF TaskOf, ManagerOptions
<1>4. Valid(said)
  BY <1>2, NullAssumption DEF Valid, Spoken
<1>5. /\ EffectiveDecision(said) \in {"ACKNOWLEDGE_AND_START_HUMAN_SOURCING",
             "RETRY_APPROVED_SUPPLIERS_LATER", "DECLINE_ESCALATION",
             "REQUIRES_AUTHENTICATED_HUMAN_APPROVAL"}
      /\ said.restricted # {} => EffectiveDecision(said) \in
            {"REQUIRES_AUTHENTICATED_HUMAN_APPROVAL", "DECLINE_ESCALATION"}
  BY <1>1, <1>2 DEF EffectiveDecision
<1>6. EscalationRecord(task) = r
  <2> HIDE DEF said, task
  <2> QED BY <1>2, <1>3, <1>4 DEF EscalationRecord, RecordOf, said
<1>7. r \in Record
  <2> HIDE DEF said
  <2>1. said.preferredContact \in BOOLEAN
    BY <1>2 DEF Spoken
  <2> QED BY <1>1, <1>2, <1>5, <2>1 DEF RecordOf, Record, ManagerDecisions, SafeDecisions, said
<1>8. r # Nothing
  BY <1>7, NullAssumption
<1>9. r.effectiveDecision = EffectiveDecision(said) /\ r.restricted = said.restricted
  BY DEF RecordOf
<1> QED BY <1>5, <1>6, <1>7, <1>8, <1>9

LEMMA AppendOne ==
    ASSUME NEW S, NEW h \in Seq(S), NEW s \in S
    PROVE  /\ Append(h, s) \in Seq(S) /\ Len(Append(h, s)) = Len(h) + 1
           /\ \A n \in 1 .. Len(h) : Append(h, s)[n] = h[n]
           /\ Append(h, s)[Len(h) + 1] = s
OBVIOUS

LEMMA AppendGrows ==
    ASSUME NEW S, NEW h \in Seq(S), NEW s \in S
    PROVE  Append(h, s) \in Seq(S) /\ Len(Append(h, s)) = Len(h) + 1
OBVIOUS

\* A history that ends in a state and kept to the table.
Legal(h, s) ==
    h \in Seq(WorkflowStates) /\ Len(h) > 0 /\ h[Len(h)] = s /\ FollowsTable(h)

LEMMA TableFollowed ==
    ASSUME NEW h, NEW r, Legal(h, r), NEW s \in WorkflowStates, s \in Transitions[r]
    PROVE  Legal(Append(h, s), s)
<1> DEFINE g == Append(h, s)
<1>1. /\ g \in Seq(WorkflowStates) /\ Len(g) = Len(h) + 1
      /\ \A n \in 1 .. Len(h) : g[n] = h[n]
      /\ g[Len(h) + 1] = s
  BY AppendOne DEF Legal
<1> HIDE DEF g
<1>2. ASSUME NEW n \in 1 .. Len(h) PROVE g[n + 1] \in Transitions[g[n]]
  <2>1. CASE n = Len(h)
    BY <1>1, <2>1 DEF Legal
  <2>2. CASE n # Len(h)
    <3>1. n \in 1 .. Len(h) - 1 /\ n + 1 \in 1 .. Len(h)
      BY <2>2 DEF Legal
    <3> QED BY <1>1, <3>1 DEF Legal, FollowsTable
  <2> QED BY <2>1, <2>2
<1>3. FollowsTable(g)
  BY <1>1, <1>2 DEF FollowsTable, Legal
<1> QED BY <1>1, <1>3 DEF Legal, g

\* The history and the trail of a call that was answered.
CallStates == Append(Append(NoCompliantOffer.history, "MANAGER_CALLING"), "MANAGER_RESPONSE_RECEIVED")
CallEvents == Append(Append(NoCompliantOffer.timeline, "MANAGER_ESCALATION_STARTED"),
                     "MANAGER_CALL_COMPLETED")

AuditEvents ==
    {"WORKFLOW_STARTED", "SHORTAGE_CALCULATED", "CALL_COMPLETED", "OFFER_REJECTED",
     "NO_COMPLIANT_OFFER", "HUMAN_EXCEPTION_REQUIRED", "MANAGER_ESCALATION_STARTED",
     "MANAGER_CALL_COMPLETED", "AUTHENTICATED_APPROVAL_REQUIRED", "MANAGER_DECISION_RECORDED"}

LEMMA CallIsLegal ==
    /\ Legal(CallStates, "MANAGER_RESPONSE_RECEIVED")
    /\ CallEvents \in Seq(AuditEvents) /\ Len(CallEvents) = 8
<1> DEFINE h == NoCompliantOffer.history
           e == NoCompliantOffer.timeline
<1>1. /\ Len(h) = 8 /\ h[1] = "DEMAND_DETECTED" /\ h[2] = "CONTACTS_PLANNED" /\ h[3] = "CALLING"
      /\ h[4] = "OFFER_RECEIVED" /\ h[5] = "VALIDATING" /\ h[6] = "POLICY_CHECK"
      /\ h[7] = "NO_COMPLIANT_OFFER" /\ h[8] = "HUMAN_ESCALATION_REQUIRED"
  BY DEF NoCompliantOffer
<1>2. h \in Seq(WorkflowStates)
  <2>1. h \in [1 .. 8 -> WorkflowStates]
    BY DEF NoCompliantOffer, WorkflowStates, Transitions
  <2> QED BY <2>1, SeqDef
<1>3. e \in Seq(AuditEvents) /\ Len(e) = 6
  <2>1. e \in [1 .. 6 -> AuditEvents] /\ Len(e) = 6
    BY DEF NoCompliantOffer, AuditEvents
  <2> QED BY <2>1, SeqDef
<1> HIDE DEF h, e
<1>4. /\ "CONTACTS_PLANNED" \in Transitions["DEMAND_DETECTED"]
      /\ "CALLING" \in Transitions["CONTACTS_PLANNED"]
      /\ "OFFER_RECEIVED" \in Transitions["CALLING"]
      /\ "VALIDATING" \in Transitions["OFFER_RECEIVED"]
      /\ "POLICY_CHECK" \in Transitions["VALIDATING"]
      /\ "NO_COMPLIANT_OFFER" \in Transitions["POLICY_CHECK"]
      /\ "HUMAN_ESCALATION_REQUIRED" \in Transitions["NO_COMPLIANT_OFFER"]
      /\ "MANAGER_CALLING" \in Transitions["HUMAN_ESCALATION_REQUIRED"]
      /\ "MANAGER_RESPONSE_RECEIVED" \in Transitions["MANAGER_CALLING"]
      /\ "MANAGER_CALLING" \in WorkflowStates /\ "MANAGER_RESPONSE_RECEIVED" \in WorkflowStates
  BY DEF Transitions, WorkflowStates
<1>5. FollowsTable(h)
  <2>1. \A n \in 1 .. 7 : n = 1 \/ n = 2 \/ n = 3 \/ n = 4 \/ n = 5 \/ n = 6 \/ n = 7
    OBVIOUS
  <2> QED BY <1>1, <1>4, <2>1 DEF FollowsTable
<1>6. Legal(h, "HUMAN_ESCALATION_REQUIRED")
  BY <1>1, <1>2, <1>5 DEF Legal
<1>7. Legal(Append(h, "MANAGER_CALLING"), "MANAGER_CALLING")
  BY <1>4, <1>6, TableFollowed
<1>8. Legal(CallStates, "MANAGER_RESPONSE_RECEIVED")
  BY <1>4, <1>7, TableFollowed DEF CallStates, h
<1>9. CallEvents \in Seq(AuditEvents) /\ Len(CallEvents) = 8
  <2>1. "MANAGER_ESCALATION_STARTED" \in AuditEvents /\ "MANAGER_CALL_COMPLETED" \in AuditEvents
    BY DEF AuditEvents
  <2>2. /\ Append(e, "MANAGER_ESCALATION_STARTED") \in Seq(AuditEvents)
        /\ Len(Append(e, "MANAGER_ESCALATION_STARTED")) = 7
    <3>1. /\ Append(e, "MANAGER_ESCALATION_STARTED") \in Seq(AuditEvents)
          /\ Len(Append(e, "MANAGER_ESCALATION_STARTED")) = Len(e) + 1
      BY <1>3, <2>1, AppendGrows
    <3> QED BY <1>3, <3>1
  <2> DEFINE g == Append(e, "MANAGER_ESCALATION_STARTED")
  <2> HIDE DEF g
  <2>3. /\ Append(g, "MANAGER_CALL_COMPLETED") \in Seq(AuditEvents)
        /\ Len(Append(g, "MANAGER_CALL_COMPLETED")) = Len(g) + 1
    BY <2>1, <2>2, AppendOne DEF g
  <2>4. Len(g) = 7
    BY <2>2 DEF g
  <2> QED BY <2>3, <2>4 DEF CallEvents, e, g
<1> QED BY <1>8, <1>9

\* The states and the events of the result of an answer.
NeedsApproval(response) ==
    RecordOf(response).effectiveDecision = "REQUIRES_AUTHENTICATED_HUMAN_APPROVAL"
StatesOf(response) ==
    Append(IF NeedsApproval(response)
           THEN Append(CallStates, "AUTHENTICATED_APPROVAL_REQUIRED") ELSE CallStates,
           "PROOF_SIGNED")
EventsOf(response) ==
    Append(IF NeedsApproval(response)
           THEN Append(CallEvents, "AUTHENTICATED_APPROVAL_REQUIRED") ELSE CallEvents,
           "MANAGER_DECISION_RECORDED")

LEMMA StatesAreLegal ==
    ASSUME NEW response
    PROVE  FollowsTable(StatesOf(response))
<1>1. /\ "AUTHENTICATED_APPROVAL_REQUIRED" \in Transitions["MANAGER_RESPONSE_RECEIVED"]
      /\ "PROOF_SIGNED" \in Transitions["MANAGER_RESPONSE_RECEIVED"]
      /\ "PROOF_SIGNED" \in Transitions["AUTHENTICATED_APPROVAL_REQUIRED"]
      /\ "AUTHENTICATED_APPROVAL_REQUIRED" \in WorkflowStates /\ "PROOF_SIGNED" \in WorkflowStates
  BY DEF Transitions, WorkflowStates
<1>2. Legal(Append(CallStates, "AUTHENTICATED_APPROVAL_REQUIRED"), "AUTHENTICATED_APPROVAL_REQUIRED")
  BY <1>1, CallIsLegal, TableFollowed
<1>3. Legal(Append(CallStates, "PROOF_SIGNED"), "PROOF_SIGNED")
  BY <1>1, CallIsLegal, TableFollowed
<1>4. Legal(Append(Append(CallStates, "AUTHENTICATED_APPROVAL_REQUIRED"), "PROOF_SIGNED"), "PROOF_SIGNED")
  BY <1>1, <1>2, TableFollowed
<1> QED BY <1>3, <1>4 DEF StatesOf, Legal

LEMMA EventsAreMany ==
    ASSUME NEW response
    PROVE  EventsOf(response) \in Seq(AuditEvents) /\ Len(EventsOf(response)) > 2
<1>1. "AUTHENTICATED_APPROVAL_REQUIRED" \in AuditEvents /\ "MANAGER_DECISION_RECORDED" \in AuditEvents
  BY DEF AuditEvents
<1> DEFINE events == IF NeedsApproval(response)
                     THEN Append(CallEvents, "AUTHENTICATED_APPROVAL_REQUIRED") ELSE CallEvents
<1>2. events \in Seq(AuditEvents) /\ Len(events) >= 8
  <2>1. /\ Append(CallEvents, "AUTHENTICATED_APPROVAL_REQUIRED") \in Seq(AuditEvents)
        /\ Len(Append(CallEvents, "AUTHENTICATED_APPROVAL_REQUIRED")) = 9
    <3>1. CallEvents \in Seq(AuditEvents) /\ Len(CallEvents) = 8
      BY CallIsLegal
    <3>2. /\ Append(CallEvents, "AUTHENTICATED_APPROVAL_REQUIRED") \in Seq(AuditEvents)
          /\ Len(Append(CallEvents, "AUTHENTICATED_APPROVAL_REQUIRED")) = Len(CallEvents) + 1
      BY <1>1, <3>1, AppendGrows
    <3> QED BY <3>1, <3>2
  <2> QED BY <2>1, CallIsLegal
<1> HIDE DEF events
<1>3. Append(events, "MANAGER_DECISION_RECORDED") \in Seq(AuditEvents)
      /\ Len(Append(events, "MANAGER_DECISION_RECORDED")) = Len(events) + 1
  BY <1>1, <1>2, AppendOne
<1>4. Len(events) \in Nat
  BY <1>2
<1> QED BY <1>2, <1>3, <1>4 DEF EventsOf, events

\* What a result says.
IsResult(r, history, timeline, escalation, proof, signed) ==
    /\ DOMAIN r = {"status", "history", "timeline", "escalation", "order", "proof", "signed"}
    /\ r.history = history /\ r.timeline = timeline /\ r.escalation = escalation
    /\ r.order = Nothing /\ r.proof = proof /\ r.signed = signed

LEMMA AnsweredCall ==
    /\ Escalable(NoCompliantOffer, TRUE)
    /\ IsResult(Responded(NoCompliantOffer), CallStates, CallEvents, Nothing, FALSE, Nothing)
<1> DEFINE base == NoCompliantOffer
           h == NoCompliantOffer.history
           e == NoCompliantOffer.timeline
<1>1. IsResult(base, h, e, Nothing, FALSE, Nothing)
  BY DEF NoCompliantOffer, IsResult
<1>2. Escalable(base, TRUE)
  BY DEF Escalable, NoCompliantOffer
<1> HIDE DEF base, h, e
<1>3. IsResult(Started(base), Append(h, "MANAGER_CALLING"), Append(e, "MANAGER_ESCALATION_STARTED"),
               Nothing, FALSE, Nothing)
  BY <1>1 DEF Started, IsResult
<1>4. IsResult(Responded(base),
               Append(Append(h, "MANAGER_CALLING"), "MANAGER_RESPONSE_RECEIVED"),
               Append(Append(e, "MANAGER_ESCALATION_STARTED"), "MANAGER_CALL_COMPLETED"),
               Nothing, FALSE, Nothing)
  BY <1>3 DEF Responded, IsResult
<1> QED BY <1>2, <1>4 DEF CallStates, CallEvents, base, h, e

LEMMA FinalResultIs ==
    ASSUME NEW response \in ManagerOptions
    PROVE  \E signed :
              /\ signed = CreateSignedDecisionProof(
                             [escalation |-> RecordOf(response), orderValue |-> Nothing],
                             CreateAuditChain(EventsOf(response)))
              /\ IsResult(FinalResult(response), StatesOf(response), EventsOf(response),
                          RecordOf(response), TRUE, signed)
<1> DEFINE base == NoCompliantOffer
           task == TaskOf(response)
           r == RecordOf(response)
           approval == NeedsApproval(response)
           states == IF approval
                     THEN Append(CallStates, "AUTHENTICATED_APPROVAL_REQUIRED") ELSE CallStates
           events == IF approval
                     THEN Append(CallEvents, "AUTHENTICATED_APPROVAL_REQUIRED") ELSE CallEvents
           decided == IF approval THEN Restricted(base) ELSE Bounded(base)
<1>1. /\ EscalationRecord(task) = r /\ r # Nothing /\ Escalable(base, TRUE)
      /\ approval <=> r.effectiveDecision = "REQUIRES_AUTHENTICATED_HUMAN_APPROVAL"
  BY AnsweredCall, AnswersAreRecorded DEF NeedsApproval
<1>2. IsResult(Responded(base), CallStates, CallEvents, Nothing, FALSE, Nothing)
  BY AnsweredCall
<1> HIDE DEF base, task, r, approval
<1>3. IsResult(Restricted(base), Append(CallStates, "AUTHENTICATED_APPROVAL_REQUIRED"),
               Append(CallEvents, "AUTHENTICATED_APPROVAL_REQUIRED"), Nothing, FALSE, Nothing)
  BY <1>2 DEF Restricted, IsResult
<1>4. IsResult(Bounded(base), CallStates, CallEvents, Nothing, FALSE, Nothing)
  BY <1>2 DEF Bounded, IsResult
<1>5. IsResult(decided, states, events, Nothing, FALSE, Nothing)
  BY <1>3, <1>4
<1>6. /\ (r = Nothing) = FALSE
      /\ Escalated(base, task) =
            [decided EXCEPT !.timeline = Append(@, "MANAGER_DECISION_RECORDED"),
                            !.escalation = r, !.proof = TRUE]
  BY <1>1 DEF Escalated
<1> HIDE DEF states, events, decided
<1>7. IsResult(Escalated(base, task), states, Append(events, "MANAGER_DECISION_RECORDED"), r, TRUE,
               Nothing)
  BY <1>5, <1>6 DEF IsResult
<1>8. IsResult(SignWorkflowResult(Escalated(base, task)), Append(states, "PROOF_SIGNED"),
               Append(events, "MANAGER_DECISION_RECORDED"), r, TRUE,
               CreateSignedDecisionProof([escalation |-> r, orderValue |-> Nothing],
                   CreateAuditChain(Append(events, "MANAGER_DECISION_RECORDED"))))
  BY <1>7 DEF SignWorkflowResult, IsResult
<1>9. FinalResult(response) = SignWorkflowResult(Escalated(base, task))
  BY <1>1 DEF FinalResult, RunJudgeEscalation, base, task
<1>10. /\ StatesOf(response) = Append(states, "PROOF_SIGNED")
       /\ EventsOf(response) = Append(events, "MANAGER_DECISION_RECORDED")
       /\ RecordOf(response) = r
  BY DEF StatesOf, EventsOf, states, events, r, approval
<1> QED BY <1>8, <1>9, <1>10
-----------------------------------------------------------------------------
(* What is said of the record is true *)

\* A copy under the same signature whose payload or key differs does not verify.
LEMMA EditsAreFound ==
    ASSUME NEW proof, VerifyDecisionProof(proof),
           NEW other, other.signature = proof.signature,
           other.payload # proof.payload \/ other.publicKey # proof.publicKey
    PROVE  ~ VerifyDecisionProof(other)
BY SignatureFixesPayload

LEMMA RecordHolds ==
    ASSUME NEW response \in ManagerOptions
    PROVE  LET proof == FinalResult(response).signed IN
           /\ VerifyDecisionProof(proof)
           /\ ~ VerifyDecisionProof(Tampered(proof))
           /\ \A edited \in Edits(proof) : ~ VerifyDecisionProof(edited)
           /\ [n \in 1 .. Len(EventsOf(response)) |-> proof.payload.auditChain[n].payload]
                 = EventsOf(response)
<1> DEFINE r == RecordOf(response)
           events == EventsOf(response)
           chain == CreateAuditChain(events)
           decided == [escalation |-> r, orderValue |-> Nothing]
           payload == [decided |-> decided, auditChain |-> chain, auditRootHash |-> Root(chain)]
           proof == CreateSignedDecisionProof(decided, chain)
<1>1. FinalResult(response).signed = proof
  BY FinalResultIs DEF IsResult
<1>2. VerifyDecisionProof(proof)
  BY EventsAreMany, SignedVerifies
<1>3. proof = [payload |-> payload, payloadHash |-> Sha256(payload),
               signature |-> Sign(Sha256(payload), KeyFor(Sha256(payload))),
               publicKey |-> KeyFor(Sha256(payload))]
  BY DEF CreateSignedDecisionProof
<1>4. proof.payload = payload /\ payload.auditChain = chain /\ payload.decided = decided
      /\ decided.orderValue = Nothing /\ decided.escalation = r
  BY <1>3
<1>5. r \in Record /\ r.effectiveDecision # "REQUEST_WRITTEN_REPORT"
  BY AnswersAreRecorded
<1>6. events \in Seq(AuditEvents) /\ Len(events) > 2
  BY EventsAreMany
<1>7. PICK h : chain = [n \in 1 .. Len(events) |->
                           [sequence |-> n, previousHash |-> h[n - 1], payload |-> events[n],
                            hash |-> h[n]]]
  <2> HIDE DEF events
  <2> QED BY <1>6, ChainHashes
<1> HIDE DEF r, events, chain, decided, payload, proof
<1>8. Len(chain) = Len(events)
  BY <1>6, <1>7
<1>9. ~ VerifyDecisionProof(Tampered(proof))
  <2>1. /\ Tampered(proof).signature = proof.signature
        /\ Tampered(proof).payload.decided.orderValue = 999999
    BY <1>3 DEF Tampered, payload, decided
  <2>2. Nothing # 999999
    BY NullAssumption
  <2>3. Tampered(proof).payload # proof.payload
    BY <1>4, <2>1, <2>2
  <2> QED BY <1>2, <2>1, <2>3, EditsAreFound
<1>10. ASSUME NEW edited, edited.signature = proof.signature,
              \/ edited.payload.decided.escalation.effectiveDecision = "REQUEST_WRITTEN_REPORT"
              \/ Len(edited.payload.auditChain) # Len(chain)
       PROVE  ~ VerifyDecisionProof(edited)
  <2>1. edited.payload # proof.payload
    BY <1>4, <1>5, <1>10
  <2> QED BY <1>2, <1>10, <2>1, EditsAreFound
<1>11. ASSUME NEW edited \in Edits(proof) PROVE ~ VerifyDecisionProof(edited)
  <2> DEFINE short == SubSeq(chain, 1, Len(chain) - 1)
             e1 == [proof EXCEPT !.payload.decided.escalation["effectiveDecision"] = "REQUEST_WRITTEN_REPORT"]
             e2 == [proof EXCEPT !.payload.auditChain = SubSeq(@, 1, Len(@) - 1)]
             e3 == [proof EXCEPT !.payload.auditChain = CreateAuditChain(<<"WORKFLOW_STARTED">>)]
             e4 == Changed(proof, short)
             e5 == [proof EXCEPT !.publicKey = KeyFor(Genesis)]
  <2>1. edited \in {e1, e2, e3, e4, e5}
    BY <1>4, <1>11 DEF Edits
  <2>2. Len(short) = Len(chain) - 1 /\ Len(chain) > 2
    BY <1>6, <1>7, <1>8
  <2>3. Len(CreateAuditChain(<<"WORKFLOW_STARTED">>)) = 1
    BY DEF CreateAuditChain
  <2>4. CASE edited = e1
    <3>1. e1.signature = proof.signature
          /\ e1.payload.decided.escalation.effectiveDecision = "REQUEST_WRITTEN_REPORT"
      BY <1>3, <1>5 DEF payload, decided, Record
    <3> QED BY <1>10, <2>4, <3>1
  <2>5. CASE edited = e2
    <3>1. e2.signature = proof.signature /\ e2.payload.auditChain = short
      BY <1>3, <1>4 DEF payload
    <3>2. Len(short) # Len(chain)
      BY <1>6, <1>8, <2>2
    <3> HIDE DEF e2, short
    <3> QED BY <1>10, <2>5, <3>1, <3>2
  <2>6. CASE edited = e3
    <3>1. e3.signature = proof.signature
          /\ e3.payload.auditChain = CreateAuditChain(<<"WORKFLOW_STARTED">>)
      BY <1>3 DEF payload
    <3> DEFINE one == CreateAuditChain(<<"WORKFLOW_STARTED">>)
    <3>2. e3.payload.auditChain = one /\ Len(one) = 1
      BY <2>3, <3>1
    <3> HIDE DEF one, e3, short
    <3>3. Len(chain) # 1
      <4>1. Len(chain) \in Nat /\ Len(chain) > 2
        BY <1>6, <1>8
      <4>2. \A n \in Nat : n > 2 => n # 1
        OBVIOUS
      <4> QED BY <4>1, <4>2
    <3>4. Len(e3.payload.auditChain) # Len(chain)
      BY <3>2, <3>3
    <3> QED BY <1>10, <2>6, <3>1, <3>4
  <2>7. CASE edited = e4
    <3>1. e4.signature = proof.signature /\ e4.payload.auditChain = short
      BY <1>3 DEF Changed, payload
    <3>2. Len(short) # Len(chain)
      BY <1>6, <1>8, <2>2
    <3> HIDE DEF e4, short
    <3> QED BY <1>10, <2>7, <3>1, <3>2
  <2>8. CASE edited = e5
    <3>1. e5.signature = proof.signature /\ e5.publicKey = KeyFor(Genesis)
      BY <1>3
    <3>2. Sha256(payload) # Genesis
      BY DEF Sha256, Genesis
    <3>3. proof.publicKey = KeyFor(Sha256(payload))
      BY <1>3
    <3>4. e5.publicKey # proof.publicKey
      BY <3>1, <3>2, <3>3 DEF KeyFor
    <3> HIDE DEF e5
    <3> QED BY <1>2, <2>8, <3>1, <3>4, EditsAreFound
  <2> HIDE DEF e1, e2, e3, e4, e5
  <2> QED BY <2>1, <2>4, <2>5, <2>6, <2>7, <2>8
<1>12. [n \in 1 .. Len(events) |-> proof.payload.auditChain[n].payload] = events
  BY <1>4, <1>6, <1>7
<1> QED BY <1>1, <1>2, <1>9, <1>11, <1>12 DEF events

-----------------------------------------------------------------------------
(* The page *)

StepNames == {"shortage", "rfq", "contact", "offers", "policy", "noncompliance",
              "escalation", "proof"}

\* The eight steps have eight names.
LEMMA EightSteps ==
    /\ Len(Steps) = 8 /\ Positions = 1 .. 8
    /\ \A n \in 1 .. 8 : Steps[n] \in StepNames
    /\ {Steps[n] : n \in Positions} = StepNames
    /\ \A n \in 1 .. 8 :
          /\ Steps[n] = "shortage" <=> n = 1
          /\ Steps[n] = "contact" <=> n = 3
          /\ Steps[n] = "escalation" <=> n = 7
          /\ Steps[n] = "proof" <=> n = 8
<1>1. Len(Steps) = 8 /\ Positions = 1 .. 8
  BY DEF Steps, Positions
<1>2. /\ Steps[1] = "shortage" /\ Steps[2] = "rfq" /\ Steps[3] = "contact"
      /\ Steps[4] = "offers" /\ Steps[5] = "policy" /\ Steps[6] = "noncompliance"
      /\ Steps[7] = "escalation" /\ Steps[8] = "proof"
  BY DEF Steps
<1>3. \A n \in 1 .. 8 : n = 1 \/ n = 2 \/ n = 3 \/ n = 4 \/ n = 5 \/ n = 6 \/ n = 7 \/ n = 8
  OBVIOUS
<1>4. {Steps[n] : n \in 1 .. 8} = StepNames
  <2>1. ASSUME NEW s \in StepNames PROVE \E n \in 1 .. 8 : Steps[n] = s
    BY <1>2 DEF StepNames
  <2>2. ASSUME NEW n \in 1 .. 8 PROVE Steps[n] \in StepNames
    BY <1>2, <1>3 DEF StepNames
  <2> QED BY <2>1, <2>2
<1> QED BY <1>1, <1>2, <1>3, <1>4 DEF StepNames
-----------------------------------------------------------------------------
LEMMA VerdictIsBoolean ==
    ASSUME NEW proof
    PROVE  VerifyDecisionProof(proof) \in BOOLEAN
BY DEF VerifyDecisionProof

\* A verification in progress knows the answer its record was made for.
OfAnswers == {"proof", "tamper"}
CallsCarryAnswers == \A f \in Flights : flight[f].kind \in OfAnswers => flight[f].of \in Answers

WalkthroughInv == WalkthroughTypeOK /\ StepsAreEarned /\ CallsCarryAnswers

LEMMA WalkthroughInitInv == WalkthroughInit => WalkthroughInv
<1> SUFFICES ASSUME WalkthroughInit PROVE WalkthroughInv
  OBVIOUS
<1> USE WalkthroughAssumption DEF WalkthroughInit, InitialData
<1>1. WalkthroughTypeOK
  BY EightSteps DEF WalkthroughTypeOK, Flight, Idle
<1>2. Step = "shortage"
  BY EightSteps DEF Step
<1>3. StepsAreEarned
  BY <1>2 DEF StepsAreEarned
<1>4. CallsCarryAnswers
  BY DEF CallsCarryAnswers, OfAnswers, Idle
<1> QED BY <1>1, <1>3, <1>4 DEF WalkthroughInv

\* Moving to another step takes no product away, and the verification is reached
\* only past the escalation.
LEMMA ShowInv ==
    ASSUME WalkthroughInv, NEW n \in 1 .. 8, Show(n),
           n = 8 => "escalation" \in completed \/ "proof" \in completed
    PROVE  WalkthroughInv'
<1> USE WalkthroughAssumption DEF WalkthroughInv, Show
<1>1. Steps[n] \in StepNames
  BY EightSteps
<1>2. WalkthroughTypeOK'
  BY <1>1, EightSteps DEF WalkthroughTypeOK
<1>3. /\ "shortage" \in completed' <=> "shortage" \in completed
      /\ "contact" \in completed' <=> "contact" \in completed
      /\ "escalation" \in completed' <=> "escalation" \in completed
      /\ "proof" \in completed' <=> "proof" \in completed
  BY DEF Computes
<1>4. Step' = Steps[n]
  BY DEF Step
<1>5. Step' = "proof" => n = 8
  BY <1>4, EightSteps
<1>6. (Step = "proof" /\ ~ IsComplete => data.final # Nothing)'
  BY <1>3, <1>5 DEF StepsAreEarned, IsComplete
<1> QED BY <1>2, <1>3, <1>6 DEF StepsAreEarned, CallsCarryAnswers

LEMMA WalkthroughStepInv == WalkthroughInv /\ [WalkthroughNext]_walkthroughVars => WalkthroughInv'
<1> SUFFICES ASSUME WalkthroughInv, [WalkthroughNext]_walkthroughVars PROVE WalkthroughInv'
  OBVIOUS
<1> USE WalkthroughAssumption
<1>t. WalkthroughTypeOK /\ StepsAreEarned
  BY DEF WalkthroughInv
<1>c. CallsCarryAnswers'
  <2>1. \A f \in Flights : flight'[f] = flight[f] \/ flight'[f] = Idle
                              \/ flight'[f].kind \notin OfAnswers \/ flight'[f].of \in Answers
    <3>1. CASE UNCHANGED flight
      BY <3>1
    <3>2. ASSUME NEW g \in Flights,
                 \/ ContactSuppliers(g) \/ CallManager(g) \/ VerifyProof(g) \/ Tamper(g)
          PROVE  \A f \in Flights : flight'[f] = flight[f]
                    \/ flight'[f].kind \notin OfAnswers \/ flight'[f].of \in Answers
      BY <1>t, <3>2 DEF WalkthroughTypeOK, ContactSuppliers, CallManager, VerifyProof, Tamper, Starts,
           OfAnswers
    <3>3. ASSUME NEW g \in Flights,
                 \/ ContactEnds(g) \/ EscalationEnds(g) \/ ProofEnds(g) \/ TamperEnds(g)
                 \/ FlightFails(g)
          PROVE  \A f \in Flights : flight'[f] = flight[f] \/ flight'[f] = Idle
      BY <1>t, <3>3 DEF WalkthroughTypeOK, ContactEnds, EscalationEnds, ProofEnds, TamperEnds,
           FlightFails, Ends
    <3>4. CASE Forward \/ Back \/ Restart \/ (\E n \in Positions : Rail(n))
               \/ (\E response \in Answers : SelectResponse(response))
               \/ DetectShortage \/ CallManagerTooEarly
      BY <3>1, <3>4 DEF Forward, Back, Rail, Show, Restart, SelectResponse, DetectShortage,
           CallManagerTooEarly
    <3>5. CASE UNCHANGED walkthroughVars
      BY <3>1, <3>5 DEF walkthroughVars
    <3> QED BY <3>2, <3>3, <3>4, <3>5 DEF WalkthroughNext
  <2> QED BY <1>t, <2>1 DEF WalkthroughInv, CallsCarryAnswers, WalkthroughTypeOK, Idle, OfAnswers
<1>i. index \in 1 .. 8
  BY <1>t, EightSteps DEF WalkthroughTypeOK
<1>1. CASE Forward
  <2>1. index + 1 \in 1 .. 8
    BY <1>1, <1>i, EightSteps DEF Forward
  <2>2. index + 1 = 8 => "escalation" \in completed
    BY <1>1, <1>i, EightSteps DEF Forward, IsComplete, Step
  <2> QED BY <1>1, <2>1, <2>2, ShowInv DEF Forward
<1>2. CASE Back
  <2>1. index - 1 \in 1 .. 8 /\ index - 1 # 8
    BY <1>2, <1>i DEF Back
  <2> QED BY <1>2, <2>1, ShowInv DEF Back
<1>3. ASSUME NEW n \in Positions, Rail(n) PROVE WalkthroughInv'
  <2>1. n \in 1 .. 8
    BY EightSteps
  <2>2. n = 8 => "proof" \in completed
    BY <1>3, <1>i, EightSteps DEF Rail
  <2> QED BY <1>3, <2>1, <2>2, ShowInv DEF Rail
<1>4. CASE Restart
  <2> USE <1>4, <1>t DEF Restart, InitialData
  <2>1. WalkthroughTypeOK'
    BY EightSteps DEF WalkthroughTypeOK
  <2>2. Step' = "shortage"
    BY EightSteps DEF Step
  <2>3. StepsAreEarned'
    BY <2>2 DEF StepsAreEarned
  <2> QED BY <2>1, <2>3, <1>c DEF WalkthroughInv
<1>5. ASSUME NEW response \in Answers, SelectResponse(response) PROVE WalkthroughInv'
  <2> USE <1>5, <1>t DEF SelectResponse
  <2>1. WalkthroughTypeOK'
    BY DEF WalkthroughTypeOK
  <2>2. Step' = "escalation"
    BY DEF Step
  <2>3. StepsAreEarned'
    BY <2>2 DEF StepsAreEarned, WalkthroughTypeOK
  <2> QED BY <2>1, <2>3, <1>c DEF WalkthroughInv
<1>6. CASE DetectShortage
  <2> USE <1>6, <1>t DEF DetectShortage
  <2>1. WalkthroughTypeOK'
    BY EightSteps DEF WalkthroughTypeOK, StepNames
  <2>2. StepsAreEarned'
    BY DEF StepsAreEarned, WalkthroughTypeOK, IsComplete, Step
  <2> QED BY <2>1, <2>2, <1>c DEF WalkthroughInv
<1>7. CASE CallManagerTooEarly
  BY <1>7, <1>t, <1>c DEF CallManagerTooEarly, WalkthroughInv, WalkthroughTypeOK, StepsAreEarned, Step, IsComplete
<1>8. ASSUME NEW f \in Flights,
             ContactSuppliers(f) \/ CallManager(f) \/ VerifyProof(f) \/ Tamper(f)
      PROVE  WalkthroughInv'
  <2>1. WalkthroughTypeOK'
    BY <1>8, <1>t DEF WalkthroughTypeOK, ContactSuppliers, CallManager, VerifyProof, Tamper, Starts, Flight
  <2>2. \A g \in Flights : flight[g].kind \in {"contact", "escalation"} => flight'[g] = flight[g]
    BY <1>8, <1>t DEF WalkthroughTypeOK, ContactSuppliers, CallManager, VerifyProof, Tamper, Starts, Idle
  <2>3. phase' = "running" => phase = "running" \/ flight'[f].kind \in {"contact", "escalation"}
    BY <1>8, <1>t DEF WalkthroughTypeOK, ContactSuppliers, CallManager, VerifyProof, Tamper, Starts
  <2>4. UNCHANGED <<index, completed, data>>
    BY <1>8 DEF ContactSuppliers, CallManager, VerifyProof, Tamper
  <2>5. StepsAreEarned'
    BY <1>t, <2>2, <2>3, <2>4 DEF StepsAreEarned, Step, IsComplete
  <2> QED BY <2>1, <2>5, <1>c DEF WalkthroughInv
<1>9. ASSUME NEW f \in Flights,
             ContactEnds(f) \/ EscalationEnds(f) \/ ProofEnds(f) \/ TamperEnds(f)
      PROVE  WalkthroughInv'
  <2> USE <1>9, <1>t DEF Ends, MarkDone
  <2>v. \A proof : VerifyDecisionProof(proof) \in BOOLEAN
    BY VerdictIsBoolean
  <2>k. ASSUME NEW g \in Flights, flight[g].kind \in {"contact", "escalation"},
               flight[f].kind \notin {"contact", "escalation"}
        PROVE  flight'[g] = flight[g]
    BY <2>k DEF WalkthroughTypeOK, ContactEnds, EscalationEnds, ProofEnds, TamperEnds
  <2>1. CASE ContactEnds(f)
    <3>1. WalkthroughTypeOK'
      BY <2>1, EightSteps DEF ContactEnds, WalkthroughTypeOK, StepNames, Flight, Idle
    <3>2. StepsAreEarned'
      BY <2>1 DEF ContactEnds, StepsAreEarned, WalkthroughTypeOK, Step, IsComplete
    <3> QED BY <3>1, <3>2, <1>c DEF WalkthroughInv
  <2>2. CASE EscalationEnds(f)
    <3>0. flight[f].of \in Answers
      BY <2>2 DEF EscalationEnds, WalkthroughTypeOK, Flight
    <3>1. WalkthroughTypeOK'
      BY <2>2, <3>0, EightSteps DEF EscalationEnds, WalkthroughTypeOK, StepNames, Flight, Idle
    <3>2. StepsAreEarned'
      BY <2>2, <3>0 DEF EscalationEnds, StepsAreEarned, WalkthroughTypeOK, Step, IsComplete
    <3> QED BY <3>1, <3>2, <1>c DEF WalkthroughInv
  <2>3. CASE ProofEnds(f)
    <3>1. WalkthroughTypeOK'
      BY <2>3, <2>v, EightSteps DEF ProofEnds, WalkthroughTypeOK, StepNames, Flight, Idle
    <3>2. StepsAreEarned'
      BY <2>3, <2>k, <2>v DEF ProofEnds, StepsAreEarned, WalkthroughTypeOK, Step, IsComplete
    <3> QED BY <3>1, <3>2, <1>c DEF WalkthroughInv
  <2>4. CASE TamperEnds(f)
    <3>1. WalkthroughTypeOK'
      BY <2>4, <2>v DEF TamperEnds, WalkthroughTypeOK, Flight, Idle
    <3>2. StepsAreEarned'
      BY <2>4, <2>k, <2>v DEF TamperEnds, StepsAreEarned, WalkthroughTypeOK, Step, IsComplete
    <3> QED BY <3>1, <3>2, <1>c DEF WalkthroughInv
  <2> QED BY <2>1, <2>2, <2>3, <2>4
<1>10. ASSUME NEW f \in Flights, FlightFails(f) PROVE WalkthroughInv'
  <2> USE <1>10, <1>t DEF FlightFails
  <2>1. WalkthroughTypeOK'
    BY DEF WalkthroughTypeOK, Flight, Idle
  <2>2. StepsAreEarned'
    BY DEF StepsAreEarned, WalkthroughTypeOK, Step, IsComplete
  <2> QED BY <2>1, <2>2, <1>c DEF WalkthroughInv
<1>11. CASE UNCHANGED walkthroughVars
  BY <1>11, <1>t, <1>c DEF walkthroughVars, WalkthroughInv, WalkthroughTypeOK, StepsAreEarned, Step, IsComplete
<1> QED
  BY <1>1, <1>2, <1>3, <1>4, <1>5, <1>6, <1>7, <1>8, <1>9, <1>10, <1>11 DEF WalkthroughNext
-----------------------------------------------------------------------------
\* The page keeps its types.
THEOREM WalkthroughTypeCorrect == WalkthroughSpec => []WalkthroughTypeOK
<1>1. WalkthroughInv => WalkthroughTypeOK
  BY DEF WalkthroughInv
<1> QED BY <1>1, WalkthroughInitInv, WalkthroughStepInv, PTL DEF WalkthroughSpec

\* A step of the walkthrough is marked done exactly as long as its product is
\* there, however many phases are in progress and whatever was clicked meanwhile.
THEOREM StepsAreAlwaysEarned == WalkthroughSpec => []StepsAreEarned
<1>1. WalkthroughInv => StepsAreEarned
  BY DEF WalkthroughInv
<1> QED BY <1>1, WalkthroughInitInv, WalkthroughStepInv, PTL DEF WalkthroughSpec
-----------------------------------------------------------------------------
(* What the page says of a proof *)

VerdictsTrue == data.verification \in {TRUE, Nothing} /\ data.tamper \in {FALSE, Nothing}

LEMMA VerdictsKept ==
    WalkthroughInv /\ VerdictsTrue /\ [WalkthroughNext]_walkthroughVars => VerdictsTrue'
<1> SUFFICES ASSUME WalkthroughInv, VerdictsTrue, [WalkthroughNext]_walkthroughVars
             PROVE  VerdictsTrue'
  OBVIOUS
<1> USE WalkthroughAssumption
<1>t. data \in [input : BOOLEAN, forecast : BOOLEAN, supplierResult : BOOLEAN,
                sameRun : BOOLEAN, final : Answers \cup {Nothing}, response : Answers,
                verification : BOOLEAN \cup {Nothing}, tamper : BOOLEAN \cup {Nothing}]
  BY DEF WalkthroughInv, WalkthroughTypeOK
<1>1. CASE UNCHANGED <<data.verification, data.tamper>>
  BY <1>1 DEF VerdictsTrue
<1>2. ASSUME NEW f \in Flights, ProofEnds(f) PROVE VerdictsTrue'
  <2>1. flight[f].of \in ManagerOptions
    BY <1>2 DEF ProofEnds, Ends, WalkthroughInv, CallsCarryAnswers, OfAnswers
  <2> DEFINE verdict == VerifyDecisionProof(Proof(flight[f].of))
  <2>2. verdict = TRUE
    BY <2>1, RecordHolds, VerdictIsBoolean DEF Proof
  <2> HIDE DEF verdict
  <2>3. data' = [data EXCEPT !.verification = verdict]
    BY <1>2 DEF ProofEnds, verdict
  <2> QED BY <1>t, <2>2, <2>3 DEF VerdictsTrue
<1>3. ASSUME NEW f \in Flights, TamperEnds(f) PROVE VerdictsTrue'
  <2>1. flight[f].of \in ManagerOptions
    BY <1>3 DEF TamperEnds, Ends, WalkthroughInv, CallsCarryAnswers, OfAnswers
  <2> DEFINE verdict == VerifyDecisionProof(Tampered(Proof(flight[f].of)))
  <2>2. verdict = FALSE
    BY <2>1, RecordHolds, VerdictIsBoolean DEF Proof
  <2> HIDE DEF verdict
  <2>3. data' = [data EXCEPT !.tamper = verdict]
    BY <1>3 DEF TamperEnds, verdict
  <2> QED BY <1>t, <2>2, <2>3 DEF VerdictsTrue
<1>4. CASE Restart \/ (\E response \in Answers : SelectResponse(response))
           \/ (\E f \in Flights : EscalationEnds(f))
  <2>1. data'.verification = Nothing /\ data'.tamper = Nothing
    <3>1. CASE Restart
      BY <3>1 DEF Restart, InitialData
    <3>2. CASE \E response \in Answers : SelectResponse(response)
      BY <3>2, <1>t DEF SelectResponse
    <3>3. CASE \E f \in Flights : EscalationEnds(f)
      BY <3>3, <1>t DEF EscalationEnds
    <3> QED BY <1>4, <3>1, <3>2, <3>3
  <2> QED BY <2>1 DEF VerdictsTrue
<1>5. CASE DetectShortage \/ (\E f \in Flights : ContactEnds(f))
  BY <1>5, <1>1, <1>t DEF DetectShortage, ContactEnds
<1>6. CASE UNCHANGED data
  BY <1>6, <1>1
<1>7. CASE UNCHANGED walkthroughVars
  BY <1>6, <1>7 DEF walkthroughVars
<1>8. CASE Forward \/ Back \/ (\E n \in Positions : Rail(n)) \/ CallManagerTooEarly
           \/ \E f \in Flights : \/ ContactSuppliers(f) \/ CallManager(f) \/ VerifyProof(f)
                                 \/ Tamper(f) \/ FlightFails(f)
  BY <1>6, <1>8 DEF Forward, Back, Rail, Show, CallManagerTooEarly, ContactSuppliers, CallManager,
     VerifyProof, Tamper, FlightFails
<1> QED
  BY <1>2, <1>3, <1>4, <1>5, <1>7, <1>8 DEF WalkthroughNext

LEMMA TrueVerdictsHold == WalkthroughInv /\ VerdictsTrue => VerdictsHold
<1> SUFFICES ASSUME WalkthroughInv, VerdictsTrue PROVE VerdictsHold
  OBVIOUS
<1>1. /\ data.verification # Nothing => data.verification
      /\ data.tamper # Nothing => ~ data.tamper
  BY DEF VerdictsTrue
<1>2. ASSUME data.final # Nothing
      PROVE  LET result == FinalResult(data.final) IN
             /\ VerifyDecisionProof(result.signed)
             /\ \A edited \in Edits(result.signed) : ~ VerifyDecisionProof(edited)
             /\ FollowsTable(result.history) /\ result.order = Nothing
             /\ [n \in 1 .. Len(result.timeline) |-> result.signed.payload.auditChain[n].payload]
                   = result.timeline
             /\ result.escalation.restricted # {} =>
                   result.escalation.effectiveDecision \in
                       {"REQUIRES_AUTHENTICATED_HUMAN_APPROVAL", "DECLINE_ESCALATION"}
  <2>1. data.final \in ManagerOptions
    BY <1>2, WalkthroughAssumption DEF WalkthroughInv, WalkthroughTypeOK
  <2> DEFINE result == FinalResult(data.final)
             r == RecordOf(data.final)
  <2>2. /\ result.history = StatesOf(data.final) /\ result.timeline = EventsOf(data.final)
        /\ result.order = Nothing /\ result.escalation = r
    BY <2>1, FinalResultIs DEF IsResult
  <2>3. /\ VerifyDecisionProof(result.signed)
        /\ \A edited \in Edits(result.signed) : ~ VerifyDecisionProof(edited)
        /\ [n \in 1 .. Len(EventsOf(data.final)) |-> result.signed.payload.auditChain[n].payload]
              = EventsOf(data.final)
    BY <2>1, RecordHolds
  <2>4. r.restricted # {} =>
           r.effectiveDecision \in {"REQUIRES_AUTHENTICATED_HUMAN_APPROVAL", "DECLINE_ESCALATION"}
    BY <2>1, AnswersAreRecorded
  <2>5. FollowsTable(StatesOf(data.final))
    BY StatesAreLegal
  <2> HIDE DEF result, r
  <2>6. /\ VerifyDecisionProof(result.signed)
        /\ \A edited \in Edits(result.signed) : ~ VerifyDecisionProof(edited)
        /\ FollowsTable(result.history) /\ result.order = Nothing
        /\ [n \in 1 .. Len(result.timeline) |-> result.signed.payload.auditChain[n].payload]
              = result.timeline
        /\ result.escalation.restricted # {} =>
              result.escalation.effectiveDecision \in
                  {"REQUIRES_AUTHENTICATED_HUMAN_APPROVAL", "DECLINE_ESCALATION"}
    BY <2>2, <2>3, <2>4, <2>5
  <2> QED BY <2>6 DEF result
<1> QED BY <1>1, <1>2 DEF VerdictsHold

\* What the page says of a proof is true, whatever was clicked while the phases
\* were in progress: the record of every answer verifies, no tampered or edited
\* copy does, and the run behind it kept to the table, ordered nothing and gave
\* no effect to a spoken request for a restricted action.
THEOREM VerdictsAlwaysHold == WalkthroughSpec => []VerdictsHold
<1>1. WalkthroughInit => VerdictsTrue
  BY DEF WalkthroughInit, InitialData, VerdictsTrue
<1> QED
  BY <1>1, WalkthroughInitInv, WalkthroughStepInv, VerdictsKept, TrueVerdictsHold, PTL
     DEF WalkthroughSpec
=============================================================================
