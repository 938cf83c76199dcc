--------------------------- MODULE OutboundProofs ---------------------------
(***************************************************************************)
(* Theorems about what is posted of the operations of an audited system,   *)
(* for any configurations and operations that the assumptions of Outbound  *)
(* admit, any number of lines, operations, restarts, joined lines and      *)
(* returns in the log: SETs are signed as configured, and tell what        *)
(* happened, once in a pass, if it is to be told.                          *)
(***************************************************************************)
EXTENDS Outbound, WellFoundedInduction, TLAPS

\* The event that comes of the line at a position of the log.
EventAt(a) == Parse(setup.type, Source(setup), LineAt(a))

\* The event of a line of an operation, and of its last.
LineEvent(s, op, k, j) == Parse(s.type, Source(s), LinesOf(s.type, op, k)[j])
LastEvent(s, op, k) == LineEvent(s, op, k, Len(LinesOf(s.type, op, k)))

\* A SET says what an event says, and is signed with the key there is.
Tells(st, event) ==
  /\ st.type = event.type /\ st.id = event.id /\ st.entity = event.entity
  /\ st.key = ResolveSigningKeyPEM.from

\* The types of the variables but for what the SETs say.
LogTypeOK ==
  /\ setup \in Setups
  /\ proc \in {"off", "running", "exited"}
  /\ ops \in Seq(Operations[setup.type]) /\ Len(ops) <= MaxOps
  /\ written \in Seq(Nat) /\ Len(written) = Len(ops)
  /\ \A k \in 1..Len(ops) : written[k] \in 1..Len(Lines(ops[k], k))
  /\ log \in Seq((0..Len(ops)) \X Nat)
  /\ at \in 0..Len(log)
  /\ faults \in 0..MaxFaults
  /\ whole \subseteq 1..Len(ops)

\* No line of an operation is twice in the log, nor one it has not logged.
LogInv ==
  /\ \A a \in 1..Len(log) : log[a][1] # 0 => log[a][2] \in 1..written[log[a][1]]
  /\ \A a, b \in 1..Len(log) : (a # b /\ log[a] = log[b]) => log[a][1] = 0

\* The relay runs, and what it has posted it has posted, with a key that loads
\* and a source that builds.
RunningInv ==
  (proc = "running" \/ posted # <<>> \/ whole # {}) =>
    KeyLoads /\ Builds(setup.type, setup.config)

\* Of the SETs posted, some are mixed, and some are of the tailer's last pass.
PlacesInv ==
  /\ \E S : posted \in Seq(S)
  /\ mixed \subseteq 1..Len(posted)
  /\ since \in 0..Len(posted)

\* Every SET posted is of a type of the source and signed with the key there is;
\* one that is not mixed tells the event of a line of the log.
PostedInv ==
  \A i \in 1..Len(posted) :
    /\ Signs
    /\ posted[i].type \in EventTypesOf(setup) /\ posted[i].id \in 0..Len(ops)
    /\ posted[i].key = ResolveSigningKeyPEM.from
    /\ i \notin mixed =>
         \E a \in 1..Len(log) : EventAt(a) # NoEvent /\ Tells(posted[i], EventAt(a))

\* Of this pass, it is a line that is behind the relay.
PassInv ==
  \A i \in ((since + 1)..Len(posted)) \ mixed :
    \E a \in 1..at : EventAt(a) # NoEvent /\ Tells(posted[i], EventAt(a))

\* The event of an operation's last line has been posted if it came through.
WholeInv ==
  \A k \in whole :
    (Signs /\ LastEvent(setup, ops[k], k) # NoEvent) =>
      \E i \in (1..Len(posted)) \ mixed : posted[i].id = k

-----------------------------------------------------------------------------
(* The lines of an operation.                                              *)

\* The response to a Vault operation, as it is logged.
VaultResponse(op, k) ==
  [type |-> "response", path |-> op.path, op |-> op.op, id |-> k, error |-> ~op.ok,
   requestEntity |-> IF op.login THEN "" ELSE op.actor,
   authEntity |-> IF op.ok \/ ~op.login THEN op.actor ELSE ""]

\* The two lines of a Vault operation.
LEMMA VaultLinesAre ==
  ASSUME NEW op, NEW k
  PROVE  /\ Len(VaultLines(op, k)) = 2
         /\ VaultLines(op, k)[1].type = "request" /\ VaultLines(op, k)[1].id = k
         /\ VaultLines(op, k)[2] = VaultResponse(op, k)
BY DEF VaultLines, EmptyVaultEntry, VaultResponse

\* The two or three lines of a Kubernetes request.
LEMMA K8sLinesAre ==
  ASSUME NEW op, NEW k
  PROVE  LET last == IF op.verb = "watch" THEN 3 ELSE 2
         IN  /\ Len(K8sLines(op, k)) = last
             /\ \A j \in 1..last :
                  LET e == K8sLines(op, k)[j]
                  IN  /\ e.user = op.user /\ e.uid = op.actor /\ e.verb = op.verb
                      /\ e.resource = op.resource /\ e.id = k
                      /\ e.code = IF j = 1 THEN 0 ELSE op.code
                      /\ e.stage = IF j = 1 THEN "RequestReceived"
                                   ELSE IF j < last THEN "ResponseStarted"
                                   ELSE IF op.code = 500 THEN "Panic"
                                   ELSE "ResponseComplete"
<1>. DEFINE received == [EmptyK8sEvent EXCEPT !.stage = "RequestReceived", !.user = op.user,
                           !.uid = op.actor, !.verb = op.verb, !.resource = op.resource, !.id = k]
            reached(stage) == [received EXCEPT !.stage = stage, !.code = op.code]
            final == reached(IF op.code = 500 THEN "Panic" ELSE "ResponseComplete")
            started == reached("ResponseStarted")
<1>1. /\ received.user = op.user /\ received.uid = op.actor /\ received.verb = op.verb
      /\ received.resource = op.resource /\ received.id = k
      /\ received.code = 0 /\ received.stage = "RequestReceived"
  BY DEF EmptyK8sEvent
<1>2. ASSUME NEW stage
      PROVE  LET e == reached(stage)
             IN  /\ e.user = op.user /\ e.uid = op.actor /\ e.verb = op.verb
                 /\ e.resource = op.resource /\ e.id = k
                 /\ e.code = op.code /\ e.stage = stage
  BY DEF EmptyK8sEvent
<1>3. K8sLines(op, k) = IF op.verb = "watch" THEN << received, started, final >>
                                             ELSE << received, final >>
  BY DEF K8sLines
<1>. HIDE DEF reached
<1>4. /\ final.user = op.user /\ final.uid = op.actor /\ final.verb = op.verb
      /\ final.resource = op.resource /\ final.id = k /\ final.code = op.code
      /\ final.stage = IF op.code = 500 THEN "Panic" ELSE "ResponseComplete"
  BY <1>2
<1>5. /\ started.user = op.user /\ started.uid = op.actor /\ started.verb = op.verb
      /\ started.resource = op.resource /\ started.id = k /\ started.code = op.code
      /\ started.stage = "ResponseStarted"
  BY <1>2
<1>. HIDE DEF received, final, started
<1>6. CASE op.verb = "watch"
  <2>1. K8sLines(op, k) = << received, started, final >>
    BY <1>3, <1>6
  <2>2. /\ Len(K8sLines(op, k)) = 3 /\ K8sLines(op, k)[1] = received
        /\ K8sLines(op, k)[2] = started /\ K8sLines(op, k)[3] = final
    BY <2>1
  <2>3. 1..3 = {1, 2, 3}
    OBVIOUS
  <2>. QED  BY <1>1, <1>4, <1>5, <1>6, <2>2, <2>3
<1>7. CASE op.verb # "watch"
  <2>1. K8sLines(op, k) = << received, final >>
    BY <1>3, <1>7
  <2>2. /\ Len(K8sLines(op, k)) = 2 /\ K8sLines(op, k)[1] = received
        /\ K8sLines(op, k)[2] = final
    BY <2>1
  <2>3. 1..2 = {1, 2}
    OBVIOUS
  <2>. QED  BY <1>1, <1>4, <1>7, <2>2, <2>3
<1>. QED  BY <1>6, <1>7

\* Every operation has a first line, and all carry its number.
LEMMA LinesAre ==
  ASSUME NEW type \in SourceTypes, NEW op, NEW k
  PROVE  /\ Len(LinesOf(type, op, k)) \in Nat /\ Len(LinesOf(type, op, k)) >= 1
         /\ \A j \in 1..Len(LinesOf(type, op, k)) : LinesOf(type, op, k)[j].id = k
<1>1. CASE type = "vault-audit"
  <2>1. LinesOf(type, op, k) = VaultLines(op, k)
    BY <1>1 DEF LinesOf
  <2>2. 1..2 = {1, 2}
    OBVIOUS
  <2>3. Len(VaultLines(op, k)) = 2 /\ VaultLines(op, k)[1].id = k
    BY VaultLinesAre
  <2>4. VaultLines(op, k)[2].id = k
    <3>1. VaultLines(op, k)[2] = VaultResponse(op, k)
      BY VaultLinesAre
    <3>2. VaultResponse(op, k).id = k
      BY DEF VaultResponse
    <3>. QED  BY <3>1, <3>2
  <2>. QED  BY <2>1, <2>2, <2>3, <2>4
<1>2. CASE type = "k8s-audit"
  BY <1>2, K8sLinesAre DEF LinesOf
<1>3. CASE type = "opa-decision"
  <2>1. LinesOf(type, op, k) = OpaLines(op, k)
    BY <1>3 DEF LinesOf
  <2>2. Len(OpaLines(op, k)) = 1 /\ OpaLines(op, k)[1].id = k
    BY DEF OpaLines
  <2>. QED  BY <2>1, <2>2
<1>. QED  BY <1>1, <1>2, <1>3 DEF SourceTypes

-----------------------------------------------------------------------------
(* What comes of a line.                                                   *)

\* An event is one when its type is.
LEMMA Events ==
  ASSUME NEW what, NEW id, NEW entity
  PROVE  /\ EventIf(what, id, entity) # NoEvent <=> what # "none"
         /\ what # "none" => /\ EventIf(what, id, entity).type = what
                             /\ EventIf(what, id, entity).id = id
                             /\ EventIf(what, id, entity).entity = entity
<1>1. CASE what = "none"
  BY <1>1 DEF EventIf
<1>2. CASE what # "none"
  <2>1. EventIf(what, id, entity) = [type |-> what, id |-> id, entity |-> entity]
    BY <1>2 DEF EventIf
  <2>2. [type |-> what, id |-> id, entity |-> entity] # NoEvent
    <3>1. [type |-> what, id |-> id, entity |-> entity].type = what /\ NoEvent.type = "none"
      BY DEF NoEvent
    <3>. QED  BY <1>2, <3>1
  <2>. QED  BY <1>2, <2>1, <2>2
<1>. QED  BY <1>1, <1>2

\* What the parsers make of a line.
LEMMA VaultParses ==
  ASSUME NEW s, NEW line
  PROVE  /\ Parse("vault-audit", s, line) # NoEvent <=>
              line # NotJSON /\ VaultType(s, line) # "none"
         /\ Parse("vault-audit", s, line) # NoEvent =>
              /\ Parse("vault-audit", s, line).type = VaultType(s, line)
              /\ Parse("vault-audit", s, line).id = line.id
              /\ Parse("vault-audit", s, line).entity =
                   IF line.requestEntity # "" THEN line.requestEntity ELSE line.authEntity
<1>. DEFINE who == IF line.requestEntity # "" THEN line.requestEntity ELSE line.authEntity
<1>1. Parse("vault-audit", s, line) =
        IF line = NotJSON THEN NoEvent ELSE EventIf(VaultType(s, line), line.id, who)
  BY DEF Parse, VaultParse, Decodes
<1>. HIDE DEF who
<1>2. /\ Parse("vault-audit", s, line) # NoEvent <=>
           line # NotJSON /\ VaultType(s, line) # "none"
      /\ Parse("vault-audit", s, line) # NoEvent =>
           /\ Parse("vault-audit", s, line).type = VaultType(s, line)
           /\ Parse("vault-audit", s, line).id = line.id
           /\ Parse("vault-audit", s, line).entity = who
  BY <1>1, Events
<1>. QED  BY <1>2 DEF who

\* What the Kubernetes parser makes of a line.
LEMMA K8sParses ==
  ASSUME NEW s, NEW line
  PROVE  /\ Parse("k8s-audit", s, line) # NoEvent <=>
              line # NotJSON /\ K8sType(s, line) # "none"
         /\ Parse("k8s-audit", s, line) # NoEvent =>
              /\ Parse("k8s-audit", s, line).type = K8sType(s, line)
              /\ Parse("k8s-audit", s, line).id = line.id
              /\ Parse("k8s-audit", s, line).entity = line.uid
<1>1. Parse("k8s-audit", s, line) =
        IF line = NotJSON THEN NoEvent ELSE EventIf(K8sType(s, line), line.id, line.uid)
  BY DEF Parse, K8sParse, Decodes
<1>. QED  BY <1>1, Events

\* What the OPA parser makes of a line.
LEMMA OpaParses ==
  ASSUME NEW s, NEW line
  PROVE  /\ Parse("opa-decision", s, line) # NoEvent <=>
              Decodes("opa-decision", line) /\ OpaType(s, line) # "none"
         /\ Parse("opa-decision", s, line) # NoEvent =>
              /\ Parse("opa-decision", s, line).type = OpaType(s, line)
              /\ Parse("opa-decision", s, line).id = line.id
              /\ Parse("opa-decision", s, line).entity = line.labels
<1>1. Parse("opa-decision", s, line) =
        IF ~Decodes("opa-decision", line) THEN NoEvent
        ELSE EventIf(OpaType(s, line), line.id, line.labels)
  BY DEF Parse, OpaParse
<1>. QED  BY <1>1, Events

\* An event has a type of its source, and the number that the line has.
LEMMA ParseTypes ==
  ASSUME NEW s, s.type \in SourceTypes, NEW line, Parse(s.type, Source(s), line) # NoEvent
  PROVE  /\ Parse(s.type, Source(s), line).type \in EventTypesOf(s)
         /\ Parse(s.type, Source(s), line).id = line.id
<1>. DEFINE src == Source(s)
<1>1. CASE s.type = "vault-audit"
  <2>0. Parse("vault-audit", src, line) # NoEvent
    BY <1>1
  <2>. HIDE DEF src
  <2>1. /\ VaultType(src, line) # "none"
        /\ Parse(s.type, src, line).type = VaultType(src, line)
        /\ Parse(s.type, src, line).id = line.id
    <3>1. VaultType(src, line) # "none"
      BY <2>0, VaultParses
    <3>2. Parse("vault-audit", src, line).type = VaultType(src, line)
      BY <2>0, VaultParses
    <3>3. Parse("vault-audit", src, line).id = line.id
      BY <2>0, VaultParses
    <3>. QED  BY <1>1, <3>1, <3>2, <3>3
  <2>2. VaultType(src, line) = ResponseType(src, line)
    BY <2>1 DEF VaultType
  <2>3. EventTypesOf(s) = {"credential-revoked", "secret-denied", "auth-event"}
                            \cup {src.mountRules[i].event : i \in DOMAIN src.mountRules}
    BY <1>1 DEF EventTypesOf, RuleEvents, src
  <2>4. ResponseType(src, line) \in {"credential-revoked", "secret-denied", "auth-event"}
          \cup {src.mountRules[i].event : i \in DOMAIN src.mountRules}
    <3>1. CASE MatchingRule(src, line) # {}
      <4>1. PICK i \in MatchingRule(src, line) :
                   i = CHOOSE n \in MatchingRule(src, line) : TRUE
        BY <3>1
      <4>2. i \in DOMAIN src.mountRules
        BY DEF MatchingRule
      <4>. QED  BY <2>1, <2>2, <3>1, <4>1, <4>2 DEF ResponseType
    <3>2. CASE MatchingRule(src, line) = {}
      BY <2>1, <2>2, <3>2 DEF ResponseType
    <3>. QED  BY <3>1, <3>2
  <2>. QED  BY <2>1, <2>2, <2>3, <2>4 DEF src
<1>2. CASE s.type = "k8s-audit"
  <2>1. /\ K8sType(src, line) # "none"
        /\ Parse(s.type, src, line).type = K8sType(src, line)
        /\ Parse(s.type, src, line).id = line.id
    BY <1>2, K8sParses
  <2>. HIDE DEF src
  <2>2. K8sType(src, line) \in {"secret-accessed", "secret-denied", "credential-issued",
                                "credential-revoked"}
    BY <2>1 DEF K8sType
  <2>. QED  BY <1>2, <2>1, <2>2 DEF EventTypesOf, src
<1>3. CASE s.type = "opa-decision"
  <2>1. /\ OpaType(src, line) # "none"
        /\ Parse(s.type, src, line).type = OpaType(src, line)
        /\ Parse(s.type, src, line).id = line.id
    BY <1>3, OpaParses
  <2>. HIDE DEF src
  <2>2. OpaType(src, line) \in {"policy-denied", "policy-allowed"}
    BY <2>1 DEF OpaType
  <2>. QED  BY <1>3, <2>1, <2>2 DEF EventTypesOf, src
<1>. QED  BY <1>1, <1>2, <1>3 DEF SourceTypes

-----------------------------------------------------------------------------
(* Which line of an operation is reported, and what is said of it.         *)

\* Of a Vault operation, only the response is reported.
LEMMA OnlyResponse ==
  ASSUME NEW s \in Setups, s.type = "vault-audit", NEW op, NEW k,
         NEW j \in 1..Len(LinesOf(s.type, op, k)), LineEvent(s, op, k, j) # NoEvent
  PROVE  j = 2
<1>. DEFINE line == LinesOf(s.type, op, k)[j]
<1>1. LinesOf(s.type, op, k) = VaultLines(op, k)
  BY DEF LinesOf
<1>2. Len(VaultLines(op, k)) = 2 /\ VaultLines(op, k)[1].type = "request"
  BY VaultLinesAre
<1>. HIDE DEF line
<1>3. Parse("vault-audit", Source(s), line) # NoEvent
  BY DEF LineEvent, line
<1>4. VaultType(Source(s), line) # "none"
  BY <1>3, VaultParses
<1>5. line.type = "response"
  BY <1>4 DEF VaultType
<1>. QED  BY <1>1, <1>2, <1>5 DEF line

\* An event tells the response to an operation.
TellsResponse(event, s, op, k) ==
  /\ event.type = ResponseType(Source(s), VaultResponse(op, k)) /\ event.type # "none"
  /\ event.entity = IF op.login /\ ~op.ok THEN "" ELSE op.actor

\* Of a Vault operation, the response is reported.
LEMMA VaultReports ==
  ASSUME NEW s \in Setups, s.type = "vault-audit", NEW op, NEW k,
         NEW j \in 1..Len(LinesOf(s.type, op, k)), LineEvent(s, op, k, j) # NoEvent
  PROVE  TellsResponse(LineEvent(s, op, k, j), s, op, k)
<1>. DEFINE line == LinesOf(s.type, op, k)[j]
<1>1. LinesOf(s.type, op, k) = VaultLines(op, k) /\ j \in 1..Len(VaultLines(op, k))
  BY DEF LinesOf
<1>2. line = VaultLines(op, k)[j]
  BY <1>1
<1>3. Len(VaultLines(op, k)) = 2 /\ VaultLines(op, k)[1].type = "request"
  BY VaultLinesAre
<1>4. VaultLines(op, k)[2] = VaultResponse(op, k)
  BY VaultLinesAre
<1>. HIDE DEF line
<1>5. LineEvent(s, op, k, j) = Parse("vault-audit", Source(s), line)
  BY DEF LineEvent, line
<1>6. VaultType(Source(s), line) # "none"
  BY <1>5, VaultParses
<1>a. Parse("vault-audit", Source(s), line) # NoEvent
  BY <1>5
<1>7. line.type = "response"
  BY <1>6 DEF VaultType
<1>8. j = 2 /\ line = VaultResponse(op, k)
  BY <1>1, <1>2, <1>3, <1>4, <1>7
<1>9. /\ LineEvent(s, op, k, j).type = VaultType(Source(s), line)
      /\ LineEvent(s, op, k, j).entity =
           IF line.requestEntity # "" THEN line.requestEntity ELSE line.authEntity
  <2>1. Parse("vault-audit", Source(s), line).type = VaultType(Source(s), line)
    BY <1>a, VaultParses
  <2>3. Parse("vault-audit", Source(s), line).entity =
          IF line.requestEntity # "" THEN line.requestEntity ELSE line.authEntity
    BY <1>a, VaultParses
  <2>. QED  BY <1>5, <2>1, <2>3
<1>10. VaultType(Source(s), line) = ResponseType(Source(s), VaultResponse(op, k))
  BY <1>7, <1>8 DEF VaultType
<1>11. (IF line.requestEntity # "" THEN line.requestEntity ELSE line.authEntity) =
            IF op.login /\ ~op.ok THEN "" ELSE op.actor
  BY <1>8 DEF VaultResponse
<1>. QED  BY <1>6, <1>8, <1>9, <1>10, <1>11 DEF TellsResponse

\* A Kubernetes request is reported at a stage that is asked for, with what it
\* was answered.
LEMMA K8sReports ==
  ASSUME NEW s \in Setups, s.type = "k8s-audit", NEW op, NEW k,
         NEW j \in 1..Len(LinesOf(s.type, op, k)), LineEvent(s, op, k, j) # NoEvent
  PROVE  LET line == K8sLines(op, k)[j]
         IN  /\ j # 1
             /\ LineEvent(s, op, k, j).type = K8sType(Source(s), line)
             /\ K8sType(Source(s), line) # "none"
             /\ LineEvent(s, op, k, j).id = k
             /\ LineEvent(s, op, k, j).entity = op.actor
<1>. DEFINE line == K8sLines(op, k)[j]
            last == IF op.verb = "watch" THEN 3 ELSE 2
<1>1. LinesOf(s.type, op, k) = K8sLines(op, k)
  BY DEF LinesOf
<1>2. Len(K8sLines(op, k)) = last /\ j \in 1..last
  <2>1. Len(K8sLines(op, k)) = last
    BY K8sLinesAre
  <2>. QED  BY <1>1, <2>1
<1>3. /\ line.uid = op.actor /\ line.id = k
      /\ line.code = IF j = 1 THEN 0 ELSE op.code
  BY <1>2, K8sLinesAre
<1>4. LineEvent(s, op, k, j) = Parse("k8s-audit", Source(s), line)
  BY <1>1 DEF LineEvent
<1>. HIDE DEF line
<1>5. K8sType(Source(s), line) # "none"
      /\ LineEvent(s, op, k, j).type = K8sType(Source(s), line)
      /\ LineEvent(s, op, k, j).id = line.id
      /\ LineEvent(s, op, k, j).entity = line.uid
  BY <1>4, K8sParses
<1>6. j # 1
  BY <1>3, <1>5 DEF K8sType, Succeeded
<1>. QED  BY <1>3, <1>5, <1>6 DEF line

\* At most one line of an operation is reported.
LEMMA OneReport ==
  ASSUME WatchesOnce, NEW s \in Setups, s.type \in SourceTypes, NEW op, NEW k,
         NEW i \in 1..Len(LinesOf(s.type, op, k)), LineEvent(s, op, k, i) # NoEvent,
         NEW j \in 1..Len(LinesOf(s.type, op, k)), LineEvent(s, op, k, j) # NoEvent
  PROVE  i = j
<1>1. CASE s.type = "vault-audit"
  BY <1>1, OnlyResponse
<1>2. CASE s.type = "opa-decision"
  <2>1. Len(LinesOf(s.type, op, k)) = 1
    BY <1>2 DEF LinesOf, OpaLines
  <2>. QED  BY <2>1
<1>3. CASE s.type = "k8s-audit"
  <2>1. SUFFICES ASSUME i # j PROVE FALSE
    OBVIOUS
  <2>2. i # 1 /\ j # 1 /\ K8sType(Source(s), K8sLines(op, k)[i]) # "none"
        /\ K8sType(Source(s), K8sLines(op, k)[j]) # "none"
    BY <1>3, K8sReports
  <2>3. Len(LinesOf(s.type, op, k)) = IF op.verb = "watch" THEN 3 ELSE 2
    BY <1>3, K8sLinesAre DEF LinesOf
  <2>4. op.verb = "watch" /\ {i, j} = {2, 3}
    BY <2>1, <2>2, <2>3
  <2>5. /\ K8sLines(op, k)[2].stage = "ResponseStarted"
        /\ K8sLines(op, k)[2].verb = "watch" /\ K8sLines(op, k)[2].code = op.code
        /\ K8sLines(op, k)[3].stage = IF op.code = 500 THEN "Panic" ELSE "ResponseComplete"
    BY <2>4, K8sLinesAre
  <2>6. /\ K8sType(Source(s), K8sLines(op, k)[2]) # "none"
        /\ K8sType(Source(s), K8sLines(op, k)[3]) # "none"
    BY <2>2, <2>4
  <2>7. "watch" \notin Source(s).dropVerbs /\ "ResponseStarted" \in Source(s).stages
        /\ op.code # 500
    BY <2>5, <2>6 DEF K8sType, Succeeded
  <2>8. "ResponseComplete" \in Source(s).stages
    BY <2>5, <2>6, <2>7 DEF K8sType
  <2>. QED  BY <1>3, <2>7, <2>8 DEF WatchesOnce
<1>. QED  BY <1>1, <1>2, <1>3 DEF SourceTypes

\* An event of a line of an operation has the operation's number.
LEMMA EventOfOperation ==
  ASSUME NEW s \in Setups, s.type \in SourceTypes, NEW op, NEW k,
         NEW j \in 1..Len(LinesOf(s.type, op, k)), LineEvent(s, op, k, j) # NoEvent
  PROVE  LineEvent(s, op, k, j).id = k
<1>1. LinesOf(s.type, op, k)[j].id = k
  BY LinesAre
<1>. DEFINE line == LinesOf(s.type, op, k)[j]
<1>2. LineEvent(s, op, k, j) = Parse(s.type, Source(s), line) /\ line.id = k
  BY <1>1 DEF LineEvent
<1>. HIDE DEF line
<1>3. CASE s.type = "vault-audit"
  <2>1. Parse("vault-audit", Source(s), line) # NoEvent
    BY <1>2, <1>3
  <2>2. Parse("vault-audit", Source(s), line).id = line.id
    BY <2>1, VaultParses
  <2>. QED  BY <1>2, <1>3, <2>2
<1>4. CASE s.type = "k8s-audit"
  BY <1>2, <1>4, K8sParses
<1>5. CASE s.type = "opa-decision"
  BY <1>2, <1>5, OpaParses
<1>. QED  BY <1>3, <1>4, <1>5 DEF SourceTypes

\* What has none of the fields is reported to nobody, but by OPA's parser.
LEMMA StrayReports ==
  ASSUME setup.type \in SourceTypes,
         Parse(setup.type, Source(setup), StrayLine) # NoEvent
  PROVE  /\ setup.type = "opa-decision"
         /\ Parse(setup.type, Source(setup), StrayLine).type = "policy-denied"
         /\ Parse(setup.type, Source(setup), StrayLine).id = 0
<1>1. CASE setup.type = "vault-audit"
  <2>1. StrayLine = EmptyVaultEntry /\ EmptyVaultEntry.type # "response"
    BY <1>1 DEF StrayLine, EmptyVaultEntry
  <2>2. VaultType(Source(setup), EmptyVaultEntry) # "none"
    BY <1>1, <2>1, VaultParses
  <2>. QED  BY <2>1, <2>2 DEF VaultType
<1>2. CASE setup.type = "k8s-audit"
  <2>1. StrayLine = EmptyK8sEvent /\ EmptyK8sEvent.code = 0
    BY <1>2 DEF StrayLine, EmptyK8sEvent
  <2>2. K8sType(Source(setup), EmptyK8sEvent) # "none"
    BY <1>2, <2>1, K8sParses
  <2>. QED  BY <2>1, <2>2 DEF K8sType, Succeeded
<1>3. CASE setup.type = "opa-decision"
  <2>1. StrayLine = EmptyOpaDecision /\ EmptyOpaDecision.result = "null"
        /\ EmptyOpaDecision.id = 0
    BY <1>3 DEF StrayLine, EmptyOpaDecision
  <2>2. /\ OpaType(Source(setup), EmptyOpaDecision) # "none"
        /\ Parse(setup.type, Source(setup), StrayLine).type =
             OpaType(Source(setup), EmptyOpaDecision)
        /\ Parse(setup.type, Source(setup), StrayLine).id = 0
    BY <1>3, <2>1, OpaParses
  <2>3. OpaType(Source(setup), EmptyOpaDecision) = "policy-denied"
    BY <2>1, <2>2 DEF OpaType, isAllowed
  <2>. QED  BY <1>3, <2>2, <2>3
<1>. QED  BY <1>1, <1>2, <1>3 DEF SourceTypes

-----------------------------------------------------------------------------
(* The log.                                                                *)

\* What is known of a sequence that got longer by one.
LEMMA Longer ==
  ASSUME NEW S, NEW s \in Seq(S), NEW x
  PROVE  /\ Append(s, x) \in Seq(S \cup {x})
         /\ Len(Append(s, x)) = Len(s) + 1 /\ Append(s, x)[Len(s) + 1] = x
         /\ \A i \in 1..Len(s) : Append(s, x)[i] = s[i]
<1>. s \in Seq(S \cup {x})
  OBVIOUS
<1>. QED  OBVIOUS

\* A position of the log is a line of an operation, or stray.
LEMMA Position ==
  ASSUME LogTypeOK, LogInv, NEW a \in 1..Len(log)
  PROVE  LET k == log[a][1]
         IN  /\ k \in 0..Len(ops) /\ Len(ops) \in Nat
             /\ k # 0 => /\ setup \in Setups /\ setup.type \in SourceTypes
                         /\ ops[k] \in Operations[setup.type]
                         /\ log[a][2] \in 1..Len(LinesOf(setup.type, ops[k], k))
                         /\ EventAt(a) = LineEvent(setup, ops[k], k, log[a][2])
             /\ k = 0 => EventAt(a) = Parse(setup.type, Source(setup), StrayLine)
<1>. DEFINE k == log[a][1]
<1>1. log[a] \in (0..Len(ops)) \X Nat /\ Len(ops) \in Nat
  BY DEF LogTypeOK
<1>2. k \in 0..Len(ops)
  BY <1>1
<1>3. ASSUME k # 0
      PROVE  /\ setup \in Setups /\ setup.type \in SourceTypes
             /\ ops[k] \in Operations[setup.type]
             /\ log[a][2] \in 1..Len(LinesOf(setup.type, ops[k], k))
             /\ EventAt(a) = LineEvent(setup, ops[k], k, log[a][2])
  <2>1. k \in 1..Len(ops)
    BY <1>1, <1>2, <1>3
  <2>2. setup \in Setups /\ ops[k] \in Operations[setup.type]
    BY <2>1, SMTT(30) DEF LogTypeOK
  <2>3. setup.type \in SourceTypes
    BY <2>2, OutboundAssumption
  <2>4. written[k] \in 1..Len(LinesOf(setup.type, ops[k], k))
    BY <2>1 DEF LogTypeOK, Lines
  <2>5. Len(LinesOf(setup.type, ops[k], k)) \in Nat
    BY <2>3, LinesAre
  <2>6. log[a][2] \in 1..written[k]
    BY <1>3 DEF LogInv
  <2>7. EventAt(a) = LineEvent(setup, ops[k], k, log[a][2])
    BY <1>3 DEF EventAt, LineEvent, LineAt, Lines
  <2>. QED  BY <2>2, <2>3, <2>4, <2>5, <2>6, <2>7
<1>4. k = 0 => EventAt(a) = Parse(setup.type, Source(setup), StrayLine)
  BY DEF EventAt, LineAt
<1>. QED  BY <1>1, <1>2, <1>3, <1>4

\* An event has the number of the operation it is of, or 0.
LEMMA EventAtHas ==
  ASSUME LogTypeOK, LogInv, setup.type \in SourceTypes,
         NEW a \in 1..Len(log), EventAt(a) # NoEvent
  PROVE  EventAt(a).id = log[a][1]
<1>1. CASE log[a][1] = 0
  BY <1>1, Position, StrayReports
<1>2. CASE log[a][1] # 0
  BY <1>2, Position, EventOfOperation
<1>. QED  BY <1>1, <1>2

\* A line carries the number of an operation, or 0.
LEMMA LineAtHas ==
  ASSUME LogTypeOK, LogInv, setup.type \in SourceTypes, NEW a \in 1..Len(log)
  PROVE  LineAt(a).id \in 0..Len(ops)
<1>1. CASE log[a][1] = 0
  <2>1. LineAt(a) = StrayLine /\ Len(ops) \in Nat
    BY <1>1 DEF LineAt, LogTypeOK
  <2>2. StrayLine.id = 0
    BY DEF StrayLine, SourceTypes, EmptyVaultEntry, EmptyK8sEvent, EmptyOpaDecision
  <2>. QED  BY <2>1, <2>2
<1>2. CASE log[a][1] # 0
  <2>1. LineAt(a) = LinesOf(setup.type, ops[log[a][1]], log[a][1])[log[a][2]]
    BY <1>2 DEF LineAt, Lines
  <2>2. /\ log[a][1] \in 0..Len(ops)
        /\ log[a][2] \in 1..Len(LinesOf(setup.type, ops[log[a][1]], log[a][1]))
    BY <1>2, Position
  <2>. QED  BY <2>1, <2>2, LinesAre
<1>. QED  BY <1>1, <1>2

\* What has been logged stays.
LEMMA LogKept ==
  ASSUME LogTypeOK, LogInv, [OutboundNext]_outboundVars
  PROVE  /\ setup' = setup /\ Len(log) \in Nat /\ Len(log') \in Nat /\ Len(log) <= Len(log')
         /\ Len(ops) \in Nat /\ Len(ops') \in Nat /\ Len(ops) <= Len(ops')
         /\ at \in Nat /\ at' \in Nat
         /\ \A k \in 1..Len(ops) : ops'[k] = ops[k]
         /\ \A a \in 1..Len(log) : log'[a] = log[a]
<1>. DEFINE Kept == /\ setup' = setup /\ Len(log') \in Nat /\ Len(log) <= Len(log')
                    /\ Len(ops') \in Nat /\ Len(ops) <= Len(ops')
                    /\ at' \in Nat
                    /\ \A k \in 1..Len(ops) : ops'[k] = ops[k]
                    /\ \A a \in 1..Len(log) : log'[a] = log[a]
<1>1. /\ log \in Seq((0..Len(ops)) \X Nat) /\ ops \in Seq(Operations[setup.type])
      /\ at \in 0..Len(log) /\ Len(log) \in Nat /\ Len(ops) \in Nat /\ at \in Nat
  BY DEF LogTypeOK
<1>2. ASSUME Begin PROVE Kept
  <2>1. PICK op : ops' = Append(ops, op)
    BY <1>2 DEF Begin
  <2>2. log' = Append(log, <<Len(ops'), 1>>) /\ setup' = setup /\ at' = at
    BY <1>2 DEF Begin
  <2>3. Len(ops') = Len(ops) + 1 /\ \A k \in 1..Len(ops) : ops'[k] = ops[k]
    BY <1>1, <2>1, Longer
  <2>4. Len(log') = Len(log) + 1 /\ \A a \in 1..Len(log) : log'[a] = log[a]
    BY <1>1, <2>2, Longer
  <2>. QED  BY <1>1, <2>2, <2>3, <2>4
<1>3. ASSUME NEW k \in 1..Len(ops), Continue(k) PROVE Kept
  <2>1. log' = Append(log, <<k, written'[k]>>) /\ UNCHANGED <<setup, at, ops>>
    BY <1>3 DEF Continue
  <2>2. Len(log') = Len(log) + 1 /\ \A a \in 1..Len(log) : log'[a] = log[a]
    BY <1>1, <2>1, Longer
  <2>. QED  BY <1>1, <2>1, <2>2
<1>4. ASSUME Stray PROVE Kept
  <2>1. log' = Append(log, <<0, 1>>) /\ UNCHANGED <<setup, at, ops>>
    BY <1>4 DEF Stray
  <2>2. Len(log') = Len(log) + 1 /\ \A a \in 1..Len(log) : log'[a] = log[a]
    BY <1>1, <2>1, Longer
  <2>. QED  BY <1>1, <2>1, <2>2
<1>5. ASSUME Start \/ StartFails \/ Crash PROVE Kept
  BY <1>1, <1>5 DEF Start, StartFails, Crash, logVars
<1>6. ASSUME Deliver \/ DeliverTorn PROVE Kept
  <2>1. at < Len(log) /\ at' = at + 1 /\ UNCHANGED <<setup, ops, log>>
    BY <1>6 DEF Deliver, DeliverTorn, logVars
  <2>. QED  BY <1>1, <2>1
<1>7. ASSUME UNCHANGED outboundVars PROVE Kept
  BY <1>1, <1>7 DEF outboundVars, logVars
<1>8. ASSUME DeliverJoined \/ Rewind PROVE Kept
  <2>1. at' \in Nat /\ UNCHANGED <<setup, ops, log>>
    BY <1>1, <1>8 DEF DeliverJoined, Rewind, logVars
  <2>. QED  BY <1>1, <2>1
<1>9. Kept
  BY <1>2, <1>3, <1>4, <1>5, <1>6, <1>7, <1>8 DEF OutboundNext, AuditedSystem
<1>. QED  BY <1>1, <1>9

\* A step of the audited system.
LEMMA Audited ==
  ASSUME LogTypeOK, LogInv, AuditedSystem
  PROVE  /\ LogTypeOK' /\ LogInv'
         /\ UNCHANGED <<setup, proc, at, postVars, faults>>
<1>1. /\ log \in Seq((0..Len(ops)) \X Nat) /\ ops \in Seq(Operations[setup.type])
      /\ written \in Seq(Nat) /\ Len(written) = Len(ops) /\ Len(ops) <= MaxOps
      /\ at \in 0..Len(log) /\ Len(log) \in Nat /\ Len(ops) \in Nat /\ at \in Nat
      /\ setup \in Setups /\ whole \subseteq 1..Len(ops) /\ MaxOps \in Nat
      /\ proc \in {"off", "running", "exited"} /\ faults \in 0..MaxFaults
  BY OutboundAssumption DEF LogTypeOK
<1>0. Len(ops) \in Nat /\ Len(log) \in Nat
  BY <1>1
<1>2. \A a \in 1..Len(log) : log[a][1] \in 0..Len(ops)
  BY <1>1
<1>3. \A k \in 1..Len(ops) : written[k] \in 1..Len(LinesOf(setup.type, ops[k], k))
  BY DEF LogTypeOK, Lines
<1>4. \A a \in 1..Len(log) : log[a][1] # 0 => log[a][2] \in 1..written[log[a][1]]
  BY DEF LogInv
<1>5. \A a, b \in 1..Len(log) : (a # b /\ log[a] = log[b]) => log[a][1] = 0
  BY DEF LogInv
<1>6. CASE Begin
  <2>1. PICK op \in Operations[setup.type] : ops' = Append(ops, op)
    BY <1>6 DEF Begin
  <2>2. /\ written' = Append(written, 1) /\ log' = Append(log, <<Len(ops'), 1>>)
        /\ Len(ops) < MaxOps /\ UNCHANGED <<setup, proc, at, postVars, faults>>
    BY <1>6 DEF Begin
  <2>3. /\ ops' \in Seq(Operations[setup.type]) /\ Len(ops') = Len(ops) + 1
        /\ ops'[Len(ops) + 1] = op /\ \A k \in 1..Len(ops) : ops'[k] = ops[k]
    BY <1>1, <2>1
  <2>4. /\ written' \in Seq(Nat) /\ Len(written') = Len(ops) + 1
        /\ written'[Len(ops) + 1] = 1 /\ \A k \in 1..Len(ops) : written'[k] = written[k]
    BY <1>1, <2>2
  <2>5. log \in Seq((0..Len(ops')) \X Nat) /\ <<Len(ops'), 1>> \in (0..Len(ops')) \X Nat
    <3>1. (0..Len(ops)) \X Nat \subseteq (0..Len(ops')) \X Nat
      BY <1>1, <2>3
    <3>2. log \in Seq((0..Len(ops')) \X Nat)
      BY <1>1, <3>1
    <3>. QED  BY <1>1, <2>3, <3>2
  <2>6. /\ log' \in Seq((0..Len(ops')) \X Nat) /\ Len(log') = Len(log) + 1
        /\ log'[Len(log) + 1] = <<Len(ops) + 1, 1>>
        /\ \A a \in 1..Len(log) : log'[a] = log[a]
    BY <1>1, <2>2, <2>3, <2>5, Longer
  <2>7. 1 \in 1..Len(LinesOf(setup.type, op, Len(ops) + 1))
    <3>1. setup.type \in SourceTypes
      BY <1>1, <2>1, OutboundAssumption
    <3>. QED  BY <3>1, LinesAre
  <2>8. \A k \in 1..Len(ops') : written'[k] \in 1..Len(LinesOf(setup.type, ops'[k], k))
    <3>. SUFFICES ASSUME NEW k \in 1..(Len(ops) + 1)
                  PROVE  written'[k] \in 1..Len(LinesOf(setup.type, ops'[k], k))
      BY <2>3
    <3>1. CASE k = Len(ops) + 1
      BY <2>3, <2>4, <2>7, <3>1
    <3>2. CASE k \in 1..Len(ops)
      BY <1>3, <2>3, <2>4, <3>2
    <3>. QED  BY <1>1, <3>1, <3>2
  <2>9. LogTypeOK'
    BY <1>1, <2>2, <2>3, <2>4, <2>6, <2>8, SMTT(30) DEF LogTypeOK, Lines, postVars
  <2>10. \A a \in 1..Len(log') : log'[a][1] # 0 => log'[a][2] \in 1..written'[log'[a][1]]
    <3>. SUFFICES ASSUME NEW a \in 1..(Len(log) + 1), log'[a][1] # 0
                  PROVE  log'[a][2] \in 1..written'[log'[a][1]]
      BY <2>6
    <3>1. CASE a = Len(log) + 1
      <4>1. log'[a] = <<Len(ops) + 1, 1>>
        BY <2>6, <3>1
      <4>2. log'[a][1] = Len(ops) + 1 /\ log'[a][2] = 1
        BY <4>1
      <4>. QED  BY <2>4, <4>2
    <3>2. CASE a \in 1..Len(log)
      <4>1. log'[a] = log[a] /\ log[a][1] \in 1..Len(ops)
        <5>1. log'[a] = log[a]
          BY <2>6, <3>2
        <5>2. log[a][1] \in 0..Len(ops)
          BY <1>2, <3>2
        <5>. QED  BY <1>0, <5>1, <5>2
      <4>. QED  BY <1>4, <2>4, <3>2, <4>1
    <3>. QED  BY <1>1, <3>1, <3>2
  <2>11. \A a, b \in 1..Len(log') : (a # b /\ log'[a] = log'[b]) => log'[a][1] = 0
    <3>1. \A a \in 1..Len(log) : log'[a][1] # Len(ops) + 1
      <4>. SUFFICES ASSUME NEW a \in 1..Len(log) PROVE log'[a][1] # Len(ops) + 1
        OBVIOUS
      <4>1. log'[a] = log[a]
        BY <2>6
      <4>2. log[a][1] \in 0..Len(ops)
        BY <1>2
      <4>. QED  BY <1>0, <4>1, <4>2
    <3>2. \A a \in 1..Len(log') : a = Len(log) + 1 \/ a \in 1..Len(log)
      BY <1>0, <2>6
    <3>3. log'[Len(log) + 1][1] = Len(ops) + 1
      BY <2>6
    <3>. SUFFICES ASSUME NEW a \in 1..Len(log'), NEW b \in 1..Len(log'),
                         a # b, log'[a] = log'[b]
                  PROVE  log'[a][1] = 0
      OBVIOUS
    <3>4. CASE a \in 1..Len(log) /\ b \in 1..Len(log)
      <4>1. log'[a] = log[a] /\ log'[b] = log[b]
        BY <2>6, <3>4
      <4>. QED  BY <1>5, <3>4, <4>1
    <3>5. CASE a = Len(log) + 1 \/ b = Len(log) + 1
      BY <3>1, <3>2, <3>3, <3>5
    <3>. QED  BY <3>2, <3>4, <3>5
  <2>. QED  BY <2>2, <2>9, <2>10, <2>11 DEF LogInv
<1>7. ASSUME NEW n \in 1..Len(ops), Continue(n)
      PROVE  /\ LogTypeOK' /\ LogInv'
             /\ UNCHANGED <<setup, proc, at, postVars, faults>>
  <2>1. /\ written' = [written EXCEPT ![n] = @ + 1] /\ log' = Append(log, <<n, written'[n]>>)
        /\ written[n] # Len(LinesOf(setup.type, ops[n], n))
        /\ UNCHANGED <<setup, proc, ops, at, postVars, faults>>
    BY <1>7 DEF Continue, Complete, Lines
  <2>2. /\ written' \in Seq(Nat) /\ Len(written') = Len(ops)
        /\ written'[n] = written[n] + 1 /\ \A k \in 1..Len(ops) : k # n => written'[k] = written[k]
        /\ written[n] \in Nat
    <3>1. n \in 1..Len(written) /\ written[n] \in Nat
      BY <1>1
    <3>2. written' \in Seq(Nat) /\ Len(written') = Len(written)
      BY <1>1, <2>1, <3>1
    <3>3. written'[n] = written[n] + 1
      BY <1>1, <2>1, <3>1
    <3>4. \A k \in 1..Len(written) : k # n => written'[k] = written[k]
      BY <1>1, <2>1, <3>1
    <3>. QED  BY <1>1, <3>1, <3>2, <3>3, <3>4
  <2>3. /\ log' \in Seq((0..Len(ops)) \X Nat) /\ Len(log') = Len(log) + 1
        /\ log'[Len(log) + 1] = <<n, written[n] + 1>>
        /\ \A a \in 1..Len(log) : log'[a] = log[a]
    <3>. DEFINE entry == <<n, written[n] + 1>>
    <3>1. n \in 0..Len(ops) /\ written[n] + 1 \in Nat
      BY <1>0, <2>2
    <3>2. entry \in (0..Len(ops)) \X Nat
      BY <3>1
    <3>3. log' = Append(log, entry)
      BY <2>1, <2>2
    <3>. HIDE DEF entry
    <3>4. log \in Seq((0..Len(ops)) \X Nat)
      BY <1>1
    <3>5. /\ log' \in Seq((0..Len(ops)) \X Nat) /\ Len(log') = Len(log) + 1
          /\ log'[Len(log) + 1] = entry
          /\ \A a \in 1..Len(log) : log'[a] = log[a]
      BY <3>2, <3>3, <3>4
    <3>. QED  BY <3>5 DEF entry
  <2>4. written[n] + 1 \in 1..Len(LinesOf(setup.type, ops[n], n))
    <3>1. setup.type \in SourceTypes
      BY <1>1, OutboundAssumption
    <3>2. Len(LinesOf(setup.type, ops[n], n)) \in Nat
      BY <3>1, LinesAre
    <3>. QED  BY <1>3, <2>1, <3>2
  <2>5. \A k \in 1..Len(ops) : written'[k] \in 1..Len(LinesOf(setup.type, ops[k], k))
    BY <1>3, <2>2, <2>4
  <2>6. LogTypeOK'
    <3>1. at' \in 0..Len(log')
      BY <1>1, <2>1, <2>3
    <3>2. \A k \in 1..Len(ops') : written'[k] \in 1..Len(Lines(ops[k], k)')
      BY <2>1, <2>5 DEF Lines
    <3>3. /\ setup' \in Setups /\ proc' \in {"off", "running", "exited"}
          /\ ops' \in Seq(Operations[setup'.type]) /\ Len(ops') <= MaxOps
          /\ faults' \in 0..MaxFaults /\ whole' \subseteq 1..Len(ops')
      BY <1>1, <2>1 DEF postVars
    <3>4. /\ written' \in Seq(Nat) /\ Len(written') = Len(ops')
          /\ log' \in Seq((0..Len(ops')) \X Nat)
      BY <2>1, <2>2, <2>3
    <3>. QED  BY <2>1, <3>1, <3>2, <3>3, <3>4 DEF LogTypeOK
  <2>7. \A a \in 1..Len(log') : log'[a][1] # 0 => log'[a][2] \in 1..written'[log'[a][1]]
    <3>. SUFFICES ASSUME NEW a \in 1..(Len(log) + 1), log'[a][1] # 0
                  PROVE  log'[a][2] \in 1..written'[log'[a][1]]
      BY <2>3
    <3>1. CASE a = Len(log) + 1
      <4>1. log'[a][1] = n /\ log'[a][2] = written[n] + 1
        BY <2>3, <3>1
      <4>. QED  BY <2>2, <4>1
    <3>2. CASE a \in 1..Len(log)
      <4>1. log'[a] = log[a] /\ log[a][1] \in 1..Len(ops)
        <5>1. log'[a] = log[a]
          BY <2>3, <3>2
        <5>2. log[a][1] \in 0..Len(ops)
          BY <1>2, <3>2
        <5>. QED  BY <1>0, <5>1, <5>2
      <4>2. log[a][2] \in 1..written[log[a][1]]
        BY <1>4, <3>2, <4>1
      <4>3. CASE log[a][1] = n
        BY <2>2, <4>1, <4>2, <4>3
      <4>4. CASE log[a][1] # n
        BY <2>2, <4>1, <4>2, <4>4
      <4>. QED  BY <4>3, <4>4
    <3>. QED  BY <1>1, <3>1, <3>2
  <2>8. \A a, b \in 1..Len(log') : (a # b /\ log'[a] = log'[b]) => log'[a][1] = 0
    <3>1. \A a \in 1..Len(log) : log'[a] # <<n, written[n] + 1>>
      <4>. SUFFICES ASSUME NEW a \in 1..Len(log), log[a] = <<n, written[n] + 1>> PROVE FALSE
        BY <2>3
      <4>1. log[a][1] = n /\ log[a][2] = written[n] + 1 /\ n # 0
        BY <1>0
      <4>2. log[a][2] \in 1..written[n]
        BY <1>4, <4>1
      <4>. QED  BY <2>2, <4>1, <4>2
    <3>2. \A a \in 1..Len(log') : a = Len(log) + 1 \/ a \in 1..Len(log)
      BY <1>0, <2>3
    <3>. SUFFICES ASSUME NEW a \in 1..Len(log'), NEW b \in 1..Len(log'),
                         a # b, log'[a] = log'[b]
                  PROVE  log'[a][1] = 0
      OBVIOUS
    <3>4. CASE a \in 1..Len(log) /\ b \in 1..Len(log)
      <4>1. log'[a] = log[a] /\ log'[b] = log[b]
        BY <2>3, <3>4
      <4>. QED  BY <1>5, <3>4, <4>1
    <3>5. CASE a = Len(log) + 1 \/ b = Len(log) + 1
      BY <2>3, <3>1, <3>2, <3>5
    <3>. QED  BY <3>2, <3>4, <3>5
  <2>. QED  BY <2>1, <2>6, <2>7, <2>8 DEF LogInv
<1>8. CASE Stray
  <2>1. /\ log' = Append(log, <<0, 1>>)
        /\ UNCHANGED <<setup, proc, ops, written, at, postVars, faults>>
    BY <1>8 DEF Stray
  <2>2. /\ log' \in Seq((0..Len(ops)) \X Nat) /\ Len(log') = Len(log) + 1
        /\ log'[Len(log) + 1] = <<0, 1>>
        /\ \A a \in 1..Len(log) : log'[a] = log[a]
    <3>1. <<0, 1>> \in (0..Len(ops)) \X Nat
      BY <1>1
    <3>. QED  BY <1>1, <2>1, <3>1
  <2>3. LogTypeOK'
    BY <1>1, <1>3, <2>1, <2>2 DEF LogTypeOK, Lines, postVars
  <2>4. \A a \in 1..Len(log') : a = Len(log) + 1 \/ a \in 1..Len(log)
    BY <1>1, <2>2
  <2>5. \A a \in 1..Len(log') : log'[a][1] # 0 => log'[a][2] \in 1..written'[log'[a][1]]
    BY <1>4, <2>1, <2>2, <2>4
  <2>6. \A a, b \in 1..Len(log') : (a # b /\ log'[a] = log'[b]) => log'[a][1] = 0
    <3>. SUFFICES ASSUME NEW a \in 1..Len(log'), NEW b \in 1..Len(log'),
                         a # b, log'[a] = log'[b], log'[a][1] # 0
                  PROVE  FALSE
      OBVIOUS
    <3>1. a \in 1..Len(log) /\ b \in 1..Len(log)
      BY <2>2, <2>4
    <3>. QED  BY <1>5, <2>2, <3>1
  <2>. QED  BY <2>1, <2>3, <2>5, <2>6 DEF LogInv
<1>. QED  BY <1>6, <1>7, <1>8 DEF AuditedSystem

\* What is made of an event: a SET that tells it, if it can be signed.
LEMMA Emitted ==
  ASSUME NEW line, ParseAndEmit(line)
  PROVE  LET event == Parse(setup.type, Source(setup), line)
             told  == Signs /\ event # NoEvent
         IN  /\ ~told => posted' = posted
             /\ told => \E st : posted' = Append(posted, st) /\ Tells(st, event)
<1>. DEFINE event == Parse(setup.type, Source(setup), line)
            st == [type |-> event.type, id |-> event.id, entity |-> event.entity,
                   key |-> ResolveSigningKeyPEM.from]
<1>1. IF event = NoEvent THEN posted' = posted ELSE Emit(event)
  BY DEF ParseAndEmit
<1>2. Tells(st, event)
  BY DEF Tells
<1>3. event # NoEvent => posted' = IF Signs THEN Append(posted, st) ELSE posted
  BY <1>1 DEF Emit
<1>. HIDE DEF event, st
<1>4. ~(Signs /\ event # NoEvent) => posted' = posted
  BY <1>1, <1>3
<1>. QED  BY <1>2, <1>3, <1>4 DEF event

\* A line that comes to Parse whole.
LEMMA Delivered ==
  ASSUME LogTypeOK, Deliver
  PROVE  LET next == at + 1
             k == log[next][1]
             told == Signs /\ EventAt(next) # NoEvent
         IN  /\ proc = "running" /\ next \in 1..Len(log) /\ at' = next
             /\ UNCHANGED <<logVars, proc, mixed, since, faults>>
             /\ ~told => posted' = posted
             /\ told => \E st : posted' = Append(posted, st) /\ Tells(st, EventAt(next))
             /\ whole' = whole \/ (k # 0 /\ log[next][2] = Len(LinesOf(setup.type, ops[k], k))
                                   /\ whole' = whole \cup {k})
<1>. DEFINE next == at + 1
            k == log[next][1]
<1>1. /\ proc = "running" /\ next \in 1..Len(log) /\ at' = next
      /\ UNCHANGED <<logVars, proc, mixed, since, faults>>
  BY SMTT(30) DEF Deliver, LogTypeOK
<1>2. ParseAndEmit(LineAt(next))
  BY <1>1 DEF Deliver
<1>3. whole' = whole \/ (k # 0 /\ log[next][2] = Len(LinesOf(setup.type, ops[k], k))
                         /\ whole' = whole \cup {k})
  BY <1>1 DEF Deliver, Lines
<1>. HIDE DEF next
<1>4. LET told == Signs /\ EventAt(next) # NoEvent
      IN  /\ ~told => posted' = posted
          /\ told => \E st : posted' = Append(posted, st) /\ Tells(st, EventAt(next))
  BY <1>2, Emitted DEF EventAt
<1>. QED  BY <1>1, <1>3, <1>4 DEF next

\* One that does not come whole says nothing.
LEMMA Torn ==
  ASSUME LogTypeOK, DeliverTorn
  PROVE  /\ at + 1 \in 1..Len(log) /\ at' = at + 1 /\ proc = "running"
         /\ UNCHANGED <<logVars, proc, postVars, faults>>
<1>1. Parse(setup.type, Source(setup), NotJSON) = NoEvent
  BY DEF Parse, Decodes
<1>. QED  BY <1>1 DEF DeliverTorn, LogTypeOK, ParseAndEmit, postVars

\* A step posts nothing, the event of the next line, or something that is mixed;
\* what it takes through it does with that line.
PostsNothing ==
  /\ posted' = posted /\ mixed' = mixed
  /\ (since' = since /\ at <= at') \/ since' = Len(posted)

Posts(st) ==
  /\ proc = "running" /\ at + 1 \in 1..Len(log) /\ at' = at + 1
  /\ Signs /\ EventAt(at + 1) # NoEvent /\ Tells(st, EventAt(at + 1))
  /\ posted' = Append(posted, st) /\ mixed' = mixed /\ since' = since

PostsMixed(st) ==
  /\ proc = "running" /\ at <= at'
  /\ Signs /\ st.type \in EventTypesOf(setup) /\ st.id \in 0..Len(ops)
  /\ st.key = ResolveSigningKeyPEM.from
  /\ posted' = Append(posted, st) /\ mixed' = mixed \cup {Len(posted) + 1} /\ since' = since

Completes(k) ==
  /\ proc = "running" /\ at + 1 \in 1..Len(log) /\ at' = at + 1 /\ k = log[at + 1][1] /\ k # 0
  /\ log[at + 1][2] = Len(LinesOf(setup.type, ops[k], k))
  /\ whole' = whole \cup {k}
  /\ (Signs /\ EventAt(at + 1) # NoEvent) => \E st : Posts(st)

\* A joined line may say anything, but in the source's types and of what is logged.
LEMMA Mixes ==
  ASSUME LogTypeOK, LogInv, RunningInv, PlacesInv, DeliverJoined
  PROVE  /\ PostsNothing \/ \E st : PostsMixed(st)
         /\ proc = "running" /\ at' \in 0..Len(log) /\ faults' \in 0..MaxFaults
         /\ UNCHANGED <<logVars, proc, whole>>
<1>1. PICK b \in (at + 2)..Len(log), K \in Cuts[setup.type], L \in Cuts[setup.type] :
        at' = b /\ ParseAndEmit(Joined(LineAt(at + 1), LineAt(b), K, L))
  BY DEF DeliverJoined
<1>. DEFINE line == Joined(LineAt(at + 1), LineAt(b), K, L)
            event == Parse(setup.type, Source(setup), line)
<1>2. /\ proc = "running" /\ UNCHANGED <<logVars, proc, since, whole>>
      /\ mixed' = mixed \cup ((Len(posted) + 1)..Len(posted'))
      /\ faults' = faults + 1 /\ faults < MaxFaults
  BY DEF DeliverJoined
<1>3. /\ at \in Nat /\ Len(log) \in Nat /\ b \in 1..Len(log) /\ at + 1 \in 1..Len(log)
      /\ at <= b /\ faults' \in 0..MaxFaults
  BY <1>2, OutboundAssumption DEF LogTypeOK
<1>4. setup.type \in SourceTypes
  BY <1>2 DEF RunningInv, Builds
<1>5. line.id \in 0..Len(ops)
  <2>1. "id" \in DOMAIN StrayLine /\ StrayLine.id = 0
    BY <1>4 DEF StrayLine, SourceTypes, EmptyVaultEntry, EmptyK8sEvent, EmptyOpaDecision
  <2>2. line.id \in {LineAt(at + 1).id, LineAt(b).id, 0}
    BY <2>1 DEF Joined
  <2>3. LineAt(at + 1).id \in 0..Len(ops)
    BY <1>3, <1>4, LineAtHas
  <2>4. LineAt(b).id \in 0..Len(ops)
    BY <1>3, <1>4, LineAtHas
  <2>. HIDE DEF line
  <2>5. Len(ops) \in Nat
    BY DEF LogTypeOK
  <2>. QED  BY <2>2, <2>3, <2>4, <2>5
<1>. HIDE DEF line
<1>6. Len(posted) \in Nat
  BY DEF PlacesInv
<1>7. CASE Signs /\ event # NoEvent
  <2>1. PICK st : posted' = Append(posted, st) /\ Tells(st, event)
    BY <1>1, <1>7, Emitted DEF line
  <2>2. event.type \in EventTypesOf(setup) /\ event.id = line.id
    BY <1>4, <1>7, ParseTypes
  <2>3. Len(posted') = Len(posted) + 1
    BY <2>1, Longer DEF PlacesInv
  <2>4. mixed' = mixed \cup {Len(posted) + 1}
    BY <1>2, <1>6, <2>3
  <2>. HIDE DEF event
  <2>5. PostsMixed(st)
    BY <1>1, <1>2, <1>3, <1>5, <1>7, <2>1, <2>2, <2>4 DEF PostsMixed, Tells
  <2>. QED  BY <1>1, <1>2, <1>3, <2>5
<1>8. CASE ~(Signs /\ event # NoEvent)
  <2>1. posted' = posted
    BY <1>1, <1>8, Emitted DEF line
  <2>2. mixed' = mixed
    BY <1>2, <1>6, <2>1
  <2>. QED  BY <1>1, <1>2, <1>3, <2>1, <2>2 DEF PostsNothing
<1>. QED  BY <1>7, <1>8

-----------------------------------------------------------------------------
(* The inductive invariant.                                                *)

OutboundInv ==
  /\ LogTypeOK /\ LogInv /\ RunningInv /\ PlacesInv
  /\ PostedInv /\ PassInv /\ WholeInv

\* The types, the log, and that who delivers has started.
LEMMA NextLogs ==
  ASSUME LogTypeOK, LogInv, RunningInv, PlacesInv, [OutboundNext]_outboundVars
  PROVE  LogTypeOK' /\ LogInv' /\ RunningInv'
<1>1. CASE AuditedSystem
  <2>1. LogTypeOK' /\ LogInv' /\ UNCHANGED <<setup, proc, at, postVars, faults>>
    BY <1>1, Audited
  <2>. QED  BY <2>1 DEF RunningInv, KeyLoads, ResolveSigningKeyPEM, postVars
<1>. DEFINE Types == /\ UNCHANGED logVars
                     /\ proc' \in {"off", "running", "exited"} /\ at' \in 0..Len(log)
                     /\ faults' \in 0..MaxFaults /\ whole' \subseteq 1..Len(ops)
<1>2. ASSUME Types PROVE LogTypeOK' /\ LogInv'
  BY <1>2 DEF LogTypeOK, LogInv, Lines, logVars
<1>. DEFINE Runs == proc = "running" /\ UNCHANGED setup
<1>3. ASSUME Runs PROVE RunningInv'
  BY <1>3 DEF RunningInv, KeyLoads, ResolveSigningKeyPEM
<1>4. CASE Start
  <2>1. Types
    BY <1>4 DEF Start, LogTypeOK, postVars
  <2>2. RunningInv'
    BY <1>4 DEF Start, RunningInv, KeyLoads, ResolveSigningKeyPEM, logVars
  <2>. QED  BY <1>2, <2>1, <2>2
<1>5. CASE StartFails
  <2>1. Types
    BY <1>5 DEF StartFails, LogTypeOK, postVars
  <2>2. RunningInv'
    BY <1>5 DEF StartFails, RunningInv, KeyLoads, ResolveSigningKeyPEM, logVars, postVars
  <2>. QED  BY <1>2, <2>1, <2>2
<1>6. CASE Crash \/ Rewind
  <2>1. /\ proc = "running" /\ UNCHANGED <<logVars, whole>>
        /\ proc' \in {"off", "running"} /\ (at' = at \/ at' \in 0..at)
        /\ faults < MaxFaults /\ faults' = faults + 1
    BY <1>6 DEF Crash, Rewind, postVars
  <2>2. /\ at \in 0..Len(log) /\ Len(log) \in Nat /\ faults \in 0..MaxFaults
        /\ MaxFaults \in Nat /\ whole \subseteq 1..Len(ops)
    BY OutboundAssumption DEF LogTypeOK
  <2>3. at' \in 0..Len(log) /\ faults' \in 0..MaxFaults
    BY <2>1, <2>2
  <2>4. Types /\ Runs
    BY <2>1, <2>2, <2>3 DEF logVars
  <2>. QED  BY <1>2, <1>3, <2>4
<1>7. CASE Deliver
  <2>. DEFINE k == log[at + 1][1]
  <2>1. /\ proc = "running" /\ at + 1 \in 1..Len(log) /\ at' = at + 1
        /\ UNCHANGED <<logVars, proc, faults>>
    BY <1>7, Delivered
  <2>2. whole' = whole \/ (k # 0 /\ whole' = whole \cup {k})
    BY <1>7, Delivered
  <2>3. k \in 0..Len(ops) /\ Len(ops) \in Nat
    BY <2>1, Position
  <2>4. whole' \subseteq 1..Len(ops)
    <3>1. whole \subseteq 1..Len(ops)
      BY DEF LogTypeOK
    <3>2. k # 0 => k \in 1..Len(ops)
      BY <2>3
    <3>3. CASE whole' = whole
      BY <3>1, <3>3
    <3>4. CASE k # 0 /\ whole' = whole \cup {k}
      BY <3>1, <3>2, <3>4
    <3>. QED  BY <2>2, <3>3, <3>4
  <2>5. Types /\ Runs
    BY <2>1, <2>4 DEF LogTypeOK, logVars
  <2>. QED  BY <1>2, <1>3, <2>5
<1>8. CASE DeliverTorn
  <2>1. /\ at + 1 \in 1..Len(log) /\ at' = at + 1 /\ proc = "running"
        /\ UNCHANGED <<logVars, proc, postVars, faults>>
    BY <1>8, Torn
  <2>2. Types /\ Runs
    BY <2>1 DEF LogTypeOK, logVars, postVars
  <2>. QED  BY <1>2, <1>3, <2>2
<1>9. CASE DeliverJoined
  <2>1. Types /\ Runs
    BY <1>9, Mixes DEF LogTypeOK, logVars
  <2>. QED  BY <1>2, <1>3, <2>1
<1>10. CASE UNCHANGED outboundVars
  BY <1>10 DEF outboundVars, logVars, postVars, LogTypeOK, LogInv, RunningInv, Lines,
               KeyLoads, ResolveSigningKeyPEM
<1>. QED  BY <1>1, <1>4, <1>5, <1>6, <1>7, <1>8, <1>9, <1>10 DEF OutboundNext

\* A step posts at most one SET, and takes at most one operation through.
LEMMA Posting ==
  ASSUME LogTypeOK, LogInv, RunningInv, PlacesInv, [OutboundNext]_outboundVars
  PROVE  /\ PostsNothing \/ (\E st : Posts(st)) \/ \E st : PostsMixed(st)
         /\ whole' = whole \/ \E k : Completes(k)
<1>1. CASE Deliver
  <2>1. /\ proc = "running" /\ at + 1 \in 1..Len(log) /\ at' = at + 1 /\ at <= at'
        /\ mixed' = mixed /\ since' = since
    BY <1>1, Delivered DEF LogTypeOK
  <2>2. ~(Signs /\ EventAt(at + 1) # NoEvent) => posted' = posted
    BY <1>1, Delivered
  <2>3. (Signs /\ EventAt(at + 1) # NoEvent) =>
          \E st : posted' = Append(posted, st) /\ Tells(st, EventAt(at + 1))
    BY <1>1, Delivered
  <2>4. \/ whole' = whole
        \/ /\ log[at + 1][1] # 0 /\ whole' = whole \cup {log[at + 1][1]}
           /\ log[at + 1][2] =
                Len(LinesOf(setup.type, ops[log[at + 1][1]], log[at + 1][1]))
    BY <1>1, Delivered
  <2>5. (Signs /\ EventAt(at + 1) # NoEvent) => \E st : Posts(st)
    BY <2>1, <2>3 DEF Posts
  <2>. QED  BY <2>1, <2>2, <2>4, <2>5 DEF Completes, PostsNothing
<1>2. CASE DeliverJoined
  BY <1>2, Mixes
<1>3. CASE DeliverTorn
  <2>1. at' = at + 1 /\ UNCHANGED postVars /\ at \in Nat
    BY <1>3, Torn DEF LogTypeOK
  <2>. QED  BY <2>1 DEF postVars, PostsNothing
<1>4. CASE AuditedSystem \/ StartFails \/ Crash \/ UNCHANGED outboundVars
  <2>1. UNCHANGED <<at, postVars>>
    BY <1>4, Audited DEF StartFails, Crash, outboundVars
  <2>. QED  BY <2>1 DEF postVars, PostsNothing, LogTypeOK
<1>5. CASE Start
  <2>1. at' = Len(log) /\ at \in 0..Len(log) /\ UNCHANGED postVars
    BY <1>5 DEF Start, LogTypeOK
  <2>. QED  BY <2>1 DEF postVars, PostsNothing
<1>6. CASE Rewind
  BY <1>6 DEF Rewind, PostsNothing
<1>. QED  BY <1>1, <1>2, <1>3, <1>4, <1>5, <1>6 DEF OutboundNext

\* The event at a position stays.
LEMMA EventKept ==
  ASSUME LogTypeOK, LogInv, [OutboundNext]_outboundVars, NEW a \in 1..Len(log)
  PROVE  EventAt(a)' = EventAt(a)
<1>1. setup' = setup /\ log'[a] = log[a] /\ \A k \in 1..Len(ops) : ops'[k] = ops[k]
  BY LogKept
<1>2. log[a][1] \in 0..Len(ops) /\ Len(ops) \in Nat
  BY Position
<1>3. StrayLine' = StrayLine
  BY <1>1 DEF StrayLine
<1>4. log[a][1] # 0 => ops'[log[a][1]] = ops[log[a][1]]
  BY <1>1, <1>2
<1>5. LineAt(a)' = LineAt(a)
  BY <1>1, <1>3, <1>4 DEF LineAt, Lines
<1>. QED  BY <1>1, <1>5 DEF EventAt, Source

\* What a step posts comes after what is posted already.
LEMMA PostedGrows ==
  ASSUME PlacesInv, NEW st, Posts(st) \/ PostsMixed(st)
  PROVE  /\ \E S : posted' \in Seq(S)
         /\ Len(posted) \in Nat /\ Len(posted') = Len(posted) + 1
         /\ posted'[Len(posted) + 1] = st
         /\ \A i \in 1..Len(posted) : posted'[i] = posted[i]
<1>1. PICK S : posted \in Seq(S)
  BY DEF PlacesInv
<1>2. posted' = Append(posted, st)
  BY DEF Posts, PostsMixed
<1>3. Append(posted, st) \in Seq(S \cup {st})
  BY <1>1, Longer
<1>4. /\ Len(Append(posted, st)) = Len(posted) + 1 /\ Append(posted, st)[Len(posted) + 1] = st
      /\ \A i \in 1..Len(posted) : Append(posted, st)[i] = posted[i]
  BY <1>1, Longer
<1>. QED  BY <1>1, <1>2, <1>3, <1>4

\* What is posted stays where it is, and mixed or not.
LEMMA PostedKept ==
  ASSUME LogTypeOK, LogInv, RunningInv, PlacesInv, [OutboundNext]_outboundVars
  PROVE  /\ PlacesInv'
         /\ Len(posted) \in Nat /\ Len(posted') \in Nat /\ Len(posted) <= Len(posted')
         /\ \A i \in 1..Len(posted) :
              posted'[i] = posted[i] /\ (i \in mixed' <=> i \in mixed)
<1>1. CASE PostsNothing
  BY <1>1 DEF PostsNothing, PlacesInv
<1>2. ASSUME NEW st, Posts(st) \/ PostsMixed(st)
      PROVE  /\ PlacesInv'
             /\ Len(posted) \in Nat /\ Len(posted') \in Nat /\ Len(posted) <= Len(posted')
             /\ \A i \in 1..Len(posted) :
                  posted'[i] = posted[i] /\ (i \in mixed' <=> i \in mixed)
  <2>1. /\ Len(posted) \in Nat /\ Len(posted') = Len(posted) + 1
        /\ \A i \in 1..Len(posted) : posted'[i] = posted[i]
    BY <1>2, PostedGrows
  <2>2. \E S : posted' \in Seq(S)
    BY <1>2, PostedGrows
  <2>3. mixed' \in {mixed, mixed \cup {Len(posted) + 1}} /\ since' = since
    BY <1>2 DEF Posts, PostsMixed
  <2>4. mixed' \subseteq 1..Len(posted') /\ since' \in 0..Len(posted')
    BY <2>1, <2>3 DEF PlacesInv
  <2>. QED  BY <2>1, <2>2, <2>3, <2>4 DEF PlacesInv
<1>. QED  BY <1>1, <1>2, Posting

\* What is posted is of the source's types, and tells a line unless it is mixed.
LEMMA NextPosted ==
  ASSUME LogTypeOK, LogInv, RunningInv, PlacesInv, PostedInv, [OutboundNext]_outboundVars
  PROVE  PostedInv'
<1>1. /\ setup' = setup /\ Len(log) \in Nat /\ Len(log') \in Nat /\ Len(log) <= Len(log')
      /\ Len(ops) \in Nat /\ Len(ops') \in Nat /\ Len(ops) <= Len(ops')
  BY LogKept
<1>2. /\ Signs' = Signs /\ ResolveSigningKeyPEM' = ResolveSigningKeyPEM
      /\ EventTypesOf(setup)' = EventTypesOf(setup)
  BY <1>1 DEF Signs, ResolveSigningKeyPEM, EventTypesOf, RuleEvents, Source
<1>. DEFINE Line(st, a) == /\ EventAt(a) # NoEvent /\ st.type = EventAt(a).type
                           /\ st.id = EventAt(a).id /\ st.entity = EventAt(a).entity
            Fits(st, mix) ==
              /\ Signs /\ st.type \in EventTypesOf(setup) /\ st.id \in 0..Len(ops)
              /\ st.key = ResolveSigningKeyPEM.from
              /\ ~mix => \E a \in 1..Len(log) : Line(st, a)
<1>3. ASSUME NEW i \in 1..Len(posted'), Fits(posted'[i], i \in mixed')
      PROVE  /\ Signs' /\ posted'[i].type \in EventTypesOf(setup)' /\ posted'[i].id \in 0..Len(ops')
             /\ posted'[i].key = ResolveSigningKeyPEM'.from
             /\ i \notin mixed' => \E a \in 1..Len(log') :
                   EventAt(a)' # NoEvent /\ Tells(posted[i], EventAt(a))'
  <2>1. /\ Signs' /\ posted'[i].type \in EventTypesOf(setup)' /\ posted'[i].id \in 0..Len(ops')
        /\ posted'[i].key = ResolveSigningKeyPEM'.from
    BY <1>1, <1>2, <1>3
  <2>2. ASSUME i \notin mixed'
        PROVE  \E a \in 1..Len(log') : EventAt(a)' # NoEvent /\ Tells(posted[i], EventAt(a))'
    <3>1. PICK a \in 1..Len(log) : Line(posted'[i], a)
      BY <1>3, <2>2
    <3>2. EventAt(a)' = EventAt(a) /\ a \in 1..Len(log')
      BY <1>1, EventKept
    <3>3. EventAt(a)' # NoEvent /\ Tells(posted[i], EventAt(a))'
      BY <2>1, <3>1, <3>2 DEF Tells
    <3>. QED  BY <3>2, <3>3
  <2>. QED  BY <2>1, <2>2
<1>4. ASSUME NEW i \in 1..Len(posted) PROVE Fits(posted[i], i \in mixed)
  BY DEF PostedInv, Tells
<1>5. ASSUME NEW i \in 1..Len(posted') PROVE Fits(posted'[i], i \in mixed')
  <2>. HIDE DEF Fits
  <2>1. CASE i \in 1..Len(posted)
    <3>1. posted'[i] = posted[i] /\ (i \in mixed' <=> i \in mixed)
      BY <2>1, PostedKept
    <3>2. (i \in mixed') = (i \in mixed)
      BY <3>1
    <3>3. Fits(posted[i], i \in mixed)
      BY <1>4, <2>1
    <3>. QED  BY <3>1, <3>2, <3>3
  <2>2. CASE i \notin 1..Len(posted)
    <3>1. ~PostsNothing
      BY <2>2 DEF PostsNothing
    <3>2. PICK st : Posts(st) \/ PostsMixed(st)
      BY <3>1, Posting
    <3>3. i = Len(posted) + 1 /\ posted'[i] = st /\ Len(posted) \in Nat
      BY <2>2, <3>2, PostedGrows
    <3>4. CASE Posts(st)
      <4>0. PICK n : n = at + 1
        OBVIOUS
      <4>1. n \in 1..Len(log) /\ Signs /\ EventAt(n) # NoEvent /\ Tells(st, EventAt(n))
        BY <3>4, <4>0 DEF Posts
      <4>2. setup.type \in SourceTypes
        BY <3>4 DEF Posts, RunningInv, Builds
      <4>3. EventAt(n).type \in EventTypesOf(setup)
        BY <4>1, <4>2, ParseTypes DEF EventAt
      <4>4. EventAt(n).id \in 0..Len(ops)
        <5>1. EventAt(n).id = log[n][1]
          BY <4>1, <4>2, EventAtHas
        <5>2. log[n][1] \in 0..Len(ops)
          BY <4>1, Position
        <5>. QED  BY <5>1, <5>2
      <4>. QED  BY <3>3, <4>1, <4>3, <4>4 DEF Fits, Tells
    <3>5. CASE PostsMixed(st)
      BY <3>3, <3>5 DEF PostsMixed, Fits
    <3>. QED  BY <3>2, <3>4, <3>5
  <2>. QED  BY <2>1, <2>2
<1>. HIDE DEF Fits
<1>. QED  BY <1>3, <1>5 DEF PostedInv

\* What is posted in this pass tells a line that is behind.
LEMMA NextPass ==
  ASSUME LogTypeOK, LogInv, RunningInv, PlacesInv, PassInv, [OutboundNext]_outboundVars
  PROVE  PassInv'
<1>1. /\ setup' = setup /\ Len(log) \in Nat /\ at \in Nat /\ at' \in Nat /\ at \in 0..Len(log)
  BY LogKept DEF LogTypeOK
<1>2. ResolveSigningKeyPEM' = ResolveSigningKeyPEM
  BY <1>1 DEF ResolveSigningKeyPEM
<1>3. since \in Nat /\ Len(posted) \in Nat /\ Len(posted') \in Nat
  BY PostedKept DEF PlacesInv
<1>. SUFFICES ASSUME NEW i \in ((since' + 1)..Len(posted')) \ mixed'
              PROVE  \E a \in 1..at' : EventAt(a)' # NoEvent /\ Tells(posted[i], EventAt(a))'
  BY DEF PassInv
<1>4. ASSUME NEW a \in 1..Len(log), EventAt(a) # NoEvent, Tells(posted'[i], EventAt(a))
      PROVE  EventAt(a)' # NoEvent /\ Tells(posted[i], EventAt(a))'
  <2>1. EventAt(a)' = EventAt(a)
    BY EventKept
  <2>. QED  BY <1>2, <1>4, <2>1 DEF Tells
<1>5. ASSUME since' = since, at <= at', i \in 1..Len(posted)
      PROVE  \E a \in 1..at' : EventAt(a)' # NoEvent /\ Tells(posted[i], EventAt(a))'
  <2>1. posted'[i] = posted[i] /\ i \notin mixed
    BY <1>5, PostedKept
  <2>2. i \in ((since + 1)..Len(posted)) \ mixed
    BY <1>3, <1>5, <2>1
  <2>3. PICK a \in 1..at : EventAt(a) # NoEvent /\ Tells(posted[i], EventAt(a))
    BY <2>2 DEF PassInv
  <2>4. a \in 1..Len(log) /\ a \in 1..at'
    BY <1>1, <1>5
  <2>. QED  BY <1>4, <2>1, <2>3, <2>4
<1>6. CASE PostsNothing
  <2>1. i \in 1..Len(posted) /\ since' # Len(posted)
    BY <1>3, <1>6 DEF PostsNothing, PlacesInv
  <2>. QED  BY <1>5, <1>6, <2>1 DEF PostsNothing
<1>7. ASSUME NEW st, Posts(st)
      PROVE  \E a \in 1..at' : EventAt(a)' # NoEvent /\ Tells(posted[i], EventAt(a))'
  <2>0. PICK n : n = at + 1
    OBVIOUS
  <2>1. /\ n \in 1..Len(log) /\ at' = n /\ EventAt(n) # NoEvent /\ Tells(st, EventAt(n))
        /\ since' = since /\ at <= at'
    BY <1>1, <1>7, <2>0 DEF Posts
  <2>2. Len(posted') = Len(posted) + 1 /\ posted'[Len(posted) + 1] = st
    BY <1>7, PostedGrows
  <2>3. CASE i \in 1..Len(posted)
    BY <1>5, <2>1, <2>3
  <2>4. CASE i \notin 1..Len(posted)
    <3>1. i = Len(posted) + 1
      BY <1>3, <2>1, <2>2, <2>4
    <3>2. n \in 1..at'
      BY <1>1, <2>1
    <3>3. EventAt(n)' # NoEvent /\ Tells(posted[i], EventAt(n))'
      BY <1>4, <2>1, <2>2, <3>1
    <3>. QED  BY <3>2, <3>3
  <2>. QED  BY <2>3, <2>4
<1>8. ASSUME NEW st, PostsMixed(st)
      PROVE  \E a \in 1..at' : EventAt(a)' # NoEvent /\ Tells(posted[i], EventAt(a))'
  <2>1. /\ since' = since /\ at <= at' /\ Len(posted) + 1 \in mixed'
    BY <1>8 DEF PostsMixed
  <2>2. Len(posted') = Len(posted) + 1
    BY <1>8, PostedGrows
  <2>3. i \in 1..Len(posted)
    BY <1>3, <2>1, <2>2
  <2>. QED  BY <1>5, <2>1, <2>3
<1>. QED  BY <1>6, <1>7, <1>8, Posting

\* What has come through is posted.
LEMMA NextWhole ==
  ASSUME LogTypeOK, LogInv, RunningInv, PlacesInv, WholeInv, [OutboundNext]_outboundVars
  PROVE  WholeInv'
<1>1. /\ setup' = setup /\ Len(ops) \in Nat /\ Len(ops') \in Nat /\ Len(ops) <= Len(ops')
      /\ \A k \in 1..Len(ops) : ops'[k] = ops[k]
  BY LogKept
<1>2. Signs' = Signs
  BY <1>1 DEF Signs, ResolveSigningKeyPEM
<1>3. /\ Len(posted) \in Nat /\ Len(posted') \in Nat /\ Len(posted) <= Len(posted')
      /\ \A i \in 1..Len(posted) : posted'[i] = posted[i] /\ (i \in mixed' <=> i \in mixed)
  BY PostedKept
<1>4. ASSUME NEW k \in whole, Signs, LastEvent(setup, ops'[k], k) # NoEvent
      PROVE  \E i \in (1..Len(posted')) \ mixed' : posted'[i].id = k
  <2>1. k \in 1..Len(ops)
    BY DEF LogTypeOK
  <2>2. ops'[k] = ops[k]
    BY <1>1, <2>1
  <2>3. PICK i \in (1..Len(posted)) \ mixed : posted[i].id = k
    BY <1>4, <2>2 DEF WholeInv
  <2>4. i \in (1..Len(posted')) \ mixed' /\ posted'[i] = posted[i]
    BY <1>3
  <2>. QED  BY <2>3, <2>4
<1>5. ASSUME NEW k, Completes(k), Signs, LastEvent(setup, ops'[k], k) # NoEvent
      PROVE  \E i \in (1..Len(posted')) \ mixed' : posted'[i].id = k
  <2>1. PICK n : n = at + 1
    OBVIOUS
  <2>2. /\ n \in 1..Len(log) /\ k = log[n][1] /\ k # 0
        /\ log[n][2] = Len(LinesOf(setup.type, ops[k], k))
        /\ (Signs /\ EventAt(n) # NoEvent) => \E st : Posts(st)
    BY <1>5, <2>1 DEF Completes
  <2>3. /\ k \in 1..Len(ops) /\ setup.type \in SourceTypes
        /\ EventAt(n) = LineEvent(setup, ops[k], k, log[n][2])
    BY <2>2, Position
  <2>4. EventAt(n) = LastEvent(setup, ops'[k], k)
    BY <1>1, <2>2, <2>3 DEF LastEvent
  <2>5. EventAt(n).id = k
    BY <1>5, <2>2, <2>3, <2>4, EventAtHas
  <2>6. PICK st : Posts(st)
    BY <1>5, <2>2, <2>4
  <2>7. st.id = k
    BY <2>1, <2>5, <2>6 DEF Posts, Tells
  <2>8. Len(posted') = Len(posted) + 1 /\ posted'[Len(posted) + 1] = st
    BY <2>6, PostedGrows
  <2>9. Len(posted) + 1 \in (1..Len(posted')) \ mixed'
    BY <1>3, <2>6, <2>8 DEF Posts, PlacesInv
  <2>. QED  BY <2>7, <2>8, <2>9
<1>. SUFFICES ASSUME NEW k \in whole', Signs, LastEvent(setup, ops'[k], k) # NoEvent
              PROVE  \E i \in (1..Len(posted')) \ mixed' : posted'[i].id = k
  BY <1>1, <1>2 DEF WholeInv, LastEvent, LineEvent, Source
<1>6. k \in whole \/ Completes(k)
  BY Posting DEF Completes
<1>. QED  BY <1>4, <1>5, <1>6

\* The invariant holds in every state.
LEMMA OutboundInvariant == OutboundSpec => []OutboundInv
<1>1. OutboundInit => OutboundInv
  <2>. SUFFICES ASSUME OutboundInit PROVE OutboundInv
    OBVIOUS
  <2>1. LogTypeOK
    BY OutboundAssumption DEF OutboundInit, LogTypeOK
  <2>2. LogInv /\ RunningInv /\ PostedInv /\ PassInv /\ WholeInv
    BY DEF OutboundInit, LogInv, RunningInv, PostedInv, PassInv, WholeInv
  <2>3. posted \in Seq({}) /\ mixed = {} /\ since = 0 /\ Len(posted) = 0
    BY DEF OutboundInit
  <2>. QED  BY <2>1, <2>2, <2>3 DEF OutboundInv, PlacesInv
<1>2. OutboundInv /\ [OutboundNext]_outboundVars => OutboundInv'
  <2>. SUFFICES ASSUME OutboundInv, [OutboundNext]_outboundVars PROVE OutboundInv'
    OBVIOUS
  <2>0. LogTypeOK /\ LogInv /\ RunningInv /\ PlacesInv /\ PostedInv /\ PassInv /\ WholeInv
    BY DEF OutboundInv
  <2>1. LogTypeOK' /\ LogInv' /\ RunningInv'
    BY <2>0, NextLogs
  <2>2. PlacesInv'
    BY <2>0, PostedKept
  <2>3. PostedInv' /\ PassInv'
    BY <2>0, NextPosted, NextPass
  <2>4. WholeInv'
    BY <2>0, NextWhole
  <2>. QED  BY <2>1, <2>2, <2>3, <2>4 DEF OutboundInv
<1>. QED  BY <1>1, <1>2, PTL DEF OutboundSpec

(***************************************************************************)
(* SETs are signed if a key is configured, and with the one that comes     *)
(* first: Emit (src/relay/emitter.go) drops what SignSET cannot sign.      *)
(***************************************************************************)
THEOREM SignedSETs == OutboundSpec => []SignedAsConfigured
<1>1. OutboundInv => SignedAsConfigured
  <2>. SUFFICES ASSUME OutboundInv, NEW i \in 1..Len(posted)
                PROVE  /\ posted[i].key = "none" => setup.inline = "" /\ setup.file = ""
                       /\ posted[i].key = "file" => setup.inline = ""
                       /\ posted[i].key = "inline" => setup.inline = "P-256"
                       /\ posted[i].key = "file" => setup.file = "P-256"
    BY DEF SignedAsConfigured
  <2>1. Signs /\ posted[i].key = ResolveSigningKeyPEM.from
    BY DEF OutboundInv, PostedInv
  <2>2. posted # <<>>
    OBVIOUS
  <2>3. KeyLoads
    BY <2>2 DEF OutboundInv, RunningInv
  <2>. QED  BY <2>1, <2>3 DEF Signs, KeyLoads, ResolveSigningKeyPEM
<1>. QED  BY <1>1, OutboundInvariant, PTL

-----------------------------------------------------------------------------
(* At most one SET of an operation.                                        *)

\* What has been posted is the event of a line of the log, if it is not mixed.
LEMMA Told ==
  ASSUME OutboundInv, NEW i \in 1..Len(posted)
  PROVE  /\ Builds(setup.type, setup.config) /\ setup.type \in SourceTypes
         /\ i \notin mixed =>
              \E a \in 1..Len(log) : /\ EventAt(a) # NoEvent /\ Tells(posted[i], EventAt(a))
                                     /\ posted[i].id = log[a][1]
<1>1. posted # <<>>
  OBVIOUS
<1>2. Builds(setup.type, setup.config)
  BY <1>1 DEF OutboundInv, RunningInv
<1>3. setup.type \in SourceTypes
  BY <1>2 DEF Builds
<1>4. ASSUME i \notin mixed
      PROVE  \E a \in 1..Len(log) : /\ EventAt(a) # NoEvent /\ Tells(posted[i], EventAt(a))
                                    /\ posted[i].id = log[a][1]
  <2>1. PICK a \in 1..Len(log) : EventAt(a) # NoEvent /\ Tells(posted[i], EventAt(a))
    BY <1>4 DEF OutboundInv, PostedInv
  <2>2. EventAt(a).id = log[a][1]
    BY <1>3, <2>1, EventAtHas DEF OutboundInv
  <2>. QED  BY <2>1, <2>2 DEF Tells
<1>. QED  BY <1>2, <1>3, <1>4

\* Two lines of one operation that are both reported are one.
LEMMA OneLine ==
  ASSUME WatchesOnce, LogTypeOK, LogInv,
         NEW a \in 1..Len(log), EventAt(a) # NoEvent,
         NEW b \in 1..Len(log), EventAt(b) # NoEvent,
         log[a][1] = log[b][1], log[a][1] # 0
  PROVE  a = b
<1>. DEFINE k == log[a][1]
<1>1. /\ setup \in Setups /\ setup.type \in SourceTypes
      /\ log[a][2] \in 1..Len(LinesOf(setup.type, ops[k], k))
      /\ EventAt(a) = LineEvent(setup, ops[k], k, log[a][2])
  BY Position
<1>2. /\ log[b][2] \in 1..Len(LinesOf(setup.type, ops[k], k))
      /\ EventAt(b) = LineEvent(setup, ops[k], k, log[b][2])
  BY Position
<1>3. log[a][2] = log[b][2]
  BY <1>1, <1>2, OneReport
<1>4. log[a] = log[b]
  <2>1. log[a] \in (0..Len(ops)) \X Nat /\ log[b] \in (0..Len(ops)) \X Nat
    BY SMTT(30) DEF LogTypeOK
  <2>. QED  BY <1>3, <2>1
<1>. QED  BY <1>4 DEF LogInv

\* What is posted next is of another operation than what this pass has posted.
LEMMA NextOnce ==
  ASSUME WatchesOnce, OutboundInv, OneEventPerOperation, [OutboundNext]_outboundVars
  PROVE  OneEventPerOperation'
<1>. DEFINE Pass == ((since + 1)..Len(posted)) \ mixed
<1>1. /\ LogTypeOK /\ LogInv /\ RunningInv /\ PlacesInv /\ PassInv
      /\ Len(posted) \in Nat /\ since \in 0..Len(posted) /\ at \in Nat /\ at \in 0..Len(log)
  BY DEF OutboundInv, PlacesInv, LogTypeOK
<1>2. CASE PostsNothing
  <2>1. \/ since' = since /\ Pass' = Pass
        \/ Pass' = {}
    BY <1>1, <1>2 DEF PostsNothing
  <2>. QED  BY <1>2, <2>1 DEF PostsNothing, OneEventPerOperation
<1>3. ASSUME NEW st, PostsMixed(st) PROVE OneEventPerOperation'
  <2>1. /\ Len(posted') = Len(posted) + 1 /\ \A i \in 1..Len(posted) : posted'[i] = posted[i]
        /\ mixed' = mixed \cup {Len(posted) + 1} /\ since' = since
    BY <1>1, <1>3, PostedGrows DEF PostsMixed
  <2>2. Pass' = Pass /\ Pass \subseteq 1..Len(posted)
    BY <1>1, <2>1
  <2>. QED  BY <2>1, <2>2 DEF OneEventPerOperation
<1>4. ASSUME NEW st, Posts(st) PROVE OneEventPerOperation'
  <2>1. /\ Len(posted') = Len(posted) + 1 /\ posted'[Len(posted) + 1] = st
        /\ \A i \in 1..Len(posted) : posted'[i] = posted[i]
        /\ mixed' = mixed /\ since' = since
    BY <1>1, <1>4, PostedGrows DEF Posts
  <2>2. PICK n : n = at + 1
    OBVIOUS
  <2>3. /\ n \in 1..Len(log) /\ EventAt(n) # NoEvent /\ st.id = EventAt(n).id
        /\ proc = "running"
    BY <1>4, <2>2 DEF Posts, Tells
  <2>4. setup.type \in SourceTypes
    BY <1>1, <2>3 DEF RunningInv, Builds
  <2>5. st.id = log[n][1]
    BY <1>1, <2>3, <2>4, EventAtHas
  <2>6. ASSUME NEW i \in Pass, posted[i].id = st.id PROVE st.id = 0
    <3>1. PICK a \in 1..at : EventAt(a) # NoEvent /\ Tells(posted[i], EventAt(a))
      BY <1>1 DEF PassInv
    <3>2. a \in 1..Len(log) /\ a # n
      BY <1>1, <2>2, <3>1
    <3>3. posted[i].id = log[a][1]
      BY <1>1, <2>4, <3>1, <3>2, EventAtHas DEF Tells
    <3>. QED  BY <1>1, <2>3, <2>5, <2>6, <3>1, <3>2, <3>3, OneLine
  <2>7. Pass \subseteq 1..Len(posted) /\ Pass' \subseteq Pass \cup {Len(posted) + 1}
    BY <1>1, <2>1
  <2>. SUFFICES ASSUME NEW i \in Pass', NEW j \in Pass',
                       posted'[i].id = posted'[j].id, posted'[i].id # 0
                PROVE  i = j
    BY DEF OneEventPerOperation
  <2>8. CASE i \in Pass /\ j \in Pass
    <3>1. posted'[i] = posted[i] /\ posted'[j] = posted[j]
      BY <2>1, <2>7, <2>8
    <3>. QED  BY <2>8, <3>1 DEF OneEventPerOperation
  <2>9. CASE i = Len(posted) + 1 /\ j \in Pass
    BY <2>1, <2>6, <2>7, <2>9
  <2>10. CASE i \in Pass /\ j = Len(posted) + 1
    BY <2>1, <2>6, <2>7, <2>10
  <2>. QED  BY <2>7, <2>8, <2>9, <2>10
<1>. QED  BY <1>1, <1>2, <1>3, <1>4, Posting

(***************************************************************************)
(* An operation is reported once, however many lines it logs: the parsers  *)
(* (src/sources) take the response and not the request, and of a request's *)
(* stages one, unless the configuration asks for two of a watch's.         *)
(***************************************************************************)
THEOREM ReportedOnce == WatchesOnce => (OutboundSpec => []OneEventPerOperation)
<1>. SUFFICES ASSUME WatchesOnce PROVE OutboundSpec => []OneEventPerOperation
  OBVIOUS
<1>1. OutboundInit => OneEventPerOperation
  BY DEF OutboundInit, OneEventPerOperation
<1>2. OutboundInv /\ OneEventPerOperation /\ [OutboundNext]_outboundVars =>
        OneEventPerOperation'
  BY NextOnce
<1>. QED  BY <1>1, <1>2, OutboundInvariant, PTL DEF OutboundSpec

-----------------------------------------------------------------------------
(* What the SETs say.                                                      *)

\* The response to a Vault operation is taken for what it was.
LEMMA VaultSays ==
  ASSUME NEW s, NEW op, NEW k,
         ResponseType(Source(s), VaultResponse(op, k)) # "none"
  PROVE  VaultTruth(Source(s), op, ResponseType(Source(s), VaultResponse(op, k)))
<1>. DEFINE e == VaultResponse(op, k)
            src == Source(s)
            type == ResponseType(src, e)
<1>1. e.path = op.path /\ e.op = op.op /\ e.error = ~op.ok
  BY DEF VaultResponse
<1>2. (isRevoke(e) <=> isRevoke(op)) /\ (isLogin(e) <=> isLogin(op))
  BY <1>1 DEF isRevoke, isLogin
<1>. HIDE DEF e, src
<1>3. CASE isRevoke(e)
  <2>1. type = "credential-revoked"
    BY <1>3 DEF ResponseType
  <2>. QED  BY <1>2, <1>3, <2>1 DEF VaultTruth, e, src
<1>4. CASE ~isRevoke(e) /\ e.error
  <2>1. type = "secret-denied"
    BY <1>4 DEF ResponseType, e, src
  <2>. QED  BY <1>1, <1>4, <2>1 DEF VaultTruth, e, src
<1>5. CASE ~isRevoke(e) /\ ~e.error /\ isLogin(e)
  <2>1. type = "auth-event"
    BY <1>5 DEF ResponseType, e, src
  <2>. QED  BY <1>1, <1>2, <1>5, <2>1 DEF VaultTruth, e, src
<1>6. CASE ~isRevoke(e) /\ ~e.error /\ ~isLogin(e)
  <2>1. MatchingRule(src, e) # {}
    BY <1>6 DEF ResponseType, e, src
  <2>2. PICK i \in MatchingRule(src, e) : i = CHOOSE n \in MatchingRule(src, e) : TRUE
    BY <2>1
  <2>3. type = src.mountRules[i].event
    BY <1>6, <2>1, <2>2 DEF ResponseType, e, src
  <2>4. i \in DOMAIN src.mountRules /\ IsPrefix(src.mountRules[i].prefix, op.path)
    BY <1>1 DEF MatchingRule
  <2>5. VaultTruth(src, op, src.mountRules[i].event)
    BY <1>1, <1>6, <2>4 DEF VaultTruth
  <2>. QED  BY <2>3, <2>5 DEF e, src
<1>. QED  BY <1>3, <1>4, <1>5, <1>6

\* A line of a Kubernetes request is taken for what was answered.
LEMMA K8sSays ==
  ASSUME NEW op, NEW src, NEW line,
         line.verb = op.verb, line.resource = op.resource, line.code = op.code,
         K8sType(src, line) # "none"
  PROVE  K8sTruth(op, K8sType(src, line))
<1>1. CASE line.code \in {401, 403}
  <2>1. K8sType(src, line) = "secret-denied"
    BY <1>1 DEF K8sType
  <2>. QED  BY <1>1, <2>1 DEF K8sTruth
<1>2. CASE line.code \notin {401, 403}
  <2>1. Succeeded(line.code)
    BY <1>2 DEF K8sType
  <2>2. op.code \in 200..299
    BY <2>1 DEF Succeeded
  <2>3. K8sType(src, line) = K8sEffect(op) /\ K8sType(src, line) # "secret-denied"
    BY <1>2, <2>1 DEF K8sType, K8sEffect
  <2>. QED  BY <2>2, <2>3 DEF K8sTruth
<1>. QED  BY <1>1, <1>2

\* An OPA decision is taken for what it was.
LEMMA OpaSays ==
  ASSUME NEW s, NEW line, OpaType(s, line) # "none"
  PROVE  OpaTruth(line, OpaType(s, line))
BY DEF OpaTruth, OpaType, isAllowed

\* An event is true of its operation.
Truthful(s, op, event) ==
  CASE s.type = "vault-audit" ->
         /\ VaultTruth(Source(s), op, event.type)
         /\ event.entity = IF op.login /\ ~op.ok THEN "" ELSE op.actor
    [] s.type = "k8s-audit" -> K8sTruth(op, event.type) /\ event.entity = op.actor
    [] s.type = "opa-decision" -> OpaTruth(op, event.type) /\ event.entity = op.labels

\* The event of a line of an operation is true of it.
LEMMA EventsSay ==
  ASSUME NEW s \in Setups, s.type \in SourceTypes, NEW op, NEW k,
         NEW j \in 1..Len(LinesOf(s.type, op, k)), LineEvent(s, op, k, j) # NoEvent
  PROVE  Truthful(s, op, LineEvent(s, op, k, j))
<1>. DEFINE event == LineEvent(s, op, k, j)
<1>1. CASE s.type = "vault-audit"
  <2>0. TellsResponse(event, s, op, k)
    BY <1>1, VaultReports
  <2>. HIDE DEF event
  <2>1. event.type = ResponseType(Source(s), VaultResponse(op, k)) /\ event.type # "none"
    BY <2>0 DEF TellsResponse
  <2>2. event.entity = IF op.login /\ ~op.ok THEN "" ELSE op.actor
    BY <2>0 DEF TellsResponse
  <2>3. VaultTruth(Source(s), op, event.type)
    BY <2>1, VaultSays
  <2>. QED  BY <1>1, <2>2, <2>3 DEF Truthful, event
<1>2. CASE s.type = "k8s-audit"
  <2>. DEFINE line == K8sLines(op, k)[j]
  <2>1. /\ j # 1 /\ event.type = K8sType(Source(s), line)
        /\ K8sType(Source(s), line) # "none" /\ event.entity = op.actor
    BY <1>2, K8sReports
  <2>2. /\ Len(K8sLines(op, k)) = IF op.verb = "watch" THEN 3 ELSE 2
        /\ j \in 1..Len(K8sLines(op, k))
    <3>1. Len(K8sLines(op, k)) = IF op.verb = "watch" THEN 3 ELSE 2
      BY K8sLinesAre
    <3>. QED  BY <1>2, <3>1 DEF LinesOf
  <2>3. line.verb = op.verb /\ line.resource = op.resource /\ line.code = op.code
    BY <2>1, <2>2, K8sLinesAre
  <2>. HIDE DEF line, event
  <2>4. K8sTruth(op, event.type)
    BY <2>1, <2>3, K8sSays
  <2>. QED  BY <1>2, <2>1, <2>4 DEF Truthful, event
<1>3. CASE s.type = "opa-decision"
  <2>. DEFINE line == OpaLines(op, k)[1]
  <2>1. /\ j = 1 /\ line.result = op.result /\ line.labels = op.labels
        /\ LinesOf(s.type, op, k)[j] = line
    BY <1>3 DEF LinesOf, OpaLines
  <2>2. event = Parse("opa-decision", Source(s), line)
    BY <1>3, <2>1 DEF LineEvent
  <2>. HIDE DEF line
  <2>3. /\ event.type = OpaType(Source(s), line) /\ OpaType(Source(s), line) # "none"
        /\ event.entity = line.labels
    BY <2>2, OpaParses
  <2>. HIDE DEF event
  <2>4. OpaTruth(line, event.type)
    BY <2>3, OpaSays
  <2>. QED  BY <1>3, <2>1, <2>3, <2>4 DEF Truthful, OpaTruth, event
<1>. QED  BY <1>1, <1>2, <1>3 DEF SourceTypes

\* What has been posted is a stray object's denial, or true of its operation.
LEMMA PostedTrue ==
  ASSUME OutboundInv, NEW i \in (1..Len(posted)) \ mixed
  PROVE  /\ posted[i].id = 0 =>
              setup.type = "opa-decision" /\ posted[i].type = "policy-denied"
         /\ posted[i].id # 0 => Truthful(setup, ops[posted[i].id], posted[i])
<1>1. setup.type \in SourceTypes
  BY Told
<1>2. PICK a \in 1..Len(log) : /\ EventAt(a) # NoEvent /\ Tells(posted[i], EventAt(a))
                               /\ posted[i].id = log[a][1]
  BY Told
<1>3. CASE log[a][1] = 0
  <2>1. EventAt(a) = Parse(setup.type, Source(setup), StrayLine)
    BY <1>3, Position DEF OutboundInv
  <2>2. setup.type = "opa-decision" /\ EventAt(a).type = "policy-denied"
    BY <1>1, <1>2, <2>1, StrayReports
  <2>. QED  BY <1>2, <1>3, <2>2 DEF Tells
<1>4. CASE log[a][1] # 0
  <2>. DEFINE k == log[a][1]
  <2>1. /\ setup \in Setups
        /\ log[a][2] \in 1..Len(LinesOf(setup.type, ops[k], k))
        /\ EventAt(a) = LineEvent(setup, ops[k], k, log[a][2])
    BY <1>4, Position DEF OutboundInv
  <2>2. Truthful(setup, ops[k], EventAt(a))
    BY <1>1, <1>2, <2>1, EventsSay
  <2>3. posted[i].type = EventAt(a).type /\ posted[i].entity = EventAt(a).entity
    BY <1>2 DEF Tells
  <2>4. Truthful(setup, ops[k], posted[i])
    BY <2>2, <2>3 DEF Truthful
  <2>. QED  BY <1>2, <1>4, <2>4
<1>. QED  BY <1>3, <1>4

(***************************************************************************)
(* The types of the variables; every SET, also one of a joined line, has a *)
(* type that the source's parser (src/sources) gives, which for Vault may  *)
(* be what a mount rule names, and the number of an operation, or none.    *)
(***************************************************************************)
THEOREM OutboundTypeCorrect == OutboundSpec => []OutboundTypeOK
<1>1. OutboundInv => OutboundTypeOK
  <2>. SUFFICES ASSUME OutboundInv PROVE OutboundTypeOK
    OBVIOUS
  <2>1. ASSUME NEW i \in 1..Len(posted)
        PROVE  /\ posted[i].type \in EventTypesOf(setup)
               /\ posted[i].id \in 0..Len(ops)
               /\ posted[i].key \in {"none", "inline", "file"}
    <3>1. /\ posted[i].type \in EventTypesOf(setup) /\ posted[i].id \in 0..Len(ops)
          /\ posted[i].key = ResolveSigningKeyPEM.from
      BY DEF OutboundInv, PostedInv
    <3>. QED  BY <3>1 DEF ResolveSigningKeyPEM
  <2>. QED  BY <2>1 DEF OutboundInv, LogTypeOK, PlacesInv, OutboundTypeOK
<1>. QED  BY <1>1, OutboundInvariant, PTL

(***************************************************************************)
(* No SET that comes of a line as it was logged says of an operation what  *)
(* was not so, or that somebody else did it: Parse of every source         *)
(* (src/sources) looks at the outcome before it looks at what was asked,   *)
(* but for Vault's revocations, of which a SET says only that one was      *)
(* asked for.                                                              *)
(***************************************************************************)
THEOREM SETsAreTrue == OutboundSpec => []EventsAreTrue
<1>1. OutboundInv => EventsAreTrue
  <2>. SUFFICES ASSUME OutboundInv, NEW i \in (1..Len(posted)) \ mixed
                PROVE  IF posted[i].id = 0
                       THEN setup.type = "opa-decision" /\ posted[i].type = "policy-denied"
                       ELSE Truthful(setup, ops[posted[i].id], posted[i])
    BY DEF EventsAreTrue, Truthful
  <2>. QED  BY PostedTrue
<1>. QED  BY <1>1, OutboundInvariant, PTL

-----------------------------------------------------------------------------
(* What is to be reported is, and nothing else.                            *)

\* A set of natural numbers that has elements has a least one.
LEMMA Least ==
  ASSUME NEW T \in SUBSET Nat, T # {}
  PROVE  \E x \in T : \A y \in T : ~(y < x)
<1>. DEFINE Less == {ss \in Nat \X Nat : ss[1] < ss[2]}
<1>1. OpToRel(<, Nat) = Less
  BY Zenon DEF OpToRel
<1>2. IsWellFoundedOn(Less, Nat)
  BY <1>1, NatLessThanWellFounded, Zenon
<1>. HIDE DEF Less
<1>3. PICK x \in T : \A y \in T : <<y, x>> \notin Less
  BY <1>2, WFMin, Zenon
<1>. QED  BY <1>3 DEF Less

\* A rule matches if and only if one of the prefixes does: there is a first.
LEMMA SomeRuleMatches ==
  ASSUME NEW src, NEW op, DOMAIN src.mountRules = 1..Len(src.mountRules),
         Len(src.mountRules) \in Nat
  PROVE  MatchingRule(src, op) # {} <=>
           HasPrefixOf(op.path, {src.mountRules[i].prefix : i \in DOMAIN src.mountRules})
<1>. DEFINE n == Len(src.mountRules)
            Matches(i) == IsPrefix(src.mountRules[i].prefix, op.path)
            T == {i \in 1..n : Matches(i)}
<1>1. HasPrefixOf(op.path, {src.mountRules[i].prefix : i \in DOMAIN src.mountRules}) <=>
        T # {}
  BY DEF HasPrefixOf
<1>2. MatchingRule(src, op) = {i \in 1..n : Matches(i) /\ \A j \in 1..(i - 1) : ~Matches(j)}
  BY DEF MatchingRule
<1>. HIDE DEF Matches
<1>3. ASSUME T # {} PROVE MatchingRule(src, op) # {}
  <2>1. T \in SUBSET Nat
    OBVIOUS
  <2>. HIDE DEF T
  <2>2. PICK x \in T : \A y \in T : ~(y < x)
    BY <1>3, <2>1, Least
  <2>3. x \in 1..n /\ Matches(x)
    BY <2>2 DEF T
  <2>4. \A j \in 1..(x - 1) : ~Matches(j)
    BY <2>2, <2>3 DEF T
  <2>. QED  BY <1>2, <2>3, <2>4
<1>4. MatchingRule(src, op) # {} => T # {}
  BY <1>2
<1>. QED  BY <1>1, <1>3, <1>4

\* Of a Vault operation, the parser reports the response if it is wanted.
LEMMA VaultWants ==
  ASSUME NEW s \in Setups, s.type = "vault-audit", Builds(s.type, s.config),
         NEW op, NEW k
  PROVE  ResponseType(Source(s), VaultResponse(op, k)) # "none" <=>
           VaultWanted(Source(s), op)
<1>. DEFINE e == VaultResponse(op, k)
            src == Source(s)
            type == ResponseType(src, e)
            login == isLogin(e)
            dropped == HasPrefixOf(e.path, src.dropPrefixes)
            rules == HasPrefixOf(op.path, {src.mountRules[i].prefix : i \in DOMAIN src.mountRules})
<1>1. e.path = op.path /\ e.op = op.op /\ e.error = ~op.ok
  BY DEF VaultResponse
<1>2. isRevoke(e) <=> isRevoke(op)
  BY <1>1 DEF isRevoke
<1>3. MatchingRule(src, e) = MatchingRule(src, op)
  BY <1>1 DEF MatchingRule
<1>4. rules <=> MatchingRule(src, op) # {}
  BY SomeRuleMatches, RulesAssumption
<1>5. login <=> isLogin(op)
  BY <1>1 DEF isLogin
<1>. HIDE DEF rules, src
<1>6. VaultWanted(src, op) <=>
        \/ isRevoke(op)
        \/ ~dropped /\ (e.error \/ login \/ MatchingRule(src, op) # {})
  BY <1>1, <1>4, <1>5 DEF VaultWanted, rules
<1>7. ASSUME MatchingRule(src, e) # {}
      PROVE  src.mountRules[CHOOSE i \in MatchingRule(src, e) : TRUE].event # "none"
  <2>1. PICK i \in MatchingRule(src, e) : i = CHOOSE n \in MatchingRule(src, e) : TRUE
    BY <1>7
  <2>2. i \in DOMAIN src.mountRules
    BY DEF MatchingRule
  <2>3. src.mountRules[i].event \in RuleEvents(s) /\ "none" \notin RuleEvents(s)
    BY <2>2, RulesAssumption DEF RuleEvents, src
  <2>. QED  BY <2>1, <2>3
<1>. HIDE DEF e
<1>8. type # "none" <=>
        \/ isRevoke(e)
        \/ ~dropped /\ (e.error \/ login \/ MatchingRule(src, e) # {})
  BY <1>7 DEF ResponseType
<1>. QED  BY <1>2, <1>3, <1>6, <1>8 DEF src, e

\* What is reported of a line that is not lost is so because it is wanted.
LEMMA OnlyWanted ==
  ASSUME WatchesToTheEnd, NEW s \in Setups, Builds(s.type, s.config), NEW op, NEW k,
         NEW j \in 1..Len(LinesOf(s.type, op, k)), LineEvent(s, op, k, j) # NoEvent
  PROVE  Wanted(s, op) /\ Readable(s.type, op)
<1>1. CASE s.type = "vault-audit"
  <2>1. TellsResponse(LineEvent(s, op, k, j), s, op, k)
    BY <1>1, VaultReports
  <2>2. ResponseType(Source(s), VaultResponse(op, k)) # "none"
    BY <2>1 DEF TellsResponse
  <2>3. VaultWanted(Source(s), op)
    BY <1>1, <2>2, VaultWants
  <2>. QED  BY <1>1, <2>3 DEF Wanted, Readable
<1>2. CASE s.type = "k8s-audit"
  <2>. DEFINE line == K8sLines(op, k)[j]
              last == IF op.verb = "watch" THEN 3 ELSE 2
  <2>1. j # 1 /\ K8sType(Source(s), line) # "none"
    BY <1>2, K8sReports
  <2>2. Len(K8sLines(op, k)) = last /\ j \in 1..last
    <3>1. Len(K8sLines(op, k)) = last
      BY K8sLinesAre
    <3>. QED  BY <1>2, <3>1 DEF LinesOf
  <2>3. /\ line.user = op.user /\ line.verb = op.verb /\ line.resource = op.resource
        /\ line.code = op.code
        /\ line.stage = IF j < last THEN "ResponseStarted"
                        ELSE IF op.code = 500 THEN "Panic" ELSE "ResponseComplete"
    BY <2>1, <2>2, K8sLinesAre
  <2>. HIDE DEF line
  <2>4. /\ line.stage \in Source(s).stages /\ ~HasPrefixOf(op.user, Source(s).dropUsers)
        /\ op.verb \notin Source(s).dropVerbs
        /\ op.code \in {401, 403} \/ Succeeded(op.code)
    BY <2>1, <2>3 DEF K8sType
  <2>5. op.code \in {401, 403} \/ op.code \in 200..299
    BY <2>4 DEF Succeeded
  <2>6. op.code \in {401, 403} \/ K8sEffect(op) # "other"
    BY <2>1, <2>3 DEF K8sType, K8sEffect
  <2>7. op.code # 500
    <3>1. 500 \notin {401, 403} /\ 500 \notin 200..299
      OBVIOUS
    <3>. QED  BY <2>5, <3>1, ZenonT(30)
  <2>8. "ResponseComplete" \in Source(s).stages
    <3>1. CASE j < last
      <4>1. op.verb = "watch" /\ "ResponseStarted" \in Source(s).stages
        BY <2>1, <2>2, <2>3, <2>4, <3>1
      <4>. QED  BY <1>2, <2>4, <4>1 DEF WatchesToTheEnd
    <3>2. CASE ~(j < last)
      BY <2>3, <2>4, <2>7, <3>2
    <3>. QED  BY <3>1, <3>2
  <2>9. K8sWanted(Source(s), op)
    BY <2>4, <2>5, <2>6, <2>8 DEF K8sWanted
  <2>. QED  BY <1>2, <2>9 DEF Wanted, Readable
<1>3. CASE s.type = "opa-decision"
  <2>. DEFINE line == OpaLines(op, k)[1]
  <2>1. /\ LinesOf(s.type, op, k)[j] = line /\ line.path = op.path /\ line.result = op.result
        /\ line.labels = op.labels /\ line.input = op.input
    BY <1>3 DEF LinesOf, OpaLines
  <2>2. Parse("opa-decision", Source(s), line) # NoEvent
    BY <1>3, <2>1 DEF LineEvent
  <2>. HIDE DEF line
  <2>3. OpaType(Source(s), line) # "none" /\ Decodes("opa-decision", line)
    BY <2>2, OpaParses
  <2>4. OpaWanted(Source(s), op)
    BY <2>1, <2>3 DEF OpaWanted, OpaType, isAllowed
  <2>5. Malformed \notin {op.labels, op.input}
    BY <2>1, <2>3 DEF Decodes
  <2>. QED  BY <1>3, <2>4, <2>5 DEF Wanted, Readable
<1>. QED  BY <1>1, <1>2, <1>3 DEF Builds, SourceTypes

\* What a program logs of an operation is a JSON object.
LEMMA LastIsJSON ==
  ASSUME NEW type \in SourceTypes, NEW op, NEW k
  PROVE  LinesOf(type, op, k)[Len(LinesOf(type, op, k))] # NotJSON
<1>. DEFINE lines == LinesOf(type, op, k)
<1>0. DOMAIN NotJSON = {"decodes"}
  BY DEF NotJSON
<1>1. CASE type = "vault-audit"
  <2>1. Len(VaultLines(op, k)) = 2 /\ VaultLines(op, k)[2] = VaultResponse(op, k)
    BY VaultLinesAre
  <2>2. "path" \in DOMAIN VaultResponse(op, k)
    BY DEF VaultResponse
  <2>3. lines = VaultLines(op, k)
    BY <1>1 DEF LinesOf
  <2>. HIDE DEF lines
  <2>4. lines[Len(lines)] = VaultResponse(op, k)
    BY <2>1, <2>3
  <2>5. VaultResponse(op, k) # NotJSON
    BY <1>0, <2>2
  <2>. QED  BY <2>4, <2>5 DEF lines
<1>2. CASE type = "k8s-audit"
  <2>. DEFINE received == [EmptyK8sEvent EXCEPT !.stage = "RequestReceived", !.user = op.user,
                             !.uid = op.actor, !.verb = op.verb, !.resource = op.resource,
                             !.id = k]
              reached(stage) == [received EXCEPT !.stage = stage, !.code = op.code]
              final == reached(IF op.code = 500 THEN "Panic" ELSE "ResponseComplete")
              started == reached("ResponseStarted")
  <2>1. "code" \in DOMAIN final
    BY DEF EmptyK8sEvent
  <2>2. K8sLines(op, k) = IF op.verb = "watch" THEN << received, started, final >>
                                               ELSE << received, final >>
    BY DEF K8sLines
  <2>. HIDE DEF received, final, started
  <2>3. K8sLines(op, k)[Len(K8sLines(op, k))] = final
    <3>1. CASE op.verb = "watch"
      <4>1. K8sLines(op, k) = << received, started, final >>
        BY <2>2, <3>1
      <4>. QED  BY <4>1
    <3>2. CASE op.verb # "watch"
      <4>1. K8sLines(op, k) = << received, final >>
        BY <2>2, <3>2
      <4>. QED  BY <4>1
    <3>. QED  BY <3>1, <3>2
  <2>. QED  BY <1>0, <1>2, <2>1, <2>3 DEF LinesOf
<1>3. CASE type = "opa-decision"
  <2>1. Len(OpaLines(op, k)) = 1 /\ "path" \in DOMAIN OpaLines(op, k)[1]
    BY DEF OpaLines
  <2>2. lines = OpaLines(op, k)
    BY <1>3 DEF LinesOf
  <2>. HIDE DEF lines
  <2>3. lines[Len(lines)] = OpaLines(op, k)[1]
    BY <2>1, <2>2
  <2>4. OpaLines(op, k)[1] # NotJSON
    <3>1. "path" \notin DOMAIN NotJSON
      BY <1>0
    <3>. QED  BY <2>1, <3>1, Zenon
  <2>. QED  BY <2>3, <2>4 DEF lines
<1>. QED  BY <1>1, <1>2, <1>3 DEF SourceTypes

\* What is wanted is reported by the last line of the operation at the latest, if it
\* can be read.
LEMMA AllWanted ==
  ASSUME NEW s \in Setups, Builds(s.type, s.config), NEW op, NEW k,
         Wanted(s, op), Readable(s.type, op)
  PROVE  LastEvent(s, op, k) # NoEvent
<1>. DEFINE lines == LinesOf(s.type, op, k)
            line == lines[Len(lines)]
<1>1. line # NotJSON
  BY LastIsJSON DEF Builds
<1>2. LastEvent(s, op, k) = Parse(s.type, Source(s), line)
  BY DEF LastEvent, LineEvent
<1>3. CASE s.type = "vault-audit"
  <2>1. line = VaultResponse(op, k)
    <3>1. Len(VaultLines(op, k)) = 2 /\ VaultLines(op, k)[2] = VaultResponse(op, k)
      BY VaultLinesAre
    <3>. QED  BY <1>3, <3>1 DEF LinesOf
  <2>2. ResponseType(Source(s), line) # "none"
    BY <1>3, <2>1, VaultWants DEF Wanted
  <2>3. line.type = "response"
    <3>1. VaultResponse(op, k).type = "response"
      BY DEF VaultResponse
    <3>. HIDE DEF line
    <3>. QED  BY <2>1, <3>1
  <2>. HIDE DEF line
  <2>4. VaultType(Source(s), line) # "none"
    BY <2>2, <2>3 DEF VaultType
  <2>. QED  BY <1>1, <1>2, <1>3, <2>4, VaultParses
<1>4. CASE s.type = "k8s-audit"
  <2>. DEFINE last == IF op.verb = "watch" THEN 3 ELSE 2
  <2>1. Len(K8sLines(op, k)) = last
    BY K8sLinesAre
  <2>2. line = K8sLines(op, k)[last]
    BY <1>4, <2>1 DEF LinesOf
  <2>3. /\ line.user = op.user /\ line.verb = op.verb /\ line.resource = op.resource
        /\ line.code = op.code
        /\ line.stage = IF op.code = 500 THEN "Panic" ELSE "ResponseComplete"
    <3>1. last \in 1..last /\ last # 1 /\ ~(last < last)
      OBVIOUS
    <3>. QED  BY <2>2, <3>1, K8sLinesAre
  <2>. HIDE DEF line
  <2>4. K8sWanted(Source(s), op)
    BY <1>4 DEF Wanted
  <2>5. op.code # 500
    BY <2>4 DEF K8sWanted
  <2>6. K8sType(Source(s), line) # "none"
    BY <2>3, <2>4, <2>5 DEF K8sWanted, K8sType, K8sEffect, Succeeded
  <2>. QED  BY <1>1, <1>2, <1>4, <2>6, K8sParses
<1>5. CASE s.type = "opa-decision"
  <2>1. /\ line.path = op.path /\ line.result = op.result
        /\ line.labels = op.labels /\ line.input = op.input
    BY <1>5 DEF LinesOf, OpaLines
  <2>. HIDE DEF line
  <2>2. OpaType(Source(s), line) # "none"
    BY <1>5, <2>1 DEF Wanted, OpaWanted, OpaType, isAllowed
  <2>3. Decodes("opa-decision", line)
    BY <1>1, <1>5, <2>1 DEF Decodes, Readable
  <2>. QED  BY <1>2, <1>5, <2>2, <2>3, OpaParses
<1>. QED  BY <1>3, <1>4, <1>5 DEF Builds, SourceTypes

(***************************************************************************)
(* What came through is reported if and only if the configuration asks for *)
(* it, the parser can read it and the key can sign it: no rule of a parser *)
(* (src/sources) hides what another one asks for.                          *)
(***************************************************************************)
THEOREM ReportedAsWanted == WatchesToTheEnd => (OutboundSpec => []ReportedIfWanted)
<1>. SUFFICES ASSUME WatchesToTheEnd PROVE OutboundSpec => []ReportedIfWanted
  OBVIOUS
<1>1. OutboundInv => ReportedIfWanted
  <2>. DEFINE Reported(k) == Signs /\ Wanted(setup, ops[k]) /\ Readable(setup.type, ops[k])
              Unmixed == (1..Len(posted)) \ mixed
  <2>. SUFFICES ASSUME OutboundInv, NEW k \in whole
                PROVE  (\E i \in Unmixed : posted[i].id = k) <=> Reported(k)
    BY DEF ReportedIfWanted
  <2>1. k \in 1..Len(ops) /\ setup \in Setups /\ Len(ops) \in Nat
    BY DEF OutboundInv, LogTypeOK
  <2>2. k # 0
    BY <2>1
  <2>3. Builds(setup.type, setup.config)
    BY DEF OutboundInv, RunningInv
  <2>4. ASSUME NEW i \in Unmixed, posted[i].id = k
        PROVE  Reported(k)
    <3>1. Signs
      BY DEF OutboundInv, PostedInv
    <3>2. PICK a \in 1..Len(log) : EventAt(a) # NoEvent /\ k = log[a][1]
      BY <2>4, Told
    <3>3. /\ log[a][2] \in 1..Len(LinesOf(setup.type, ops[k], k))
          /\ EventAt(a) = LineEvent(setup, ops[k], k, log[a][2])
      BY <2>2, <3>2, Position DEF OutboundInv
    <3>. QED  BY <2>1, <2>3, <3>1, <3>2, <3>3, OnlyWanted
  <2>5. ASSUME Reported(k)
        PROVE  \E i \in Unmixed : posted[i].id = k
    <3>1. LastEvent(setup, ops[k], k) # NoEvent
      BY <2>1, <2>3, <2>5, AllWanted
    <3>. QED  BY <2>5, <3>1 DEF OutboundInv, WholeInv
  <2>. QED  BY <2>4, <2>5
<1>. QED  BY <1>1, OutboundInvariant, PTL
=============================================================================
