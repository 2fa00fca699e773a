-------------------------- MODULE LogServerProofs --------------------------
(* Theorems about LogServer, for any number of requests and readers, any bodies,  *)
(* hashes and retries, with or without read faults.                               *)
EXTENDS LogServer, SequenceTheorems, TLAPS

\* The empty log satisfies the invariant.
LEMMA InitEstablishes == Init => IndInv
<1> SUFFICES ASSUME Init PROVE IndInv
  OBVIOUS
<1>1. TypeOK
  BY BoundsAssumption
  DEF Init, TypeOK, RedisTypeOK, HandlersTypeOK, AuditTypeOK, ReadersTypeOK,
      HandlerStates, InFlight, Finished
<1>2. HandlerInv /\ CounterInv /\ UniqueIndex /\ StoreInv /\ PipelineInv
  BY DEF Init, HandlerInv, HandlerOK, CounterInv, UniqueIndex, StoreInv, PipelineInv,
         PipelineOK, Numbered
<1> QED
  BY <1>1, <1>2 DEF IndInv

\* What gpg is given to sign for a numbered entry is a complete payload.
LEMMA PayloadType ==
    ASSUME NEW x \in Entry, x.log_index \in Nat
    PROVE  Payload(x) \in SigPayload
BY DEF Payload, SigPayload, Entry

\* What createEntry builds from a body it accepts is an Entry.
LEMMA NewEntryType ==
    ASSUME NEW r \in Requests, NEW b \in Bodies, clock \in Nat
    PROVE  /\ NewEntry(r, b) \in Entry
           /\ NewEntry(r, b).log_index = Unassigned
           /\ NewEntry(r, b).uuid = r
BY BodiesAssumption DEF Body, NewEntry, Entry, Unassigned

\* Every step leaves the handlers' variables within their types.
LEMMA HandlersTypeStep == IndInv /\ [Next]_vars => HandlersTypeOK'
<1> SUFFICES ASSUME IndInv, [Next]_vars PROVE HandlersTypeOK'
  OBVIOUS
<1> USE DEF IndInv, TypeOK, HandlersTypeOK, HandlerStates, InFlight, Finished
<1>1. ASSUME NEW r \in Requests, Reject(r) \/ NewUUIDFails(r)
      PROVE HandlersTypeOK'
  BY <1>1 DEF Reject, NewUUIDFails, Goto
<1>2. ASSUME NEW r \in Requests, Accept(r)
      PROVE HandlersTypeOK'
  <2>1. \A b \in Bodies : NewEntry(r, b) \in Entry
    BY NewEntryType
  <2> QED
    BY <1>2, <2>1 DEF Accept, Goto, Acknowledged
<1>3. ASSUME NEW r \in Requests, Incr(r)
      PROVE HandlersTypeOK'
  <2>1. e[r] \in Entry /\ counter \in Nat /\ counter' = counter + 1
    BY <1>3 DEF Incr, HandlerInv, HandlerOK, RedisTypeOK
  <2>2. [e[r] EXCEPT !.log_index = counter' - 1] \in Entry
    BY <2>1 DEF Entry
  <2> QED
    BY <1>3, <2>2, BoundsAssumption DEF Incr, Goto
<1>4. ASSUME NEW r \in Requests, IncrLost(r)
      PROVE HandlersTypeOK'
  BY <1>4, BoundsAssumption DEF IncrLost, Goto
<1>5. ASSUME NEW r \in Requests, Sign(r)
      PROVE HandlersTypeOK'
  <2>1. e[r] \in Entry /\ e[r].log_index \in Nat
    BY <1>5 DEF Sign, HandlerInv, HandlerOK
  <2>2. [e[r] EXCEPT !.server_signature = Payload(e[r])] \in Entry
    BY <2>1, PayloadType DEF Entry
  <2> QED
    BY <1>5, <2>2 DEF Sign, Goto
<1>6. ASSUME NEW r \in Requests, SignFails(r)
      PROVE HandlersTypeOK'
  BY <1>6 DEF SignFails, Goto
<1>7. ASSUME NEW r \in Requests,
             SetEntry(r) \/ SetUUID(r) \/ PushIndex(r) \/ CommandRefused(r)
      PROVE HandlersTypeOK'
  <2>1. PICK n \in 0..2 : NextCommand(r, n)
    BY <1>7 DEF SetEntry, SetUUID, PushIndex, CommandRefused
  <2>2. sent' \in [Requests -> 0..3] /\ UNCHANGED <<pc, e, attempt, prior>>
    BY <2>1 DEF NextCommand
  <2>3. refused' \in [Requests -> BOOLEAN]
    BY <1>7 DEF SetEntry, SetUUID, PushIndex, CommandRefused
  <2> QED
    BY <2>2, <2>3
<1>8. ASSUME NEW r \in Requests, PipelineLost(r)
      PROVE HandlersTypeOK'
  <2>1. e' = e /\ prior' = prior
    BY <1>8 DEF PipelineLost
  <2>2. attempt' \in [Requests -> 0..MaxRetries]
    BY <1>8, BoundsAssumption DEF PipelineLost
  <2>3. sent' \in [Requests -> 0..3]
    BY <1>8 DEF PipelineLost
  <2>4. refused' \in [Requests -> BOOLEAN]
    <3>1. refused' = [refused EXCEPT ![r] = FALSE] \/ refused' = refused
      BY <1>8 DEF PipelineLost
    <3> QED
      BY <3>1
  <2>5. pc' \in [Requests -> HandlerStates]
    BY <1>8 DEF PipelineLost, Goto
  <2> QED
    BY <2>1, <2>2, <2>3, <2>4, <2>5
<1>9. ASSUME NEW r \in Requests,
             PipelineRefused(r) \/ PipelineDone(r) \/ Respond(r)
      PROVE HandlersTypeOK'
  BY <1>9 DEF PipelineRefused, PipelineDone, Respond, Goto
<1>10. ASSUME NEW r \in Requests, Worker(r)
       PROVE HandlersTypeOK'
  BY <1>10 DEF Worker, QueueLeafOk, QueueLeafError, QueueLeafTimeout, Audited, handlers
<1>11. ASSUME NEW d \in Readers, Get(d)
       PROVE HandlersTypeOK'
  BY <1>11 DEF Get, ListBegin, GetBegin, ReadFails, ListGet, ListDone, GetEntry, handlers
<1>12. CASE Crash
  BY <1>12 DEF Crash
<1>13. CASE Tick \/ Quiescent \/ UNCHANGED vars
  BY <1>13 DEF Tick, Quiescent, vars, handlers
<1> QED
  BY <1>1, <1>2, <1>3, <1>4, <1>5, <1>6, <1>7, <1>8, <1>9, <1>10, <1>11, <1>12, <1>13
  DEF Next, Post, RedisStep

\* Reads, the clock and stuttering leave the handlers, Redis and the audit alone.
LEMMA Bystanders ==
    ASSUME (\E d \in Readers : Get(d)) \/ Tick \/ Quiescent \/ UNCHANGED vars
    PROVE  UNCHANGED <<redis, handlers, audit>>
BY DEF Get, ListBegin, GetBegin, ReadFails, ListGet, ListDone, GetEntry,
       Tick, Quiescent, vars

\* Every step leaves what Redis holds within its type.
LEMMA RedisTypeStep == IndInv /\ [Next]_vars => RedisTypeOK'
<1> SUFFICES ASSUME IndInv, [Next]_vars PROVE RedisTypeOK'
  OBVIOUS
<1> USE DEF IndInv, TypeOK, RedisTypeOK
<1>1. ASSUME NEW r \in Requests, Reject(r) \/ NewUUIDFails(r) \/ Accept(r)
                                 \/ Sign(r) \/ SignFails(r)
      PROVE RedisTypeOK'
  BY <1>1 DEF Reject, NewUUIDFails, Accept, Sign, SignFails, redis
<1>2. ASSUME NEW r \in Requests, Incr(r) \/ IncrLost(r)
      PROVE RedisTypeOK'
  BY <1>2 DEF Incr, IncrLost
<1>3. ASSUME NEW r \in Requests, pc[r] = "persist"
      PROVE e[r] \in Entry /\ e[r].log_index \in Nat /\ e[r].uuid \in Requests
            /\ e[r].artifact_hash \in Hashes
  BY <1>3 DEF HandlerInv, HandlerOK, Entry
<1>4. ASSUME NEW r \in Requests, SetEntry(r)
      PROVE RedisTypeOK'
  BY <1>3, <1>4 DEF SetEntry, NextCommand, Put
<1>5. ASSUME NEW r \in Requests, SetUUID(r)
      PROVE RedisTypeOK'
  BY <1>3, <1>5 DEF SetUUID, NextCommand, Put
<1>6. ASSUME NEW r \in Requests, PushIndex(r)
      PROVE RedisTypeOK'
  BY <1>3, <1>6 DEF PushIndex, NextCommand
<1>7. ASSUME NEW r \in Requests, CommandRefused(r)
      PROVE RedisTypeOK'
  BY <1>7 DEF CommandRefused, NextCommand
<1>8. ASSUME NEW r \in Requests, PipelineLost(r) \/ PipelineRefused(r)
                                 \/ PipelineDone(r) \/ Respond(r) \/ Worker(r)
      PROVE RedisTypeOK'
  BY <1>8 DEF PipelineLost, PipelineRefused, PipelineDone, Respond, Worker,
              QueueLeafOk, QueueLeafError, QueueLeafTimeout, Audited, redis
<1>9. CASE Crash
  BY <1>9 DEF Crash, redis
<1>10. CASE (\E d \in Readers : Get(d)) \/ Tick \/ Quiescent \/ UNCHANGED vars
  BY <1>10, Bystanders DEF redis
<1> QED
  BY <1>1, <1>2, <1>4, <1>5, <1>6, <1>7, <1>8, <1>9, <1>10 DEF Next, Post, RedisStep

\* Every step leaves the goroutines and Trillian's queue within their types.
LEMMA AuditTypeStep == IndInv /\ [Next]_vars => AuditTypeOK'
<1> SUFFICES ASSUME IndInv, [Next]_vars PROVE AuditTypeOK'
  OBVIOUS
<1> USE DEF IndInv, TypeOK, AuditTypeOK
<1>1. ASSUME NEW r \in Requests, Worker(r)
      PROVE AuditTypeOK'
  <2>1. leaves' \in {leaves, leaves \union {e[r]}} /\ worker[r] = "pending"
        /\ worker' = [worker EXCEPT ![r] = "ended"]
    BY <1>1 DEF Worker, QueueLeafOk, QueueLeafError, QueueLeafTimeout, Audited
  <2> QED
    BY <2>1 DEF HandlerInv, HandlerOK
<1>2. ASSUME NEW r \in Requests, PipelineDone(r)
      PROVE AuditTypeOK'
  BY <1>2 DEF PipelineDone
<1>3. ASSUME NEW r \in Requests, Post(r), ~PipelineDone(r)
      PROVE UNCHANGED audit
  BY <1>3 DEF Post, RedisStep, Reject, NewUUIDFails, Accept, Incr, IncrLost, Sign,
              SignFails, SetEntry, SetUUID, PushIndex, CommandRefused, NextCommand,
              PipelineLost, PipelineRefused, Respond
<1>4. CASE Crash
  BY <1>4 DEF Crash
<1>5. CASE (\E d \in Readers : Get(d)) \/ Tick \/ Quiescent \/ UNCHANGED vars
  BY <1>5, Bystanders DEF audit
<1> QED
  BY <1>1, <1>2, <1>3, <1>4, <1>5 DEF Next, audit

\* Every step leaves the readers' variables within their types.
LEMMA ReadersTypeStep == IndInv /\ [Next]_vars => ReadersTypeOK'
<1> SUFFICES ASSUME IndInv, [Next]_vars PROVE ReadersTypeOK'
  OBVIOUS
<1> USE DEF IndInv, TypeOK, ReadersTypeOK
<1>1. ASSUME NEW d \in Readers, NEW h \in Hashes, ListBegin(d, h)
      PROVE ReadersTypeOK'
  <2>1. \A c \in Readers : Range(got[c]) \subseteq Entry
    BY DEF Range
  <2>2. Due(h) \subseteq Requests
    BY <2>1 DEF Due, ReadBefore, Acknowledged, Entry
  <2> QED
    BY <1>1, <2>2 DEF ListBegin, RedisTypeOK
<1>2. ASSUME NEW d \in Readers, NEW u \in Requests, GetBegin(d, u)
      PROVE ReadersTypeOK'
  <2>1. u \in DOMAIN uuids => <<uuids[u]>> \in Seq(Nat)
    BY DEF RedisTypeOK
  <2> QED
    BY <1>2, <2>1 DEF GetBegin, Acknowledged
<1>3. ASSUME NEW d \in Readers, ReadFails(d) \/ ListDone(d)
      PROVE ReadersTypeOK'
  BY <1>3 DEF ReadFails, ListDone
<1>4. ASSUME NEW d \in Readers, ListGet(d)
      PROVE ReadersTypeOK'
  <2>1. todo' \in [Readers -> Seq(Nat)] /\ UNCHANGED <<rpc, query, known>>
    BY <1>4 DEF ListGet
  <2>2. CASE UNCHANGED got
    BY <2>1, <2>2
  <2>3. CASE ~UNCHANGED got
    <3>1. Head(todo[d]) \in DOMAIN entries
          /\ got' = [got EXCEPT ![d] = Append(@, entries[Head(todo[d])])]
      BY <1>4, <2>3 DEF ListGet
    <3>2. entries[Head(todo[d])] \in Entry
      BY <3>1 DEF RedisTypeOK
    <3>3. got' \in [Readers -> Seq(Entry)]
      BY <3>1, <3>2
    <3> QED
      BY <2>1, <3>3
  <2> QED
    BY <2>2, <2>3
<1>5. ASSUME NEW d \in Readers, GetEntry(d)
      PROVE ReadersTypeOK'
  <2>1. UNCHANGED <<query, todo, known>>
        /\ \E next \in {"found", "failed"} : rpc' = [rpc EXCEPT ![d] = next]
    BY <1>5 DEF GetEntry
  <2>2. CASE UNCHANGED got
    BY <2>1, <2>2
  <2>3. CASE ~UNCHANGED got
    <3>1. Head(todo[d]) \in DOMAIN entries
          /\ got' = [got EXCEPT ![d] = <<entries[Head(todo[d])]>>]
      BY <1>5, <2>3 DEF GetEntry
    <3>2. entries[Head(todo[d])] \in Entry
      BY <3>1 DEF RedisTypeOK
    <3>3. got' \in [Readers -> Seq(Entry)]
      BY <3>1, <3>2
    <3> QED
      BY <2>1, <3>3
  <2> QED
    BY <2>2, <2>3
<1>6. CASE Crash
  BY <1>6 DEF Crash
<1>7. ASSUME NEW r \in Requests, Post(r) \/ Worker(r)
      PROVE UNCHANGED readers
  BY <1>7 DEF Post, RedisStep, Reject, NewUUIDFails, Accept, Incr, IncrLost, Sign,
              SignFails, SetEntry, SetUUID, PushIndex, CommandRefused, NextCommand,
              PipelineLost, PipelineRefused, PipelineDone, Respond, Worker,
              QueueLeafOk, QueueLeafError, QueueLeafTimeout, Audited
<1>8. CASE Tick \/ Quiescent \/ UNCHANGED vars
  BY <1>8 DEF Tick, Quiescent, vars, readers
<1> QED
  BY <1>1, <1>2, <1>3, <1>4, <1>5, <1>6, <1>7, <1>8 DEF Next, Get, readers

\* The clock stays a number.
LEMMA ClockTypeStep == IndInv /\ [Next]_vars => clock' \in Nat
<1> SUFFICES ASSUME IndInv, [Next]_vars PROVE clock' \in Nat
  OBVIOUS
<1>1. clock \in Nat
  BY DEF IndInv, TypeOK
<1>2. ASSUME NEW r \in Requests, Post(r) \/ Worker(r)
      PROVE UNCHANGED clock
  BY <1>2 DEF Post, RedisStep, Reject, NewUUIDFails, Accept, Incr, IncrLost, Sign,
              SignFails, SetEntry, SetUUID, PushIndex, CommandRefused, NextCommand,
              PipelineLost, PipelineRefused, PipelineDone, Respond, Worker,
              QueueLeafOk, QueueLeafError, QueueLeafTimeout, Audited
<1>3. ASSUME NEW d \in Readers, Get(d)
      PROVE UNCHANGED clock
  BY <1>3 DEF Get, ListBegin, GetBegin, ReadFails, ListGet, ListDone, GetEntry
<1>4. CASE Crash \/ Quiescent \/ UNCHANGED vars
  BY <1>1, <1>4 DEF Crash, Quiescent, vars
<1>5. CASE Tick
  BY <1>1, <1>5 DEF Tick
<1> QED
  BY <1>1, <1>2, <1>3, <1>4, <1>5 DEF Next

\* Type correctness is preserved.
LEMMA TypeStep == IndInv /\ [Next]_vars => TypeOK'
BY HandlersTypeStep, RedisTypeStep, AuditTypeStep, ReadersTypeStep, ClockTypeStep
DEF TypeOK

-----------------------------------------------------------------------------
\* A handler's step leaves the other handlers as they were.
LEMMA OwnStep ==
    ASSUME HandlersTypeOK, AuditTypeOK, NEW r \in Requests, Post(r), NEW q \in Requests \ {r}
    PROVE  /\ pc'[q] = pc[q] /\ e'[q] = e[q]
           /\ sent'[q] = sent[q] /\ refused'[q] = refused[q]
           /\ worker'[q] = worker[q]
<1> USE DEF HandlersTypeOK, AuditTypeOK
<1>1. ASSUME Reject(r) \/ NewUUIDFails(r) \/ Accept(r) \/ Incr(r) \/ IncrLost(r)
             \/ Sign(r) \/ SignFails(r)
      PROVE  /\ pc'[q] = pc[q] /\ e'[q] = e[q] /\ UNCHANGED <<sent, refused, worker>>
  <2>1. UNCHANGED <<sent, refused, worker>>
    BY <1>1 DEF Reject, NewUUIDFails, Accept, Incr, IncrLost, Sign, SignFails, audit
  <2>2. pc'[q] = pc[q]
    BY <1>1 DEF Reject, NewUUIDFails, Accept, Incr, IncrLost, Sign, SignFails, Goto
  <2>3. e'[q] = e[q]
    BY <1>1 DEF Reject, NewUUIDFails, Accept, Incr, IncrLost, Sign, SignFails
  <2> QED
    BY <2>1, <2>2, <2>3
<1>2. ASSUME SetEntry(r) \/ SetUUID(r) \/ PushIndex(r) \/ CommandRefused(r)
      PROVE  /\ UNCHANGED <<pc, e, worker>> /\ sent'[q] = sent[q] /\ refused'[q] = refused[q]
  BY <1>2 DEF SetEntry, SetUUID, PushIndex, CommandRefused, NextCommand, audit
<1>3. ASSUME PipelineLost(r)
      PROVE  /\ UNCHANGED <<e, worker>> /\ pc'[q] = pc[q]
             /\ sent'[q] = sent[q] /\ refused'[q] = refused[q]
  BY <1>3 DEF PipelineLost, Goto, audit
<1>4. ASSUME PipelineRefused(r) \/ PipelineDone(r) \/ Respond(r)
      PROVE  /\ UNCHANGED <<e, sent, refused>> /\ pc'[q] = pc[q] /\ worker'[q] = worker[q]
  BY <1>4 DEF PipelineRefused, PipelineDone, Respond, Goto, audit
<1> QED
  BY <1>1, <1>2, <1>3, <1>4 DEF Post, RedisStep

\* What each handler's Entry holds is settled by the handler's own steps.
LEMMA HandlerStep == IndInv /\ [Next]_vars => HandlerInv'
<1> SUFFICES ASSUME IndInv, [Next]_vars, NEW q \in Requests PROVE HandlerOK(q)'
  BY DEF HandlerInv
<1> USE DEF IndInv, TypeOK, HandlersTypeOK, AuditTypeOK
<1>0. HandlerOK(q) /\ HandlersTypeOK'
  BY HandlersTypeStep DEF HandlerInv
<1>1. ASSUME NEW r \in Requests \ {q}, Post(r)
      PROVE HandlerOK(q)'
  BY <1>0, <1>1, OwnStep DEF HandlerOK
<1>2. CASE Reject(q) \/ NewUUIDFails(q) \/ SignFails(q) \/ IncrLost(q)
           \/ PipelineLost(q) \/ PipelineRefused(q) \/ Respond(q)
  <2>1. UNCHANGED <<e, worker>>
    BY <1>2 DEF Reject, NewUUIDFails, SignFails, IncrLost, PipelineLost,
                PipelineRefused, Respond, audit
  <2>2. \/ pc'[q] = pc[q]
        \/ pc'[q] = "failed" /\ worker[q] # "pending"
        \/ pc'[q] = "rejected" /\ pc[q] = "idle"
        \/ pc'[q] = "created" /\ pc[q] = "respond"
    BY <1>0, <1>2 DEF Reject, NewUUIDFails, SignFails, IncrLost, PipelineLost,
                PipelineRefused, Respond, Goto, HandlerOK
  <2> QED
    BY <1>0, <2>1, <2>2 DEF HandlerOK, Payload
<1>3. CASE Accept(q)
  <2>1. PICK b \in Bodies : e'[q] = NewEntry(q, b)
    BY <1>3 DEF Accept
  <2>2. pc[q] = "idle" /\ pc'[q] = "incr" /\ worker' = worker
    BY <1>3 DEF Accept, Goto, audit
  <2>3. e'[q] \in Entry /\ e'[q].log_index = Unassigned /\ e'[q].uuid = q
    BY <2>1, NewEntryType
  <2> QED
    BY <1>0, <2>2, <2>3 DEF HandlerOK
<1>4. CASE Incr(q)
  <2>1. e'[q] = [e[q] EXCEPT !.log_index = counter] /\ counter \in Nat
    <3>1. e'[q] = [e[q] EXCEPT !.log_index = counter' - 1]
      BY <1>4 DEF Incr
    <3>2. counter' - 1 = counter /\ counter \in Nat
      BY <1>4 DEF Incr, RedisTypeOK
    <3> QED
      BY <3>1, <3>2
  <2>2. pc[q] = "incr" /\ pc'[q] = "sign" /\ worker' = worker
    BY <1>4 DEF Incr, Goto, audit
  <2>3. e[q] \in Entry /\ e[q].uuid = q
    BY <1>0, <2>2, NoEntryAssumption DEF HandlerOK
  <2>4. e'[q] \in Entry /\ e'[q].log_index = counter /\ e'[q].uuid = q
    BY <2>1, <2>3 DEF Entry
  <2> QED
    BY <1>0, <2>1, <2>2, <2>4 DEF HandlerOK
<1>5. CASE Sign(q)
  <2>1. e'[q] = [e[q] EXCEPT !.server_signature = Payload(e[q])]
    BY <1>5 DEF Sign
  <2>2. pc[q] = "sign" /\ pc'[q] = "persist" /\ worker' = worker
    BY <1>5 DEF Sign, Goto, audit
  <2>3. e[q] \in Entry /\ e[q].log_index \in Nat /\ e[q].uuid = q
    BY <1>0, <2>2, NoEntryAssumption DEF HandlerOK
  <2>4. e'[q] \in Entry /\ e'[q].log_index \in Nat /\ e'[q].uuid = q
    BY <2>1, <2>3, PayloadType DEF Entry
  <2>5. e'[q].server_signature = Payload(e'[q])
    BY <2>1, <2>3 DEF Entry, Payload
  <2>6. Payload(e'[q]) = Payload(e[q])'
    BY DEF Payload
  <2> QED
    BY <1>0, <2>2, <2>4, <2>5, <2>6 DEF HandlerOK
<1>6. CASE SetEntry(q) \/ SetUUID(q) \/ PushIndex(q) \/ CommandRefused(q)
  BY <1>0, <1>6 DEF SetEntry, SetUUID, PushIndex, CommandRefused, NextCommand,
                    HandlerOK, Payload, audit
<1>7. CASE PipelineDone(q)
  BY <1>0, <1>7 DEF PipelineDone, Goto, HandlerOK, Payload
<1>8. ASSUME NEW r \in Requests, Worker(r)
      PROVE HandlerOK(q)'
  <2>1. UNCHANGED <<pc, e>> /\ (worker'[q] = worker[q] \/ worker'[q] = "ended")
    BY <1>8 DEF Worker, QueueLeafOk, QueueLeafError, QueueLeafTimeout, Audited,
                handlers
  <2> QED
    BY <1>0, <2>1 DEF HandlerOK, Payload
<1>9. CASE Crash
  <2>1. e' = e /\ (pc'[q] = pc[q] \/ pc'[q] = "crashed")
        /\ worker'[q] # "pending"
    BY <1>9 DEF Crash
  <2> QED
    BY <1>0, <2>1 DEF HandlerOK, Payload
<1>10. CASE (\E d \in Readers : Get(d)) \/ Tick \/ Quiescent \/ UNCHANGED vars
  BY <1>0, <1>10, Bystanders DEF handlers, audit, HandlerOK, Payload
<1> QED
  BY <1>1, <1>2, <1>3, <1>4, <1>5, <1>6, <1>7, <1>8, <1>9, <1>10 DEF Next, Post, RedisStep

-----------------------------------------------------------------------------
\* An Entry changes only in createEntry, at INCR and when it is signed.
LEMMA EntryStep ==
    ASSUME IndInv, [Next]_vars, NEW q \in Requests
    PROVE  \/ e'[q] = e[q]
           \/ Accept(q) /\ pc[q] = "idle" /\ e'[q].log_index = Unassigned
           \/ Incr(q) /\ pc[q] = "incr" /\ e'[q].log_index = counter
           \/ Sign(q) /\ pc[q] = "sign" /\ e'[q].log_index = e[q].log_index
<1> USE DEF IndInv, TypeOK
<1>1. ASSUME NEW r \in Requests \ {q}, Post(r)
      PROVE e'[q] = e[q]
  BY <1>1, OwnStep
<1>2. CASE Reject(q) \/ NewUUIDFails(q) \/ SignFails(q) \/ IncrLost(q) \/ SetEntry(q)
           \/ SetUUID(q) \/ PushIndex(q) \/ CommandRefused(q) \/ PipelineLost(q)
           \/ PipelineRefused(q) \/ PipelineDone(q) \/ Respond(q)
  BY <1>2 DEF Reject, NewUUIDFails, SignFails, IncrLost, SetEntry, SetUUID, PushIndex,
              CommandRefused, NextCommand, PipelineLost, PipelineRefused,
              PipelineDone, Respond
<1>3. CASE Accept(q)
  <2>1. PICK b \in Bodies : e'[q] = NewEntry(q, b)
    BY <1>3 DEF Accept, HandlersTypeOK
  <2> QED
    BY <1>3, <2>1, NewEntryType DEF Accept
<1>4. CASE Incr(q)
  <2>1. pc[q] = "incr" /\ e[q] \in Entry
    BY <1>4 DEF Incr, HandlerInv, HandlerOK
  <2>2. e'[q] = [e[q] EXCEPT !.log_index = counter' - 1]
    BY <1>4 DEF Incr, HandlersTypeOK
  <2>3. counter' - 1 = counter
    BY <1>4 DEF Incr, RedisTypeOK
  <2> QED
    BY <1>4, <2>1, <2>2, <2>3 DEF Entry
<1>5. CASE Sign(q)
  <2>1. pc[q] = "sign" /\ e[q] \in Entry
    BY <1>5 DEF Sign, HandlerInv, HandlerOK
  <2>2. e'[q] = [e[q] EXCEPT !.server_signature = Payload(e[q])]
    BY <1>5 DEF Sign, HandlersTypeOK
  <2> QED
    BY <1>5, <2>1, <2>2 DEF Entry
<1>6. ASSUME NEW r \in Requests, Worker(r)
      PROVE e'[q] = e[q]
  BY <1>6 DEF Worker, QueueLeafOk, QueueLeafError, QueueLeafTimeout, Audited, handlers
<1>7. CASE Crash
  BY <1>7 DEF Crash
<1>8. CASE (\E d \in Readers : Get(d)) \/ Tick \/ Quiescent \/ UNCHANGED vars
  BY <1>8, Bystanders DEF handlers
<1> QED
  BY <1>1, <1>2, <1>3, <1>4, <1>5, <1>6, <1>7, <1>8 DEF Next, Post, RedisStep

\* Redis's counter never goes back.
LEMMA CounterGrows == IndInv /\ [Next]_vars => counter' \in Nat /\ counter <= counter'
<1> SUFFICES ASSUME IndInv, [Next]_vars PROVE counter' \in Nat /\ counter <= counter'
  OBVIOUS
<1>0. counter \in Nat
  BY DEF IndInv, TypeOK, RedisTypeOK
<1>1. ASSUME NEW r \in Requests, Incr(r) \/ IncrLost(r)
      PROVE counter' \in Nat /\ counter <= counter'
  BY <1>0, <1>1 DEF Incr, IncrLost
<1>2. ASSUME NEW r \in Requests, Post(r) \/ Worker(r), ~Incr(r), ~IncrLost(r)
      PROVE UNCHANGED counter
  BY <1>2 DEF Post, RedisStep, Reject, NewUUIDFails, Accept, Sign,
              SignFails, SetEntry, SetUUID, PushIndex, CommandRefused, NextCommand,
              PipelineLost, PipelineRefused, PipelineDone, Respond, Worker,
              QueueLeafOk, QueueLeafError, QueueLeafTimeout, Audited, redis
<1>3. CASE Crash
  BY <1>0, <1>3 DEF Crash, redis
<1>4. CASE (\E d \in Readers : Get(d)) \/ Tick \/ Quiescent \/ UNCHANGED vars
  BY <1>0, <1>4, Bystanders DEF redis
<1> QED
  BY <1>0, <1>1, <1>2, <1>3, <1>4 DEF Next

\* A number is either the one the request had, or the counter's, fresh from INCR.
LEMMA NumberStep ==
    ASSUME IndInv, [Next]_vars, NEW q \in Requests, (q \in Numbered)'
    PROVE  \/ q \in Numbered /\ e'[q].log_index = e[q].log_index
           \/ Incr(q) /\ e'[q].log_index = counter
BY EntryStep, NoEntryAssumption
DEF IndInv, HandlerInv, HandlerOK, Numbered, Unassigned

\* The counter stays ahead of every number given out.
LEMMA CounterStep == IndInv /\ [Next]_vars => CounterInv'
<1> SUFFICES ASSUME IndInv, [Next]_vars, NEW q \in Requests, (q \in Numbered)'
             PROVE  e'[q].log_index < counter'
  BY DEF CounterInv, Numbered
<1>1. counter \in Nat /\ counter' \in Nat /\ counter <= counter'
  BY CounterGrows DEF IndInv, TypeOK, RedisTypeOK
<1>2. CASE q \in Numbered /\ e'[q].log_index = e[q].log_index
  <2>1. e[q].log_index < counter /\ e[q].log_index \in Int
    BY <1>2 DEF IndInv, CounterInv, TypeOK, HandlersTypeOK, Numbered, Entry, Unassigned
  <2> QED
    BY <1>1, <1>2, <2>1
<1>3. CASE Incr(q) /\ e'[q].log_index = counter
  BY <1>1, <1>3 DEF Incr
<1> QED
  BY <1>2, <1>3, NumberStep

\* A number that INCR gives out has been given to nobody else.
LEMMA UniqueStep == IndInv /\ [Next]_vars => UniqueIndex'
<1> SUFFICES ASSUME IndInv, [Next]_vars,
                    NEW q \in Requests, (q \in Numbered)',
                    NEW p \in Requests, (p \in Numbered)', p # q
             PROVE  e'[p].log_index # e'[q].log_index
  BY DEF UniqueIndex, Numbered
<1>0. ASSUME NEW x \in Numbered
      PROVE e[x].log_index \in Int /\ e[x].log_index < counter /\ counter \in Int
  BY <1>0 DEF IndInv, CounterInv, TypeOK, HandlersTypeOK, RedisTypeOK, Numbered, Entry,
              Unassigned
<1>1. ~(Incr(p) /\ Incr(q))
  <2> SUFFICES ASSUME Incr(p), Incr(q) PROVE FALSE
    OBVIOUS
  <2>1. pc'[q] = pc[q]
    BY OwnStep DEF IndInv, TypeOK, Post, RedisStep
  <2> QED
    BY <2>1 DEF Incr, Goto, IndInv, TypeOK, HandlersTypeOK
<1>2. CASE p \in Numbered /\ e'[p].log_index = e[p].log_index
           /\ q \in Numbered /\ e'[q].log_index = e[q].log_index
  BY <1>2 DEF IndInv, UniqueIndex
<1>3. CASE e'[p].log_index = counter
           /\ q \in Numbered /\ e'[q].log_index = e[q].log_index
  BY <1>0, <1>3
<1>4. CASE e'[q].log_index = counter
           /\ p \in Numbered /\ e'[p].log_index = e[p].log_index
  BY <1>0, <1>4
<1>5. \/ p \in Numbered /\ e'[p].log_index = e[p].log_index
      \/ Incr(p) /\ e'[p].log_index = counter
  BY NumberStep
<1>6. \/ q \in Numbered /\ e'[q].log_index = e[q].log_index
      \/ Incr(q) /\ e'[q].log_index = counter
  BY NumberStep
<1> QED
  BY <1>1, <1>2, <1>3, <1>4, <1>5, <1>6, Zenon

\* No handler goes back to an earlier call than the pipeline, and its Entry is settled.
LEMMA PastStays ==
    ASSUME IndInv, [Next]_vars, NEW r \in Requests, pc[r] \notin {"idle", "incr", "sign"}
    PROVE  pc'[r] \notin {"idle", "incr", "sign"} /\ e'[r] = e[r]
<1>1. e'[r] = e[r]
  BY EntryStep
<1>2. ASSUME NEW q \in Requests, Post(q)
      PROVE pc'[r] \notin {"idle", "incr", "sign"}
  <2>1. CASE q # r
    BY <1>2, <2>1, OwnStep DEF IndInv, TypeOK
  <2>2. CASE q = r
    BY <1>2, <2>2
    DEF Post, RedisStep, Reject, NewUUIDFails, Accept, Incr, IncrLost, Sign, SignFails,
        SetEntry, SetUUID, PushIndex, CommandRefused, NextCommand, PipelineLost,
        PipelineRefused, PipelineDone, Respond, Goto, IndInv, TypeOK, HandlersTypeOK
  <2> QED
    BY <2>1, <2>2
<1>3. ASSUME NEW q \in Requests, Worker(q)
      PROVE pc' = pc
  BY <1>3 DEF Worker, QueueLeafOk, QueueLeafError, QueueLeafTimeout, Audited, handlers
<1>4. CASE Crash
  BY <1>4 DEF Crash
<1>5. CASE (\E d \in Readers : Get(d)) \/ Tick \/ Quiescent \/ UNCHANGED vars
  BY <1>5, Bystanders DEF handlers
<1> QED
  BY <1>1, <1>2, <1>3, <1>4, <1>5 DEF Next

\* Only SetEntry changes what is stored.
LEMMA StoreStep == IndInv /\ [Next]_vars => StoreInv'
<1> SUFFICES ASSUME IndInv, [Next]_vars, NEW n \in DOMAIN entries'
             PROVE  LET r == entries'[n].uuid IN
                    /\ r \in Numbered' /\ pc'[r] \notin {"idle", "incr", "sign"}
                    /\ entries'[n] = e'[r] /\ e'[r].log_index = n
  BY DEF StoreInv
<1>1. CASE n \in DOMAIN entries /\ entries'[n] = entries[n]
  <2> DEFINE r == entries[n].uuid
  <2>1. r \in Numbered /\ pc[r] \notin {"idle", "incr", "sign"}
        /\ entries[n] = e[r] /\ e[r].log_index = n
    BY <1>1 DEF IndInv, StoreInv, Numbered
  <2>2. e'[r] = e[r] /\ pc'[r] \notin {"idle", "incr", "sign"}
    BY <2>1, PastStays DEF Numbered
  <2> QED
    BY <1>1, <2>1, <2>2 DEF Numbered
<1>2. CASE \E r \in Requests : SetEntry(r) /\ n = e[r].log_index /\ entries'[n] = e[r]
  <2>1. PICK r \in Requests : SetEntry(r) /\ n = e[r].log_index /\ entries'[n] = e[r]
    BY <1>2
  <2>2. pc[r] = "persist" /\ pc' = pc /\ e' = e
    BY <2>1 DEF SetEntry, NextCommand
  <2>3. e[r] \in Entry /\ e[r].log_index \in Nat /\ e[r].uuid = r
    BY <2>2, NoEntryAssumption DEF IndInv, HandlerInv, HandlerOK
  <2>4. r \in Numbered'
    BY <2>2, <2>3, NoEntryAssumption DEF Numbered, Unassigned
  <2> QED
    BY <2>1, <2>2, <2>3, <2>4
<1>3. \/ n \in DOMAIN entries /\ entries'[n] = entries[n]
      \/ \E r \in Requests : SetEntry(r) /\ n = e[r].log_index /\ entries'[n] = e[r]
  <2>1. ASSUME NEW r \in Requests, SetEntry(r)
        PROVE \/ n \in DOMAIN entries /\ entries'[n] = entries[n]
              \/ n = e[r].log_index /\ entries'[n] = e[r]
    BY <2>1 DEF SetEntry, Put
  <2>2. ASSUME NEW r \in Requests, Post(r) \/ Worker(r), ~SetEntry(r)
        PROVE entries' = entries
    BY <2>2 DEF Post, RedisStep, Reject, NewUUIDFails, Accept, Incr, IncrLost, Sign,
                SignFails, SetUUID, PushIndex, CommandRefused, NextCommand,
                PipelineLost, PipelineRefused, PipelineDone, Respond, Worker,
                QueueLeafOk, QueueLeafError, QueueLeafTimeout, Audited, redis
  <2>3. CASE Crash
    BY <2>3 DEF Crash, redis
  <2>4. CASE (\E d \in Readers : Get(d)) \/ Tick \/ Quiescent \/ UNCHANGED vars
    BY <2>4, Bystanders DEF redis
  <2> QED
    BY <2>1, <2>2, <2>3, <2>4 DEF Next
<1> QED
  BY <1>1, <1>2, <1>3

-----------------------------------------------------------------------------
\* LPUSH keeps what a list has and adds the number pushed.
LEMMA RangePush ==
    ASSUME NEW n \in Nat, NEW l \in Seq(Nat)
    PROVE  Range(<<n>> \o l) = {n} \union Range(l)
<1>1. <<n>> \in Seq(Nat) /\ Range(<<n>>) = {n}
  <2>1. <<n>> \in Seq(Nat) /\ Len(<<n>>) = 1 /\ <<n>>[1] = n
    OBVIOUS
  <2>2. Range(<<n>>) = {<<n>>[i] : i \in 1..Len(<<n>>)}
    BY <2>1, RangeEquality
  <2> QED
    BY <2>1, <2>2
<1>2. \A s, t \in Seq(Nat) : Range(s \o t) = Range(s) \union Range(t)
  BY RangeConcatenation
<1> QED
  BY <1>1, <1>2, Zenon

\* Once signed, an Entry keeps every trace it has left in Redis: no other handler
\* writes under its number or its uuid, and lists only grow.
LEMMA TracesStay ==
    ASSUME IndInv, [Next]_vars, NEW q \in Requests,
           pc[q] \in {"persist", "respond", "created"}
    PROVE  /\ e'[q] = e[q]
           /\ Stored(q) => Stored(q)'
           /\ Mapped(q) => Mapped(q)'
           /\ Listed(q) => Listed(q)'
<1> USE DEF Stored, Mapped, Listed
<1>1. e'[q] = e[q]
  BY EntryStep
<1>2. ASSUME NEW r \in Requests, pc[r] \in {"persist", "respond", "created"}
      PROVE  /\ r \in Numbered /\ e[r].uuid = r /\ e[r].log_index \in Nat
             /\ e[r].artifact_hash \in Hashes
  BY <1>2, NoEntryAssumption DEF IndInv, HandlerInv, HandlerOK, Numbered, Unassigned, Entry
<1>3. ASSUME NEW r \in Requests, SetEntry(r)
      PROVE  Stored(q) => Stored(q)'
  <2>1. pc[r] = "persist" /\ entries' = Put(entries, e[r].log_index, e[r])
    BY <1>3 DEF SetEntry, NextCommand
  <2>2. e[r].log_index = e[q].log_index => r = q
    BY <1>2, <2>1 DEF IndInv, UniqueIndex
  <2> QED
    BY <1>1, <2>1, <2>2 DEF Put
<1>4. ASSUME NEW r \in Requests, SetUUID(r)
      PROVE  Mapped(q) => Mapped(q)'
  <2>1. pc[r] = "persist" /\ uuids' = Put(uuids, e[r].uuid, e[r].log_index)
    BY <1>4 DEF SetUUID, NextCommand
  <2> QED
    BY <1>1, <1>2, <2>1 DEF Put
<1>5. ASSUME NEW r \in Requests, PushIndex(r)
      PROVE  Listed(q) => Listed(q)'
  <2> DEFINE h == e[r].artifact_hash
  <2>1. pc[r] = "persist"
        /\ lists' = [lists EXCEPT ![h] = <<e[r].log_index>> \o lists[h]]
    BY <1>5 DEF PushIndex, NextCommand
  <2>2. lists \in [Hashes -> Seq(Nat)] /\ h \in Hashes /\ e[r].log_index \in Nat
    BY <1>2, <2>1 DEF IndInv, TypeOK, RedisTypeOK
  <2>3. lists'[h] = <<e[r].log_index>> \o lists[h]
    BY <2>1, <2>2
  <2>4. Range(lists[h]) \subseteq Range(lists'[h])
    BY <2>2, <2>3, RangePush
  <2>5. e[q].artifact_hash # h => lists'[e[q].artifact_hash] = lists[e[q].artifact_hash]
    BY <1>2, <2>1, <2>2
  <2> QED
    BY <1>1, <2>4, <2>5
<1>6. ASSUME NEW r \in Requests, Post(r)
      PROVE  /\ ~SetEntry(r) => entries' = entries
             /\ ~SetUUID(r) => uuids' = uuids
             /\ ~PushIndex(r) => lists' = lists
  <2>1. CASE SetEntry(r) \/ SetUUID(r) \/ PushIndex(r) \/ CommandRefused(r)
    BY <2>1 DEF SetEntry, SetUUID, PushIndex, CommandRefused, NextCommand
  <2>2. CASE ~(SetEntry(r) \/ SetUUID(r) \/ PushIndex(r) \/ CommandRefused(r))
    BY <1>6, <2>2
    DEF Post, RedisStep, Reject, NewUUIDFails, Accept, Incr, IncrLost, Sign, SignFails,
        PipelineLost, PipelineRefused, PipelineDone, Respond, redis
  <2> QED
    BY <2>1, <2>2
<1>7. ASSUME NEW r \in Requests, Worker(r)
      PROVE  UNCHANGED <<entries, uuids, lists>>
  BY <1>7 DEF Worker, QueueLeafOk, QueueLeafError, QueueLeafTimeout, Audited, redis
<1>8. CASE Crash
  BY <1>1, <1>8 DEF Crash, redis
<1>9. CASE (\E d \in Readers : Get(d)) \/ Tick \/ Quiescent \/ UNCHANGED vars
  BY <1>1, <1>9, Bystanders DEF redis
<1> QED
  BY <1>1, <1>3, <1>4, <1>5, <1>6, <1>7, <1>8, <1>9 DEF Next

\* What a handler concludes from Redis's answers stays true, whatever others write.
LEMMA PipelineStep == IndInv /\ [Next]_vars => PipelineInv'
<1> SUFFICES ASSUME IndInv, [Next]_vars, NEW q \in Requests PROVE PipelineOK(q)'
  BY DEF PipelineInv
<1> USE DEF IndInv, TypeOK, HandlersTypeOK
<1>0. PipelineOK(q) /\ HandlersTypeOK'
  BY HandlersTypeStep DEF PipelineInv
<1>1. pc[q] \in {"persist", "respond", "created"} =>
          /\ e'[q] = e[q] /\ (Stored(q) => Stored(q)')
          /\ (Mapped(q) => Mapped(q)') /\ (Listed(q) => Listed(q)')
  BY TracesStay
<1>2. CASE /\ sent'[q] = sent[q] /\ refused'[q] = refused[q]
           /\ \/ pc'[q] = pc[q]
              \/ pc'[q] \in {"rejected", "failed", "crashed"}
              \/ pc[q] \in {"idle", "incr"} /\ pc'[q] \in {"incr", "sign"}
  BY <1>0, <1>1, <1>2 DEF PipelineOK
<1>3. ASSUME NEW r \in Requests \ {q}, Post(r)
      PROVE PipelineOK(q)'
  BY <1>2, <1>3, OwnStep
<1>4. CASE Reject(q) \/ NewUUIDFails(q) \/ Accept(q) \/ Incr(q) \/ IncrLost(q)
           \/ SignFails(q) \/ PipelineRefused(q)
  <2>1. UNCHANGED <<sent, refused>>
    BY <1>4 DEF Reject, NewUUIDFails, Accept, Incr, IncrLost, SignFails, PipelineRefused
  <2>2. \/ pc'[q] = pc[q]
        \/ pc'[q] \in {"rejected", "failed", "crashed"}
        \/ pc[q] \in {"idle", "incr"} /\ pc'[q] \in {"incr", "sign"}
    BY <1>4 DEF Reject, NewUUIDFails, Accept, Incr, IncrLost, SignFails,
                PipelineRefused, Goto
  <2> QED
    BY <1>2, <2>1, <2>2
<1>5. CASE Sign(q)
  <2>1. pc[q] = "sign" /\ pc'[q] = "persist" /\ sent'[q] = sent[q]
    BY <1>5 DEF Sign, Goto
  <2> QED
    BY <1>0, <2>1 DEF PipelineOK
<1>6. CASE CommandRefused(q)
  <2>1. refused'[q] = TRUE /\ pc[q] = "persist" /\ pc' = pc
    BY <1>6 DEF CommandRefused, NextCommand
  <2> QED
    BY <2>1 DEF PipelineOK
<1>7. ASSUME pc[q] = "persist", pc' = pc, refused' = refused, sent'[q] = sent[q] + 1,
             sent[q] = 0 => Stored(q)', sent[q] = 1 => Mapped(q)', sent[q] = 2 => Listed(q)'
      PROVE PipelineOK(q)'
  BY <1>0, <1>1, <1>7 DEF PipelineOK
<1>8. pc[q] = "persist" =>
          e[q].uuid = q /\ e[q].log_index \in Nat /\ e[q].artifact_hash \in Hashes
  BY NoEntryAssumption DEF HandlerInv, HandlerOK, Entry
<1>9. CASE SetEntry(q)
  <2>1. /\ pc[q] = "persist" /\ pc' = pc /\ refused' = refused
        /\ sent[q] = 0 /\ sent'[q] = sent[q] + 1
        /\ e' = e /\ entries' = Put(entries, e[q].log_index, e[q])
    BY <1>9 DEF SetEntry, NextCommand
  <2>2. Stored(q)'
    BY <2>1 DEF Put, Stored
  <2> QED
    BY <1>7, <2>1, <2>2
<1>10. CASE SetUUID(q)
  <2>1. /\ pc[q] = "persist" /\ pc' = pc /\ refused' = refused
        /\ sent[q] = 1 /\ sent'[q] = sent[q] + 1
        /\ e' = e /\ uuids' = Put(uuids, e[q].uuid, e[q].log_index)
    BY <1>10 DEF SetUUID, NextCommand
  <2>2. Mapped(q)'
    BY <1>8, <2>1 DEF Put, Mapped
  <2> QED
    BY <1>7, <2>1, <2>2
<1>11. CASE PushIndex(q)
  <2> DEFINE h == e[q].artifact_hash
  <2>1. /\ pc[q] = "persist" /\ pc' = pc /\ refused' = refused
        /\ sent[q] = 2 /\ sent'[q] = sent[q] + 1
        /\ e' = e /\ lists' = [lists EXCEPT ![h] = <<e[q].log_index>> \o lists[h]]
    BY <1>11 DEF PushIndex, NextCommand
  <2>2. lists \in [Hashes -> Seq(Nat)] /\ h \in Hashes /\ e[q].log_index \in Nat
    BY <1>8, <2>1 DEF RedisTypeOK
  <2>3. e[q].log_index \in Range(lists'[h])
    BY <2>1, <2>2, RangePush
  <2>4. Listed(q)'
    BY <2>1, <2>3 DEF Listed
  <2> QED
    BY <1>7, <2>1, <2>4
<1>12. CASE PipelineLost(q)
  <2>1. pc[q] = "persist"
        /\ \/ sent'[q] = 0 /\ pc'[q] = "persist"
           \/ pc'[q] = "failed"
    BY <1>12 DEF PipelineLost, Goto
  <2> QED
    BY <2>1 DEF PipelineOK
<1>13. CASE PipelineDone(q)
  <2>1. pc[q] = "persist" /\ sent[q] = 3 /\ ~refused[q] /\ pc'[q] = "respond"
    BY <1>13 DEF PipelineDone, Goto
  <2> QED
    BY <1>0, <1>1, <2>1 DEF PipelineOK
<1>14. CASE Respond(q)
  <2>1. pc[q] = "respond" /\ pc'[q] = "created"
    BY <1>14 DEF Respond, Goto
  <2> QED
    BY <1>0, <1>1, <2>1 DEF PipelineOK
<1>15. ASSUME NEW r \in Requests, Worker(r)
       PROVE PipelineOK(q)'
  BY <1>2, <1>15 DEF Worker, QueueLeafOk, QueueLeafError, QueueLeafTimeout, Audited, handlers
<1>16. CASE Crash
  BY <1>2, <1>16 DEF Crash
<1>17. CASE (\E d \in Readers : Get(d)) \/ Tick \/ Quiescent \/ UNCHANGED vars
  BY <1>2, <1>17, Bystanders DEF handlers
<1> QED
  BY <1>3, <1>4, <1>5, <1>6, <1>9, <1>10, <1>11, <1>12, <1>13, <1>14, <1>15, <1>16, <1>17
  DEF Next, Post, RedisStep

-----------------------------------------------------------------------------
\* IndInv holds in every reachable state: it is inductive.
THEOREM Inductive == Spec => []IndInv
<1>1. IndInv /\ [Next]_vars => IndInv'
  BY TypeStep, HandlerStep, CounterStep, UniqueStep, StoreStep, PipelineStep DEF IndInv
<1> QED
  BY InitEstablishes, <1>1, PTL DEF Spec

\* The variables keep their types, for any number of requests and readers.
THEOREM TypeCorrect == Spec => []TypeOK
<1>1. IndInv => TypeOK
  BY DEF IndInv
<1> QED
  BY <1>1, Inductive, PTL

\* No log_index is given out twice, whatever is lost, retried or abandoned.
THEOREM IndexesAreUnique == Spec => []UniqueIndex
<1>1. IndInv => UniqueIndex
  BY DEF IndInv
<1> QED
  BY <1>1, Inductive, PTL

\* A 201 is a receipt for an entry that can be read back, as it was answered, by its
\* number, its uuid and its hash, and that the server's signature covers.
THEOREM ReceiptsAreDurable == Spec => []AckedDurable
<1>1. IndInv => AckedDurable
  BY DEF IndInv, AckedDurable, Acknowledged, PipelineInv, PipelineOK, HandlerInv, HandlerOK
<1> QED
  BY <1>1, Inductive, PTL

-----------------------------------------------------------------------------
\* At most one entry can be published under a request's number or uuid: its own.
LEMMA PublishedIsOwn ==
    ASSUME IndInv, NEW x \in Published
    PROVE  x.uuid \in Numbered /\ x = e[x.uuid]
BY DEF IndInv, StoreInv, Published, Range

\* A step publishes at most one entry, one with a new number and a new uuid,
\* and withdraws none.
LEMMA PublishStep ==
    ASSUME IndInv, NEW r \in Requests,
           r \in Numbered, e[r] \in Entry, e[r].uuid = r,
           Published \subseteq Published', Published' \subseteq Published \union {e[r]},
           UNCHANGED Acknowledged
    PROVE  [Log!Next]_Log!vars
<1>1. CASE e[r] \in Published
  BY <1>1 DEF Log!vars
<1>2. CASE e[r] \notin Published'
  BY <1>2 DEF Log!vars
<1>3. CASE e[r] \in Published' \ Published
  <2>1. Published' = Published \union {e[r]}
    BY <1>3
  <2>2. ASSUME NEW y \in Published
        PROVE  y.log_index # e[r].log_index /\ y.uuid # e[r].uuid
    <3>1. y.uuid \in Numbered /\ y = e[y.uuid]
      BY PublishedIsOwn
    <3>2. y.uuid # r
      BY <1>3, <3>1
    <3> QED
      BY <3>1, <3>2 DEF IndInv, UniqueIndex
  <2>3. Log!Publish(e[r])
    BY <2>1, <2>2 DEF Log!Publish
  <2> QED
    BY <1>3, <2>3 DEF Log!Next
<1> QED
  BY <1>1, <1>2, <1>3

\* SET of an entry publishes that entry or nothing.
LEMMA SetEntryPublishes ==
    ASSUME IndInv, NEW r \in Requests, SetEntry(r)
    PROVE  Published \subseteq Published' /\ Published' \subseteq Published \union {e[r]}
<1> DEFINE n == e[r].log_index
<1>1. /\ pc[r] = "persist" /\ lists' = lists
      /\ entries' = Put(entries, n, e[r])
  BY DEF SetEntry, NextCommand
<1>2. r \in Numbered
  BY <1>1, NoEntryAssumption DEF IndInv, HandlerInv, HandlerOK, Numbered, Unassigned
<1>3. n \in DOMAIN entries => entries[n] = e[r]
  BY <1>2 DEF IndInv, StoreInv, UniqueIndex
<1>4. /\ Range(entries') \subseteq Range(entries) \union {e[r]}
      /\ Range(entries) \subseteq Range(entries')
  BY <1>1, <1>3 DEF Put, Range
<1> QED
  BY <1>1, <1>4 DEF Published

\* LPUSH of a number publishes the entry under it or nothing.
LEMMA PushIndexPublishes ==
    ASSUME IndInv, NEW r \in Requests, PushIndex(r)
    PROVE  Published \subseteq Published' /\ Published' \subseteq Published \union {e[r]}
<1> DEFINE n == e[r].log_index
           h == e[r].artifact_hash
<1>1. /\ pc[r] = "persist" /\ entries' = entries
      /\ lists' = [lists EXCEPT ![h] = <<n>> \o lists[h]]
  BY DEF PushIndex, NextCommand
<1>2. r \in Numbered /\ n \in Nat /\ h \in Hashes /\ lists \in [Hashes -> Seq(Nat)]
  BY <1>1, NoEntryAssumption
  DEF IndInv, HandlerInv, HandlerOK, Numbered, Unassigned, Entry, TypeOK, RedisTypeOK
<1>3. Range(lists'[h]) = {n} \union Range(lists[h])
  BY <1>1, <1>2, RangePush
<1>4. ASSUME NEW g, g # h PROVE lists'[g] = lists[g]
  BY <1>1, <1>2, <1>4
<1>5. ASSUME NEW x \in Range(entries)
      PROVE  x.log_index \in Range(lists'[x.artifact_hash]) <=>
                \/ x.log_index \in Range(lists[x.artifact_hash])
                \/ x.artifact_hash = h /\ x.log_index = n
  BY <1>3, <1>4
<1>6. ASSUME NEW x \in Range(entries), x.log_index = n
      PROVE  x = e[r]
  BY <1>2, <1>6 DEF IndInv, StoreInv, UniqueIndex, Range
<1> QED
  BY <1>1, <1>5, <1>6 DEF Published

\* Nothing that can be read back is ever withdrawn.
LEMMA PublishedGrows == IndInv /\ [Next]_vars => Published \subseteq Published'
<1> SUFFICES ASSUME IndInv, [Next]_vars PROVE Published \subseteq Published'
  OBVIOUS
<1>1. CASE UNCHANGED <<entries, lists>>
  BY <1>1 DEF Published
<1>2. ASSUME NEW r \in Requests, SetEntry(r) \/ PushIndex(r)
      PROVE Published \subseteq Published'
  BY <1>2, SetEntryPublishes, PushIndexPublishes
<1>3. ASSUME NEW r \in Requests, Post(r), ~SetEntry(r), ~PushIndex(r)
      PROVE UNCHANGED <<entries, lists>>
  BY <1>3 DEF Post, RedisStep, Reject, NewUUIDFails, Accept, Incr, IncrLost, Sign,
              SignFails, SetUUID, CommandRefused, NextCommand, PipelineLost,
              PipelineRefused, PipelineDone, Respond, redis
<1>4. ASSUME NEW r \in Requests, Worker(r)
      PROVE UNCHANGED <<entries, lists>>
  BY <1>4 DEF Worker, QueueLeafOk, QueueLeafError, QueueLeafTimeout, Audited, redis
<1>5. CASE Crash
  BY <1>1, <1>5 DEF Crash, redis
<1>6. CASE (\E d \in Readers : Get(d)) \/ Tick \/ Quiescent \/ UNCHANGED vars
  BY <1>1, <1>6, Bystanders DEF redis
<1> QED
  BY <1>1, <1>2, <1>3, <1>4, <1>5, <1>6 DEF Next

\* A step queues at most the leaf of an entry that can be read back.
LEMMA LeafStep ==
    IndInv /\ [Next]_vars => leaves' \subseteq leaves \union Published
<1> SUFFICES ASSUME IndInv, [Next]_vars PROVE leaves' \subseteq leaves \union Published
  OBVIOUS
<1>1. ASSUME NEW r \in Requests, Worker(r)
      PROVE leaves' \subseteq leaves \union Published
  <2>1. worker[r] = "pending" /\ leaves' \subseteq leaves \union {e[r]}
    BY <1>1 DEF Worker, QueueLeafOk, QueueLeafError, QueueLeafTimeout, Audited
  <2>2. Stored(r) /\ Listed(r)
    BY <2>1 DEF IndInv, HandlerInv, HandlerOK, PipelineInv, PipelineOK
  <2>3. e[r] \in Published
    BY <2>2 DEF Stored, Listed, Published, Range
  <2> QED
    BY <2>1, <2>3
<1>2. ASSUME NEW r \in Requests, Post(r)
      PROVE UNCHANGED leaves
  BY <1>2 DEF Post, RedisStep, Reject, NewUUIDFails, Accept, Incr, IncrLost, Sign,
              SignFails, SetEntry, SetUUID, PushIndex, CommandRefused, NextCommand,
              PipelineLost, PipelineRefused, PipelineDone, Respond, audit
<1>3. CASE Crash
  BY <1>3 DEF Crash
<1>4. CASE (\E d \in Readers : Get(d)) \/ Tick \/ Quiescent \/ UNCHANGED vars
  BY <1>4, Bystanders DEF audit
<1> QED
  BY <1>1, <1>2, <1>3, <1>4 DEF Next

\* The audit trail shows nothing that the log does not serve, now and later.
THEOREM AuditShowsTheLog == Spec => []AuditedServed
<1>1. Init => AuditedServed
  BY DEF Init, AuditedServed
<1>2. IndInv /\ AuditedServed /\ [Next]_vars => AuditedServed'
  BY PublishedGrows, LeafStep DEF AuditedServed
<1> QED
  BY <1>1, <1>2, Inductive, PTL DEF Spec

\* What is read back through Redis is an append-only log.
THEOREM Refinement == Spec => ImplementsLog
<1>1. Init => Log!Init
  BY DEF Init, Log!Init, Published, Acknowledged, Range
<1>2. IndInv /\ [Next]_vars => [Log!Next]_Log!vars
  <2> SUFFICES ASSUME IndInv, [Next]_vars PROVE [Log!Next]_Log!vars
    OBVIOUS
  <2>1. CASE UNCHANGED <<entries, lists, Acknowledged>>
    BY <2>1 DEF Log!vars, Published
  <2>2. ASSUME NEW r \in Requests, SetEntry(r) \/ PushIndex(r)
        PROVE [Log!Next]_Log!vars
    <3>1. pc[r] = "persist" /\ pc' = pc
      BY <2>2 DEF SetEntry, PushIndex, NextCommand
    <3>2. r \in Numbered /\ e[r] \in Entry /\ e[r].uuid = r
      BY <3>1, NoEntryAssumption DEF IndInv, HandlerInv, HandlerOK, Numbered, Unassigned
    <3> QED
      BY <2>2, <3>1, <3>2, SetEntryPublishes, PushIndexPublishes, PublishStep
      DEF Acknowledged
  <2>3. ASSUME NEW r \in Requests, Respond(r)
        PROVE [Log!Next]_Log!vars
    <3>1. pc[r] = "respond" /\ pc' = [pc EXCEPT ![r] = "created"]
          /\ entries' = entries /\ lists' = lists
      BY <2>3 DEF Respond, Goto, redis
    <3>2. Acknowledged' = Acknowledged \union {r} /\ r \notin Acknowledged
      BY <3>1 DEF Acknowledged, IndInv, TypeOK, HandlersTypeOK
    <3>3. Stored(r) /\ Listed(r) /\ e[r].uuid = r
      BY <3>1, NoEntryAssumption
      DEF IndInv, PipelineInv, PipelineOK, HandlerInv, HandlerOK
    <3>4. e[r] \in Published /\ Published' = Published
      BY <3>1, <3>3 DEF Published, Stored, Listed, Range
    <3>5. Log!Acknowledge(r)
      BY <3>2, <3>3, <3>4 DEF Log!Acknowledge
    <3> QED
      BY <3>5 DEF Log!Next
  <2>4. ASSUME NEW r \in Requests, Post(r), ~SetEntry(r), ~PushIndex(r), ~Respond(r)
        PROVE UNCHANGED <<entries, lists, Acknowledged>>
    <3>1. UNCHANGED <<entries, lists>>
      BY <2>4 DEF Post, RedisStep, Reject, NewUUIDFails, Accept, Incr, IncrLost, Sign,
                  SignFails, SetUUID, CommandRefused, NextCommand, PipelineLost,
                  PipelineRefused, PipelineDone, redis
    <3>2. pc[r] # "created" /\ pc'[r] # "created"
      BY <2>4 DEF Post, RedisStep, Reject, NewUUIDFails, Accept, Incr, IncrLost, Sign,
                  SignFails, SetUUID, CommandRefused, NextCommand, PipelineLost,
                  PipelineRefused, PipelineDone, Goto, IndInv, TypeOK, HandlersTypeOK
    <3>3. \A q \in Requests \ {r} : pc'[q] = pc[q]
      BY <2>4, OwnStep DEF IndInv, TypeOK
    <3> QED
      BY <3>1, <3>2, <3>3 DEF Acknowledged
  <2>5. ASSUME NEW r \in Requests, Worker(r)
        PROVE UNCHANGED <<entries, lists, Acknowledged>>
    BY <2>5 DEF Worker, QueueLeafOk, QueueLeafError, QueueLeafTimeout, Audited,
                redis, handlers, Acknowledged
  <2>6. CASE Crash
    <3>1. UNCHANGED <<entries, lists>> /\ \A r \in Requests : pc[r] = "created" <=> pc'[r] = "created"
      BY <2>6 DEF Crash, redis, InFlight
    <3> QED
      BY <2>1, <3>1 DEF Acknowledged
  <2>7. CASE (\E d \in Readers : Get(d)) \/ Tick \/ Quiescent \/ UNCHANGED vars
    BY <2>1, <2>7, Bystanders DEF redis, handlers, Acknowledged
  <2> QED
    BY <2>1, <2>2, <2>3, <2>4, <2>5, <2>6, <2>7 DEF Next
<1> QED
  BY <1>1, <1>2, Inductive, PTL DEF Spec, ImplementsLog, Log!Spec

-----------------------------------------------------------------------------
\* An acknowledgement stays one, and each request remembers only such.
PriorInv == \A r \in Requests : prior[r] \subseteq Acknowledged

\* No Entry is stamped with a time still to come, nor, from the moment it is built,
\* with an earlier one than an entry acknowledged before.
StampInv ==
    \A r \in Requests : e[r] # NoEntry =>
        /\ e[r].server_timestamp <= clock
        /\ \A q \in prior[r] : e[q].server_timestamp <= e[r].server_timestamp

\* A number in the list of a hash is that of a request for that hash.
ListInv ==
    \A h \in Hashes : \A n \in Range(lists[h]) :
        \E r \in Numbered : /\ pc[r] \notin {"idle", "incr", "sign"}
                            /\ e[r].log_index = n /\ e[r].artifact_hash = h

\* RealTimeOrder speaks of a pair of requests; these are its three parts.
NumberOrder(q, r) == e[q].log_index < e[r].log_index
StampOrder(q, r)  == e[q].server_timestamp <= e[r].server_timestamp
Ahead(l, m, n)    == \A i, j \in DOMAIN l : l[i] = n /\ l[j] = m => i < j
ListOrder(q, r)   ==
    e[q].artifact_hash = e[r].artifact_hash =>
        Ahead(lists[e[r].artifact_hash], e[q].log_index, e[r].log_index)

OrderInv == IndInv /\ PriorInv /\ StampInv /\ ListInv /\ RealTimeOrder

-----------------------------------------------------------------------------
\* A request that was acknowledged stays so.
LEMMA AckStays == IndInv /\ [Next]_vars => Acknowledged \subseteq Acknowledged'
<1> SUFFICES ASSUME IndInv, [Next]_vars, NEW q \in Requests, pc[q] = "created"
             PROVE  pc'[q] = "created"
  BY DEF Acknowledged
<1>1. ASSUME NEW r \in Requests \ {q}, Post(r)
      PROVE pc'[q] = "created"
  BY <1>1, OwnStep DEF IndInv, TypeOK
<1>2. ~Post(q)
  BY DEF Post, RedisStep, Reject, NewUUIDFails, Accept, Incr, IncrLost, Sign, SignFails,
         SetEntry, SetUUID, PushIndex, CommandRefused, NextCommand, PipelineLost,
         PipelineRefused, PipelineDone, Respond
<1>3. ASSUME NEW r \in Requests, Worker(r)
      PROVE pc'[q] = "created"
  BY <1>3 DEF Worker, QueueLeafOk, QueueLeafError, QueueLeafTimeout, Audited, handlers
<1>4. CASE Crash
  BY <1>4 DEF Crash, InFlight
<1>5. CASE (\E d \in Readers : Get(d)) \/ Tick \/ Quiescent \/ UNCHANGED vars
  BY <1>5, Bystanders DEF handlers
<1> QED
  BY <1>1, <1>2, <1>3, <1>4, <1>5 DEF Next

\* An acknowledged request is numbered and past the pipeline.
LEMMA AckNumbered ==
    ASSUME IndInv, NEW q \in Acknowledged
    PROVE  /\ q \in Numbered /\ e[q] \in Entry /\ e[q] # NoEntry
           /\ e[q].log_index \in Nat /\ e[q].uuid = q
           /\ pc[q] \notin {"idle", "incr", "sign"}
BY NoEntryAssumption
DEF Acknowledged, IndInv, HandlerInv, HandlerOK, Numbered, Unassigned

\* INCR and the signature leave the hash, the category and the time of an Entry as they are.
LEMMA FieldsStay ==
    ASSUME IndInv, [Next]_vars, NEW q \in Requests, e[q] # NoEntry
    PROVE  /\ e'[q].artifact_hash = e[q].artifact_hash
           /\ e'[q].category = e[q].category
           /\ e'[q].server_timestamp = e[q].server_timestamp
           /\ e'[q] # NoEntry
<1>1. e[q] \in Entry /\ e'[q] \in Entry \union {NoEntry}
  BY TypeStep DEF IndInv, TypeOK, HandlersTypeOK
<1>2. CASE Accept(q)
  BY <1>2 DEF Accept, IndInv, HandlerInv, HandlerOK
<1>3. CASE Incr(q)
  <2>1. e'[q] = [e[q] EXCEPT !.log_index = counter' - 1]
    BY <1>3 DEF Incr, IndInv, TypeOK, HandlersTypeOK
  <2>2. (pc[q] = "sign")'
    BY <1>3 DEF Incr, Goto, IndInv, TypeOK, HandlersTypeOK
  <2>3. e'[q] \in Entry
    BY <2>2, HandlerStep DEF HandlerInv, HandlerOK
  <2> QED
    BY <1>1, <2>1, <2>3, NoEntryAssumption DEF Entry
<1>4. CASE Sign(q)
  <2>1. e'[q] = [e[q] EXCEPT !.server_signature = Payload(e[q])]
    BY <1>4 DEF Sign, IndInv, TypeOK, HandlersTypeOK
  <2>2. (pc[q] = "persist")'
    BY <1>4 DEF Sign, Goto, IndInv, TypeOK, HandlersTypeOK
  <2>3. e'[q] \in Entry
    BY <2>2, HandlerStep DEF HandlerInv, HandlerOK
  <2> QED
    BY <1>1, <2>1, <2>3, NoEntryAssumption DEF Entry
<1> QED
  BY <1>2, <1>3, <1>4, EntryStep

\* A request looks at the acknowledgements once, when it is accepted.
LEMMA PriorStep ==
    ASSUME IndInv, [Next]_vars, NEW r \in Requests
    PROVE  prior'[r] = prior[r] \/ (Accept(r) /\ prior'[r] = Acknowledged)
<1>1. ASSUME NEW q \in Requests, Accept(q)
      PROVE  prior'[r] = prior[r] \/ (Accept(r) /\ prior'[r] = Acknowledged)
  BY <1>1 DEF Accept, IndInv, TypeOK, HandlersTypeOK
<1>2. ASSUME NEW q \in Requests, Post(q) \/ Worker(q), ~Accept(q)
      PROVE  prior' = prior
  BY <1>2 DEF Post, RedisStep, Reject, NewUUIDFails, Incr, IncrLost, Sign,
              SignFails, SetEntry, SetUUID, PushIndex, CommandRefused, NextCommand,
              PipelineLost, PipelineRefused, PipelineDone, Respond, Worker,
              QueueLeafOk, QueueLeafError, QueueLeafTimeout, Audited, handlers
<1>3. CASE Crash
  BY <1>3 DEF Crash
<1>4. CASE (\E d \in Readers : Get(d)) \/ Tick \/ Quiescent \/ UNCHANGED vars
  BY <1>4, Bystanders DEF handlers
<1> QED
  BY <1>1, <1>2, <1>3, <1>4 DEF Next

\* Time does not go back, and a new Entry is stamped with the present.
LEMMA ClockStep ==
    ASSUME IndInv, [Next]_vars
    PROVE  /\ clock \in Nat /\ clock' \in Nat /\ clock <= clock'
           /\ \A r \in Requests : Accept(r) => e'[r].server_timestamp = clock /\ clock' = clock
<1>1. clock \in Nat
  BY DEF IndInv, TypeOK
<1>2. ASSUME NEW r \in Requests, Accept(r)
      PROVE  e'[r].server_timestamp = clock /\ clock' = clock
  BY <1>2 DEF Accept, NewEntry, IndInv, TypeOK, HandlersTypeOK
<1>3. ASSUME NEW r \in Requests, Post(r) \/ Worker(r)
      PROVE  clock' = clock
  BY <1>3 DEF Post, RedisStep, Reject, NewUUIDFails, Accept, Incr, IncrLost, Sign,
              SignFails, SetEntry, SetUUID, PushIndex, CommandRefused, NextCommand,
              PipelineLost, PipelineRefused, PipelineDone, Respond, Worker,
              QueueLeafOk, QueueLeafError, QueueLeafTimeout, Audited
<1>4. ASSUME NEW d \in Readers, Get(d)
      PROVE  clock' = clock
  BY <1>4 DEF Get, ListBegin, GetBegin, ReadFails, ListGet, ListDone, GetEntry
<1>5. clock' \in Nat /\ clock <= clock'
  <2>1. CASE Crash \/ Quiescent \/ UNCHANGED vars
    BY <1>1, <2>1 DEF Crash, Quiescent, vars
  <2>2. CASE Tick
    BY <1>1, <2>2 DEF Tick
  <2> QED
    BY <1>1, <1>3, <1>4, <2>1, <2>2 DEF Next
<1> QED
  BY <1>1, <1>2, <1>5

\* Only LPUSH changes a list, and only that of the hash of its request.
LEMMA ListsStep ==
    ASSUME IndInv, [Next]_vars
    PROVE  \/ lists' = lists
           \/ \E p \in Numbered :
                 /\ pc[p] = "persist" /\ e' = e /\ e[p].artifact_hash \in Hashes
                 /\ e[p].log_index \in Nat
                 /\ lists' = [lists EXCEPT ![e[p].artifact_hash] = <<e[p].log_index>> \o @]
<1>1. ASSUME NEW p \in Requests, PushIndex(p)
      PROVE  /\ p \in Numbered /\ pc[p] = "persist" /\ e' = e /\ e[p].artifact_hash \in Hashes
             /\ e[p].log_index \in Nat
             /\ lists' = [lists EXCEPT ![e[p].artifact_hash] = <<e[p].log_index>> \o @]
  <2>1. pc[p] = "persist" /\ e' = e
    BY <1>1 DEF PushIndex, NextCommand
  <2>2. e[p] \in Entry /\ e[p].log_index \in Nat
    BY <2>1 DEF IndInv, HandlerInv, HandlerOK
  <2>3. p \in Numbered /\ e[p].artifact_hash \in Hashes
    BY <2>2, NoEntryAssumption DEF Numbered, Unassigned, Entry
  <2> QED
    BY <1>1, <2>1, <2>2, <2>3 DEF PushIndex
<1>2. ASSUME NEW r \in Requests, Post(r), ~PushIndex(r)
      PROVE  lists' = lists
  <2>1. CASE SetEntry(r) \/ SetUUID(r) \/ CommandRefused(r)
    BY <2>1 DEF SetEntry, SetUUID, CommandRefused, NextCommand
  <2>2. CASE ~(SetEntry(r) \/ SetUUID(r) \/ CommandRefused(r))
    BY <1>2, <2>2
    DEF Post, RedisStep, Reject, NewUUIDFails, Accept, Incr, IncrLost, Sign, SignFails,
        PipelineLost, PipelineRefused, PipelineDone, Respond, redis
  <2> QED
    BY <2>1, <2>2
<1>3. ASSUME NEW r \in Requests, Worker(r)
      PROVE  lists' = lists
  BY <1>3 DEF Worker, QueueLeafOk, QueueLeafError, QueueLeafTimeout, Audited, redis
<1>4. CASE Crash
  BY <1>4 DEF Crash, redis
<1>5. CASE (\E d \in Readers : Get(d)) \/ Tick \/ Quiescent \/ UNCHANGED vars
  BY <1>5, Bystanders DEF redis
<1> QED
  BY <1>1, <1>2, <1>3, <1>4, <1>5 DEF Next

-----------------------------------------------------------------------------
\* What is acknowledged before a request stays acknowledged.
LEMMA PriorInvStep == OrderInv /\ [Next]_vars => PriorInv'
BY AckStays, PriorStep DEF OrderInv, PriorInv

\* The stamps stay in order: a new Entry takes the present time, and none changes later.
LEMMA StampInvStep == OrderInv /\ [Next]_vars => StampInv'
<1> SUFFICES ASSUME OrderInv, [Next]_vars, NEW r \in Requests, e'[r] # NoEntry
             PROVE  /\ e'[r].server_timestamp <= clock'
                    /\ \A q \in prior'[r] : e'[q].server_timestamp <= e'[r].server_timestamp
  BY DEF StampInv
<1>0. IndInv /\ clock \in Nat /\ clock' \in Nat /\ clock <= clock'
  BY ClockStep DEF OrderInv
<1>1. ASSUME NEW q \in Requests, e[q] # NoEntry
      PROVE  /\ e[q].server_timestamp \in Nat /\ e[q].server_timestamp <= clock
             /\ e'[q].server_timestamp = e[q].server_timestamp
  <2>1. e[q] \in Entry
    BY <1>0, <1>1 DEF IndInv, TypeOK, HandlersTypeOK
  <2>2. e'[q].server_timestamp = e[q].server_timestamp
    BY <1>0, <1>1, FieldsStay
  <2> QED
    BY <1>1, <2>1, <2>2 DEF Entry, OrderInv, StampInv
<1>2. ASSUME NEW q \in Acknowledged
      PROVE  q \in Requests /\ e[q] # NoEntry
  BY <1>0, AckNumbered DEF Acknowledged
<1>3. CASE e[r] # NoEntry
  <2>1. prior'[r] = prior[r] /\ prior[r] \subseteq Acknowledged
    <3>1. ~Accept(r)
      BY <1>0, <1>3 DEF Accept, IndInv, HandlerInv, HandlerOK
    <3> QED
      BY <1>0, <3>1, PriorStep DEF OrderInv, PriorInv
  <2>2. \A q \in prior[r] : e[q].server_timestamp <= e[r].server_timestamp
    BY <1>3 DEF OrderInv, StampInv
  <2>3. e'[r].server_timestamp <= clock'
    BY <1>0, <1>1, <1>3
  <2> QED
    BY <1>1, <1>2, <1>3, <2>1, <2>2, <2>3
<1>4. CASE e[r] = NoEntry
  <2>1. Accept(r)
    <3>1. e'[r] # e[r]
      BY <1>4
    <3>2. ~Incr(r) /\ ~Sign(r)
      BY <1>0, <1>4, NoEntryAssumption DEF Incr, Sign, IndInv, HandlerInv, HandlerOK
    <3> QED
      BY <1>0, <3>1, <3>2, EntryStep
  <2>2. prior'[r] = Acknowledged
    BY <2>1 DEF Accept, OrderInv, IndInv, TypeOK, HandlersTypeOK
  <2>3. e'[r].server_timestamp = clock /\ clock' = clock
    BY <1>0, <2>1, ClockStep
  <2> QED
    BY <1>0, <1>1, <1>2, <2>2, <2>3
<1> QED
  BY <1>3, <1>4

\* Lists only hold numbers of their own hash: LPUSH puts a number where it belongs.
LEMMA ListInvStep == OrderInv /\ [Next]_vars => ListInv'
<1> SUFFICES ASSUME OrderInv, [Next]_vars,
                    NEW h \in Hashes, NEW n \in Range(lists'[h])
             PROVE  \E r \in Numbered' : /\ pc'[r] \notin {"idle", "incr", "sign"}
                                         /\ e'[r].log_index = n /\ e'[r].artifact_hash = h
  BY DEF ListInv
<1>0. IndInv /\ lists \in [Hashes -> Seq(Nat)]
  BY DEF OrderInv, IndInv, TypeOK, RedisTypeOK
<1>1. ASSUME NEW r \in Numbered, pc[r] \notin {"idle", "incr", "sign"},
             e[r].log_index = n, e[r].artifact_hash = h
      PROVE  /\ r \in Numbered' /\ pc'[r] \notin {"idle", "incr", "sign"}
             /\ e'[r].log_index = n /\ e'[r].artifact_hash = h
  <2>1. pc'[r] \notin {"idle", "incr", "sign"} /\ e'[r] = e[r]
    BY <1>0, <1>1, PastStays DEF Numbered
  <2> QED
    BY <1>1, <2>1 DEF Numbered
<1>2. CASE n \in Range(lists[h])
  BY <1>1, <1>2 DEF OrderInv, ListInv
<1>3. CASE n \notin Range(lists[h])
  <2>1. lists' # lists
    BY <1>3
  <2>2. PICK p \in Numbered :
           /\ pc[p] = "persist" /\ e' = e /\ e[p].artifact_hash \in Hashes
           /\ e[p].log_index \in Nat
           /\ lists' = [lists EXCEPT ![e[p].artifact_hash] = <<e[p].log_index>> \o @]
    BY <1>0, <2>1, ListsStep
  <2>3. e[p].artifact_hash = h /\ lists'[h] = <<e[p].log_index>> \o lists[h]
    BY <1>0, <1>3, <2>2
  <2>4. n = e[p].log_index
    BY <1>0, <1>3, <2>2, <2>3, RangePush
  <2> QED
    BY <1>1, <2>2, <2>3, <2>4
<1> QED
  BY <1>2, <1>3

-----------------------------------------------------------------------------
\* LPUSH of another number keeps what is ahead of it ahead.
LEMMA PushKeepsOrder ==
    ASSUME NEW l \in Seq(Nat), NEW k \in Nat, NEW m \in Nat, NEW n \in Nat,
           k # m, Ahead(l, m, n)
    PROVE  Ahead(<<k>> \o l, m, n)
<1> DEFINE t == <<k>> \o l
<1> SUFFICES ASSUME NEW i \in DOMAIN t, NEW j \in DOMAIN t, t[i] = n, t[j] = m
             PROVE  i < j
  BY DEF Ahead
<1>1. DOMAIN t = 1..Len(l) + 1 /\ t[1] = k /\ \A x \in 2..Len(l) + 1 : t[x] = l[x - 1]
  OBVIOUS
<1>2. i \in Int /\ j \in Int /\ 1 <= i /\ 2 <= j /\ j <= Len(l) + 1 /\ i <= Len(l) + 1
  BY <1>1
<1>3. CASE i = 1
  BY <1>2, <1>3
<1>4. CASE i # 1
  <2>1. i - 1 \in DOMAIN l /\ j - 1 \in DOMAIN l
    BY <1>2, <1>4
  <2>2. l[i - 1] = n /\ l[j - 1] = m
    BY <1>1, <1>2, <1>4
  <2>3. i - 1 < j - 1
    BY <2>1, <2>2 DEF Ahead
  <2> QED
    BY <1>2, <2>3
<1> QED
  BY <1>3, <1>4

\* What is acknowledged is listed for good, so that only a later request's number can
\* still be pushed; and a number INCR gives out is in no list yet.
LEMMA OrderStep == OrderInv /\ [Next]_vars => RealTimeOrder'
<1> SUFFICES ASSUME OrderInv, [Next]_vars,
                    NEW r \in Requests, (r \in Numbered)', NEW q \in prior'[r]
             PROVE  NumberOrder(q, r)' /\ StampOrder(q, r)' /\ ListOrder(q, r)'
  BY DEF RealTimeOrder, NumberOrder, StampOrder, ListOrder, Ahead, Numbered
<1>0. /\ IndInv /\ lists \in [Hashes -> Seq(Nat)] /\ counter \in Nat
      /\ e[r] # NoEntry /\ ~Accept(r)
  <2>1. IndInv /\ lists \in [Hashes -> Seq(Nat)] /\ counter \in Nat
    BY DEF OrderInv, IndInv, TypeOK, RedisTypeOK
  <2>2. r \in Numbered \/ Incr(r)
    BY <2>1, NumberStep
  <2>3. e[r] # NoEntry
    BY <2>1, <2>2, NoEntryAssumption DEF Numbered, Incr, IndInv, HandlerInv, HandlerOK
  <2> QED
    BY <2>1, <2>3 DEF Accept, IndInv, HandlerInv, HandlerOK
<1>1. q \in prior[r] /\ q \in Acknowledged
  BY <1>0, PriorStep DEF OrderInv, PriorInv
<1>2. /\ q \in Numbered /\ q \in Requests /\ e[q].log_index \in Nat
      /\ e[q].log_index < counter /\ e'[q] = e[q]
      /\ pc[q] = "created" /\ e[q] \in Entry
  <2>1. q \in Numbered /\ q \in Requests /\ e[q].log_index \in Nat /\ e[q] \in Entry
        /\ pc[q] \notin {"idle", "incr", "sign"}
    BY <1>0, <1>1, AckNumbered DEF Acknowledged
  <2>2. e'[q] = e[q]
    BY <1>0, <2>1, PastStays
  <2> QED
    BY <1>0, <1>1, <2>1, <2>2 DEF Acknowledged, IndInv, CounterInv
<1>3. StampOrder(q, r)'
  BY <1>1, StampInvStep DEF StampInv, StampOrder, Numbered
<1>4. CASE r \in Numbered /\ e'[r].log_index = e[r].log_index
  <2> DEFINE h == e[r].artifact_hash
             n == e[r].log_index
             m == e[q].log_index
  <2>1. NumberOrder(q, r)'
    BY <1>1, <1>2, <1>4 DEF OrderInv, RealTimeOrder, NumberOrder
  <2>2. e'[r].artifact_hash = h /\ e[r] \in Entry /\ h \in Hashes /\ n \in Nat
    <3>1. e[r] \in Entry /\ n # Unassigned
      BY <1>0, <1>4 DEF Numbered, IndInv, TypeOK, HandlersTypeOK
    <3>2. h \in Hashes /\ n \in Nat
      BY <3>1 DEF Entry
    <3> QED
      BY <1>0, <3>1, <3>2, FieldsStay
  <2>3. ASSUME e[q].artifact_hash = h
        PROVE  Ahead(lists'[h], m, n)
    <3>1. Ahead(lists[h], m, n)
      BY <1>1, <1>4, <2>3 DEF OrderInv, RealTimeOrder, Ahead
    <3>2. CASE lists'[h] = lists[h]
      BY <3>1, <3>2
    <3>3. CASE lists'[h] # lists[h]
      <4>1. PICK p \in Numbered :
               /\ pc[p] = "persist" /\ e' = e /\ e[p].artifact_hash \in Hashes
               /\ e[p].log_index \in Nat
               /\ lists' = [lists EXCEPT ![e[p].artifact_hash] = <<e[p].log_index>> \o @]
        BY <1>0, <3>3, ListsStep
      <4>2. lists'[h] = <<e[p].log_index>> \o lists[h] /\ lists[h] \in Seq(Nat)
        BY <1>0, <2>2, <3>3, <4>1
      <4>3. e[p].log_index # m
        BY <1>0, <1>2, <4>1 DEF IndInv, UniqueIndex
      <4> QED
        BY <1>2, <2>2, <3>1, <4>1, <4>2, <4>3, PushKeepsOrder
    <3> QED
      BY <3>2, <3>3
  <2>4. ListOrder(q, r)'
    BY <1>2, <1>4, <2>2, <2>3 DEF ListOrder, Ahead
  <2> QED
    BY <1>3, <2>1, <2>4
<1>5. CASE Incr(r) /\ e'[r].log_index = counter
  <2> DEFINE h == e'[r].artifact_hash
  <2>1. NumberOrder(q, r)'
    BY <1>2, <1>5 DEF NumberOrder
  <2>2. lists' = lists
    BY <1>5 DEF Incr
  <2>3. e[q].artifact_hash = h => counter \notin Range(lists[h])
    <3>1. e[q].artifact_hash \in Hashes
      BY <1>2 DEF Entry
    <3>2. \A p \in Numbered : e[p].log_index # counter
      BY <1>0 DEF IndInv, CounterInv
    <3> QED
      BY <3>1, <3>2 DEF OrderInv, ListInv
  <2>4. ListOrder(q, r)'
    BY <1>2, <1>5, <2>2, <2>3 DEF ListOrder, Ahead, Range
  <2> QED
    BY <1>3, <2>1, <2>4
<1> QED
  BY <1>0, <1>4, <1>5, NumberStep

-----------------------------------------------------------------------------
\* The log starts in order, and no step disturbs it.
THEOREM OrderInductive == Spec => []OrderInv
<1>1. Init => OrderInv
  <2> SUFFICES ASSUME Init PROVE OrderInv
    OBVIOUS
  <2>1. IndInv
    BY InitEstablishes
  <2>2. PriorInv /\ StampInv /\ RealTimeOrder
    BY DEF Init, PriorInv, StampInv, RealTimeOrder, Numbered
  <2>3. ListInv
    BY DEF Init, ListInv, Range
  <2> QED
    BY <2>1, <2>2, <2>3 DEF OrderInv
<1>2. IndInv /\ [Next]_vars => IndInv'
  BY TypeStep, HandlerStep, CounterStep, UniqueStep, StoreStep, PipelineStep DEF IndInv
<1>3. OrderInv /\ [Next]_vars => OrderInv'
  BY <1>2, PriorInvStep, StampInvStep, ListInvStep, OrderStep DEF OrderInv
<1> QED
  BY <1>1, <1>3, PTL DEF Spec

\* An entry accepted after another was acknowledged comes after it, by number, by time
\* and by its place in the list of their hash, whatever was lost, retried or pushed twice.
THEOREM OrderIsRealTime == Spec => []RealTimeOrder
<1>1. OrderInv => RealTimeOrder
  BY DEF OrderInv
<1> QED
  BY <1>1, OrderInductive, PTL

-----------------------------------------------------------------------------
\* A reader's variables change only in its own steps and when the server dies.
LEMMA ReaderStep ==
    ASSUME IndInv, [Next]_vars, NEW d \in Readers
    PROVE  \/ Get(d)
           \/ /\ query'[d] = query[d] /\ todo'[d] = todo[d]
              /\ got'[d] = got[d] /\ known'[d] = known[d]
              /\ rpc'[d] \in {rpc[d], "crashed"}
<1> USE DEF IndInv, TypeOK, ReadersTypeOK
<1>1. ASSUME NEW c \in Readers \ {d}, Get(c)
      PROVE  /\ query'[d] = query[d] /\ todo'[d] = todo[d] /\ got'[d] = got[d]
             /\ known'[d] = known[d] /\ rpc'[d] = rpc[d]
  <2>1. ASSUME NEW h \in Hashes, ListBegin(c, h)
        PROVE  /\ query'[d] = query[d] /\ todo'[d] = todo[d] /\ got'[d] = got[d]
               /\ known'[d] = known[d] /\ rpc'[d] = rpc[d]
    BY <2>1 DEF ListBegin
  <2>2. ASSUME NEW u \in Requests, GetBegin(c, u)
        PROVE  /\ query'[d] = query[d] /\ todo'[d] = todo[d] /\ got'[d] = got[d]
               /\ known'[d] = known[d] /\ rpc'[d] = rpc[d]
    BY <2>2 DEF GetBegin
  <2>3. CASE ReadFails(c) \/ ListDone(c)
    BY <2>3 DEF ReadFails, ListDone
  <2>4. CASE ListGet(c)
    BY <2>4 DEF ListGet
  <2>5. CASE GetEntry(c)
    BY <2>5 DEF GetEntry
  <2> QED
    BY <1>1, <2>1, <2>2, <2>3, <2>4, <2>5 DEF Get
<1>2. ASSUME NEW r \in Requests, Post(r) \/ Worker(r)
      PROVE  UNCHANGED readers
  BY <1>2 DEF Post, RedisStep, Reject, NewUUIDFails, Accept, Incr, IncrLost, Sign,
              SignFails, SetEntry, SetUUID, PushIndex, CommandRefused, NextCommand,
              PipelineLost, PipelineRefused, PipelineDone, Respond, Worker,
              QueueLeafOk, QueueLeafError, QueueLeafTimeout, Audited
<1>3. CASE Crash
  BY <1>3 DEF Crash
<1>4. CASE Tick \/ Quiescent \/ UNCHANGED vars
  BY <1>4 DEF Tick, Quiescent, vars, readers
<1> QED
  BY <1>1, <1>2, <1>3, <1>4 DEF Next, readers

\* A handler that waits for Redis, and how many answers it may get until it ends or asks gpg.
Waiting(r) == pc[r] \in {"incr", "persist", "respond"}
AnswersLeft(r) ==
    CASE pc[r] = "incr"    -> MaxRetries - attempt[r]
      [] pc[r] = "persist" -> 4 * (MaxRetries - attempt[r]) + 4 - sent[r]
      [] OTHER             -> 0

\* Each answer leaves fewer, lost or not, and nothing else but a crash disturbs the handler.
CountsDown(r) ==
    /\ RedisStep(r) /\ Waiting(r)' => AnswersLeft(r)' \in Nat /\ AnswersLeft(r)' < AnswersLeft(r)
    /\ Waiting(r) /\ ~RedisStep(r) =>
          pc'[r] = "crashed" \/ (pc'[r] = pc[r] /\ attempt'[r] = attempt[r] /\ sent'[r] = sent[r])

\* A read that goes on, and what a step does to it: there is one number less to fetch.
ReadStep(d) == ListGet(d) \/ ListDone(d) \/ GetEntry(d)
Reading(d) == rpc[d] \in {"listing", "fetching"}
ReadsDown(d) ==
    /\ ReadStep(d) /\ Reading(d)' => Len(todo'[d]) < Len(todo[d])
    /\ Reading(d) /\ ~ReadStep(d) => rpc'[d] = "crashed" \/ (rpc'[d] = rpc[d] /\ todo'[d] = todo[d])

\* What a handler's own step does to it.
LEMMA OwnCount ==
    ASSUME IndInv, NEW r \in Requests, RedisStep(r), Waiting(r)'
    PROVE  AnswersLeft(r)' \in Nat /\ AnswersLeft(r)' < AnswersLeft(r)
<1>1. /\ attempt \in [Requests -> Int] /\ attempt[r] \in 0..MaxRetries
      /\ sent \in [Requests -> Int] /\ sent[r] \in 0..3 /\ MaxRetries \in Nat
      /\ DOMAIN pc = Requests
  BY BoundsAssumption DEF IndInv, TypeOK, HandlersTypeOK
<1>2. CASE Incr(r) \/ PipelineRefused(r) \/ Respond(r)
  BY <1>1, <1>2 DEF Incr, PipelineRefused, Respond, Goto, Waiting
<1>3. CASE IncrLost(r)
  <2>1. pc[r] = "incr" /\ pc'[r] = "incr" /\ attempt[r] < MaxRetries /\ attempt'[r] = attempt[r] + 1
    BY <1>1, <1>3 DEF IncrLost, Goto, Waiting
  <2> QED
    BY <1>1, <2>1 DEF AnswersLeft
<1>4. CASE SetEntry(r) \/ SetUUID(r) \/ PushIndex(r) \/ CommandRefused(r)
  <2>1. /\ pc[r] = "persist" /\ pc'[r] = "persist" /\ attempt'[r] = attempt[r]
        /\ sent'[r] = sent[r] + 1 /\ sent[r] \in 0..2
    BY <1>1, <1>4 DEF SetEntry, SetUUID, PushIndex, CommandRefused, NextCommand
  <2> QED
    BY <1>1, <2>1 DEF AnswersLeft
<1>5. CASE PipelineLost(r)
  <2>1. /\ pc[r] = "persist" /\ pc'[r] = "persist" /\ attempt[r] < MaxRetries
        /\ attempt'[r] = attempt[r] + 1 /\ sent'[r] = 0
    BY <1>1, <1>5 DEF PipelineLost, Goto, Waiting
  <2> QED
    BY <1>1, <2>1 DEF AnswersLeft
<1>6. CASE PipelineDone(r)
  <2>1. pc[r] = "persist" /\ pc'[r] = "respond" /\ sent[r] = 3
    BY <1>1, <1>6 DEF PipelineDone, Goto
  <2> QED
    BY <1>1, <2>1 DEF AnswersLeft
<1> QED
  BY <1>2, <1>3, <1>4, <1>5, <1>6 DEF RedisStep

\* What others' steps do to it.
LEMMA OthersCount ==
    ASSUME IndInv, [Next]_vars, NEW r \in Requests, Waiting(r), ~RedisStep(r)
    PROVE  pc'[r] = "crashed" \/ (pc'[r] = pc[r] /\ attempt'[r] = attempt[r] /\ sent'[r] = sent[r])
<1>1. HandlersTypeOK /\ AuditTypeOK
  BY DEF IndInv, TypeOK
<1>2. ASSUME NEW q \in Requests \ {r}, Post(q)
      PROVE  pc'[r] = pc[r] /\ attempt'[r] = attempt[r] /\ sent'[r] = sent[r]
  <2>1. pc'[r] = pc[r] /\ sent'[r] = sent[r]
    BY <1>1, <1>2, OwnStep
  <2>2. attempt'[r] = attempt[r]
    BY <1>1, <1>2 DEF HandlersTypeOK, Post, RedisStep, Reject, NewUUIDFails, Accept, Incr, IncrLost, Sign, SignFails,
                SetEntry, SetUUID, PushIndex, CommandRefused, NextCommand, PipelineLost, PipelineRefused,
                PipelineDone, Respond
  <2> QED
    BY <2>1, <2>2
<1>3. ~Post(r)
  BY DEF Post, Waiting, Reject, NewUUIDFails, Accept, Sign, SignFails
<1>4. ASSUME NEW q \in Requests, Worker(q) PROVE UNCHANGED <<pc, attempt, sent>>
  BY <1>4 DEF Worker, QueueLeafOk, QueueLeafError, QueueLeafTimeout, Audited, handlers
<1>5. ASSUME NEW d \in Readers, Get(d) PROVE UNCHANGED <<pc, attempt, sent>>
  BY <1>5 DEF Get, ListBegin, GetBegin, ReadFails, ListGet, ListDone, GetEntry, handlers
<1>6. CASE Tick \/ Quiescent \/ UNCHANGED vars
  BY <1>6 DEF Tick, Quiescent, vars, handlers
<1>7. CASE Crash
  <2>1. pc'[r] \in {pc[r], "crashed"} /\ UNCHANGED <<attempt, sent>>
    BY <1>7 DEF Crash
  <2> QED
    BY <2>1
<1> QED
  BY <1>2, <1>3, <1>4, <1>5, <1>6, <1>7 DEF Next

\* What a step does to a read.
LEMMA ReadCount ==
    ASSUME IndInv, [Next]_vars, NEW d \in Readers
    PROVE  ReadsDown(d)
<1>1. todo[d] \in Seq(Nat) /\ DOMAIN todo = Readers /\ DOMAIN rpc = Readers
  BY DEF IndInv, TypeOK, ReadersTypeOK
<1>2. ASSUME ReadStep(d), Reading(d)' PROVE Len(todo'[d]) < Len(todo[d])
  <2>1. ListGet(d)
    BY <1>1, <1>2 DEF ReadStep, Reading, ListDone, GetEntry
  <2>2. todo[d] # <<>> /\ todo'[d] = Tail(todo[d])
    BY <1>1, <2>1 DEF ListGet
  <2> QED
    BY <1>1, <2>2
<1>3. ASSUME Reading(d), ~ReadStep(d)
      PROVE  rpc'[d] = "crashed" \/ (rpc'[d] = rpc[d] /\ todo'[d] = todo[d])
  <2>1. ~Get(d)
    BY <1>3 DEF Get, ListBegin, GetBegin, ReadFails, ReadStep, Reading
  <2> QED
    BY <2>1, ReaderStep
<1> QED
  BY <1>2, <1>3 DEF ReadsDown

(* Whatever is lost and retried, and however others' steps come in between: every answer of Redis  *)
(* brings a handler nearer to its end, or to gpg, and every step of a read brings it nearer to its   *)
(* own (store.go:74-107 and 163-185).  It is what WorkEnds rests on beside fairness.                   *)
THEOREM WorkCountsDown ==
    Spec => [][(\A r \in Requests : CountsDown(r)) /\ (\A d \in Readers : ReadsDown(d))]_vars
<1>1. IndInv /\ [Next]_vars => (\A r \in Requests : CountsDown(r)) /\ (\A d \in Readers : ReadsDown(d))
  BY OwnCount, OthersCount, ReadCount DEF CountsDown
<1> QED
  BY <1>1, Inductive, PTL DEF Spec

\* What Redis, handler and goroutine look like after the answer the handler waits for.
Pushed(r) == [lists EXCEPT ![e[r].artifact_hash] = <<e[r].log_index>> \o @]
WellInRedis(r) ==
    CASE pc[r] = "incr" -> <<counter + 1, entries, uuids, lists>>
      [] pc[r] = "persist" /\ sent[r] = 0 ->
             <<counter, Put(entries, e[r].log_index, e[r]), uuids, lists>>
      [] pc[r] = "persist" /\ sent[r] = 1 ->
             <<counter, entries, Put(uuids, e[r].uuid, e[r].log_index), lists>>
      [] pc[r] = "persist" /\ sent[r] = 2 -> <<counter, entries, uuids, Pushed(r)>>
      [] OTHER -> redis

WellInHandlers(r) ==
    CASE pc[r] = "incr" ->
             <<[pc EXCEPT ![r] = "sign"], [e EXCEPT ![r].log_index = counter], sent, refused,
               [attempt EXCEPT ![r] = 0], prior>>
      [] pc[r] = "persist" /\ sent[r] < 3 ->
             <<pc, e, [sent EXCEPT ![r] = sent[r] + 1], refused, attempt, prior>>
      [] pc[r] = "persist" /\ sent[r] = 3 ->
             <<[pc EXCEPT ![r] = IF refused[r] THEN "failed" ELSE "respond"], e, sent, refused, attempt, prior>>
      [] OTHER -> <<[pc EXCEPT ![r] = "created"], e, sent, refused, attempt, prior>>

WellInAudit(r) ==
    IF pc[r] = "persist" /\ sent[r] = 3 /\ ~refused[r]
    THEN <<[worker EXCEPT ![r] = "pending"], leaves>> ELSE audit

GoesWell(r) == <<WellInRedis(r), WellInHandlers(r), WellInAudit(r), readers, clock>>

(* Wherever losses, retries, crashes and the others' steps have left it, a handler that waits for  *)
(* Redis can be answered as its next call expects, and be a step further (store.go:74-107): the     *)
(* next state that GoesWell computes is one that RedisStep allows.  It is the ENABLED that           *)
(* WorkEnds' fairness needs, written out; IndInv holds always (Inductive).                            *)
THEOREM AnswerIsPossible ==
    ASSUME IndInv, NEW r \in Requests, Waiting(r), vars' = GoesWell(r)
    PROVE  RedisStep(r) /\ vars' # vars
<1>1. /\ pc \in [Requests -> HandlerStates] /\ sent \in [Requests -> 0..3] /\ counter \in Nat
      /\ sent[r] \in 0..3 /\ refused[r] \in BOOLEAN /\ DOMAIN e = Requests
  BY DEF IndInv, TypeOK, HandlersTypeOK, RedisTypeOK
<1>2. /\ redis' = WellInRedis(r) /\ handlers' = WellInHandlers(r) /\ audit' = WellInAudit(r)
      /\ UNCHANGED <<readers, clock>>
  BY DEF vars, GoesWell
<1>3. CASE pc[r] = "incr"
  <2>1. /\ redis' = <<counter + 1, entries, uuids, lists>> /\ audit' = audit
        /\ handlers' = <<[pc EXCEPT ![r] = "sign"], [e EXCEPT ![r].log_index = counter], sent, refused,
                         [attempt EXCEPT ![r] = 0], prior>>
    BY <1>2, <1>3 DEF WellInRedis, WellInHandlers, WellInAudit
  <2>2. counter' = counter + 1 /\ counter' - 1 = counter /\ counter' # counter
    BY <1>1, <2>1 DEF redis
  <2>3. Incr(r)
    BY <1>2, <1>3, <2>1, <2>2 DEF Incr, Goto, redis, handlers
  <2> QED
    BY <2>2, <2>3 DEF RedisStep, vars, redis
<1>4. CASE pc[r] = "persist" /\ sent[r] \in 0..2
  <2>1. /\ audit' = audit /\ UNCHANGED <<pc, e, refused, attempt, prior>>
        /\ sent' = [sent EXCEPT ![r] = sent[r] + 1]
    BY <1>1, <1>2, <1>4 DEF WellInHandlers, WellInAudit, handlers
  <2>2. sent'[r] # sent[r]
    BY <1>1, <2>1
  <2>3. CASE sent[r] = 0
    <3>1. redis' = <<counter, Put(entries, e[r].log_index, e[r]), uuids, lists>>
      BY <1>2, <1>4, <2>3 DEF WellInRedis
    <3>2. SetEntry(r)
      BY <1>2, <1>4, <2>1, <2>3, <3>1 DEF SetEntry, NextCommand, redis
    <3> QED
      BY <2>2, <3>2 DEF RedisStep, vars, handlers
  <2>4. CASE sent[r] = 1
    <3>1. redis' = <<counter, entries, Put(uuids, e[r].uuid, e[r].log_index), lists>>
      BY <1>2, <1>4, <2>4 DEF WellInRedis
    <3>2. SetUUID(r)
      BY <1>2, <1>4, <2>1, <2>4, <3>1 DEF SetUUID, NextCommand, redis
    <3> QED
      BY <2>2, <3>2 DEF RedisStep, vars, handlers
  <2>5. CASE sent[r] = 2
    <3>1. redis' = <<counter, entries, uuids, Pushed(r)>>
      BY <1>2, <1>4, <2>5 DEF WellInRedis
    <3>2. PushIndex(r)
      BY <1>2, <1>4, <2>1, <2>5, <3>1 DEF PushIndex, NextCommand, redis, Pushed
    <3> QED
      BY <2>2, <3>2 DEF RedisStep, vars, handlers
  <2> QED
    BY <1>4, <2>3, <2>4, <2>5
<1>5. CASE (pc[r] = "persist" /\ sent[r] = 3) \/ pc[r] = "respond"
  <2>1. redis' = redis /\ UNCHANGED <<e, sent, refused, attempt, prior>>
    BY <1>2, <1>5 DEF WellInRedis, WellInHandlers, handlers
  <2>2. CASE pc[r] = "respond"
    <3>1. pc' = [pc EXCEPT ![r] = "created"] /\ audit' = audit
      BY <1>2, <2>2 DEF WellInHandlers, WellInAudit, handlers
    <3>2. Respond(r) /\ pc'[r] # pc[r]
      BY <1>1, <1>2, <2>1, <2>2, <3>1 DEF Respond, Goto
    <3> QED
      BY <3>2 DEF RedisStep, vars, handlers
  <2>3. CASE pc[r] = "persist" /\ sent[r] = 3 /\ refused[r]
    <3>1. pc' = [pc EXCEPT ![r] = "failed"] /\ audit' = audit
      BY <1>2, <2>3 DEF WellInHandlers, WellInAudit, handlers
    <3>2. PipelineRefused(r) /\ pc'[r] # pc[r]
      BY <1>1, <1>2, <2>1, <2>3, <3>1 DEF PipelineRefused, Goto
    <3> QED
      BY <3>2 DEF RedisStep, vars, handlers
  <2>4. CASE pc[r] = "persist" /\ sent[r] = 3 /\ ~refused[r]
    <3>1. pc' = [pc EXCEPT ![r] = "respond"] /\ audit' = <<[worker EXCEPT ![r] = "pending"], leaves>>
      <4>1. WellInHandlers(r) = <<[pc EXCEPT ![r] = "respond"], e, sent, refused, attempt, prior>>
        BY <2>4 DEF WellInHandlers
      <4>2. WellInAudit(r) = <<[worker EXCEPT ![r] = "pending"], leaves>>
        BY <2>4 DEF WellInAudit
      <4> QED
        BY <1>2, <4>1, <4>2 DEF handlers
    <3>2. PipelineDone(r) /\ pc'[r] # pc[r]
      BY <1>1, <1>2, <2>1, <2>4, <3>1 DEF PipelineDone, Goto, audit
    <3> QED
      BY <3>2 DEF RedisStep, vars, handlers
  <2> QED
    BY <1>1, <1>5, <2>2, <2>3, <2>4
<1> QED
  BY <1>1, <1>3, <1>4, <1>5 DEF Waiting

\* What a read looks like after its next GET, or when there is nothing left to get.
ReadOn(d) ==
    LET n == Head(todo[d]) IN
    CASE rpc[d] = "listing" /\ todo[d] = <<>> -> <<[rpc EXCEPT ![d] = "listed"], query, todo, got, known>>
      [] rpc[d] = "listing" /\ todo[d] # <<>> /\ n \in DOMAIN entries ->
             <<rpc, query, [todo EXCEPT ![d] = Tail(@)], [got EXCEPT ![d] = Append(@, entries[n])], known>>
      [] rpc[d] = "listing" /\ todo[d] # <<>> /\ n \notin DOMAIN entries ->
             <<rpc, query, [todo EXCEPT ![d] = Tail(@)], got, known>>
      [] rpc[d] = "fetching" /\ n \in DOMAIN entries ->
             <<[rpc EXCEPT ![d] = "found"], query, todo, [got EXCEPT ![d] = <<entries[n]>>], known>>
      [] OTHER -> <<[rpc EXCEPT ![d] = "failed"], query, todo, got, known>>

ReadGoesOn(d) == <<redis, handlers, audit, ReadOn(d), clock>>

(* A read that has begun can go on whatever has become of the numbers it was given, stored or  *)
(* not (store.go:163-185): the same, of reads.                                                  *)
THEOREM ReadIsPossible ==
    ASSUME IndInv, NEW d \in Readers, Reading(d), vars' = ReadGoesOn(d)
    PROVE  ReadStep(d) /\ vars' # vars
<1> DEFINE n == Head(todo[d])
<1>1. todo[d] \in Seq(Nat) /\ DOMAIN todo = Readers /\ DOMAIN rpc = Readers
  BY DEF IndInv, TypeOK, ReadersTypeOK
<1>2. readers' = ReadOn(d) /\ UNCHANGED <<redis, handlers, audit, clock>>
  BY DEF vars, ReadGoesOn
<1>3. CASE rpc[d] = "listing" /\ todo[d] = <<>>
  <2>1. ReadOn(d) = <<[rpc EXCEPT ![d] = "listed"], query, todo, got, known>>
    BY <1>3 DEF ReadOn
  <2>2. ListDone(d) /\ rpc'[d] # rpc[d]
    BY <1>1, <1>2, <1>3, <2>1 DEF ListDone, readers
  <2> QED
    BY <2>2 DEF ReadStep, vars, readers
<1>4. CASE rpc[d] = "listing" /\ todo[d] # <<>>
  <2>1. Tail(todo[d]) # todo[d]
    BY <1>1, <1>4
  <2>2. CASE n \in DOMAIN entries
    <3>1. ReadOn(d) = <<rpc, query, [todo EXCEPT ![d] = Tail(@)], [got EXCEPT ![d] = Append(@, entries[n])], known>>
      BY <1>4, <2>2 DEF ReadOn
    <3>2. ListGet(d) /\ todo'[d] # todo[d]
      BY <1>1, <1>2, <1>4, <2>1, <2>2, <3>1 DEF ListGet, readers
    <3> QED
      BY <3>2 DEF ReadStep, vars, readers
  <2>3. CASE n \notin DOMAIN entries
    <3>1. ReadOn(d) = <<rpc, query, [todo EXCEPT ![d] = Tail(@)], got, known>>
      BY <1>4, <2>3 DEF ReadOn
    <3>2. ListGet(d) /\ todo'[d] # todo[d]
      BY <1>1, <1>2, <1>4, <2>1, <2>3, <3>1 DEF ListGet, readers
    <3> QED
      BY <3>2 DEF ReadStep, vars, readers
  <2> QED
    BY <2>2, <2>3
<1>5. CASE rpc[d] = "fetching"
  <2>1. CASE n \in DOMAIN entries
    <3>1. ReadOn(d) = <<[rpc EXCEPT ![d] = "found"], query, todo, [got EXCEPT ![d] = <<entries[n]>>], known>>
      BY <1>5, <2>1 DEF ReadOn
    <3>2. GetEntry(d) /\ rpc'[d] # rpc[d]
      BY <1>1, <1>2, <1>5, <2>1, <3>1 DEF GetEntry, readers
    <3> QED
      BY <3>2 DEF ReadStep, vars, readers
  <2>2. CASE n \notin DOMAIN entries
    <3>1. ReadOn(d) = <<[rpc EXCEPT ![d] = "failed"], query, todo, got, known>>
      BY <1>5, <2>2 DEF ReadOn
    <3>2. GetEntry(d) /\ rpc'[d] # rpc[d]
      BY <1>1, <1>2, <1>5, <2>2, <3>1 DEF GetEntry, readers
    <3> QED
      BY <3>2 DEF ReadStep, vars, readers
  <2> QED
    BY <2>1, <2>2
<1> QED
  BY <1>3, <1>4, <1>5 DEF Reading
=============================================================================
