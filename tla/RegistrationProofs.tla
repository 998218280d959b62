------------------------- MODULE RegistrationProofs -------------------------
(***************************************************************************)
(* Theorems about Registration for any number of instances, any requests,  *)
(* and any pattern of crashes, lost connections and error replies.         *)
(***************************************************************************)
EXTENDS Registration, FiniteSetTheorems, SequenceTheorems, TLAPS

(* The contact of a request that uses Redis is a contact. *)
LEMMA ContactType ==
  ASSUME RegistrationAssumption, NEW r \in Requests, r.kind # "activate"
  PROVE  /\ r \in Request /\ Contact(r) \in Contacts
         /\ r.kind = "send" => r.type \in Types
         /\ r.kind = "register" => r.code \in Codes
         /\ CodeKey(r) \in Contacts \X Types
         /\ r.kind = "register" => CodeKey(r) = <<Contact(r), 1>>
<1>1. r \in Request
  BY DEF RegistrationAssumption
<1>2. /\ r.phone \in Phones \cup {Nothing} /\ r.email \in Emails \cup {Nothing}
      /\ r.kind = "send" => r.type \in Types
      /\ r.kind = "register" => r.code \in Codes
  BY <1>1 DEF Request
<1>3. Contact(r) \in Contacts
  BY <1>2 DEF Contact, Contacts
<1>. QED  BY <1>1, <1>2, <1>3 DEF CodeKey, RegistrationAssumption

(* The request of an instance that has a Redis command to send. *)
LEMMA BusyRequest ==
  ASSUME RegistrationAssumption, TypeOK, NEW s \in Servers, pc[s] # "idle"
  PROVE  /\ req[s] \in Requests
         /\ req[s].kind = (IF pc[s] \in {"verify", "delete"} THEN "register" ELSE "send")
<1>1. req[s] \in Requests \cup {NoRequest} /\ pc[s] \in
        {"idle", "count", "save", "frequency", "verify", "delete"}
  BY DEF TypeOK
<1>2. req[s].kind = (IF pc[s] \in {"verify", "delete"} THEN "register" ELSE "send")
  BY <1>1 DEF TypeOK
<1>3. req[s] # NoRequest
  BY <1>2 DEF NoRequest
<1>. QED  BY <1>1, <1>2, <1>3

(* A command leaves the types of conn and failures alone. *)
LEMMA CommandType ==
  ASSUME TypeOK, NEW s \in Servers, NEW o, Command(s, o)
  PROVE  conn' \in [Servers -> BOOLEAN] /\ failures' \in Nat
BY DEF TypeOK, Command

(* So does the end of a request. *)
LEMMA EndRequestType ==
  ASSUME TypeOK, NEW s \in Servers, EndRequest(s)
  PROVE  /\ pc' \in [Servers -> {"idle", "count", "save", "frequency", "verify", "delete"}]
         /\ req' \in [Servers -> Requests \cup {NoRequest}]
         /\ \A t \in Servers :
              /\ pc'[t] \in {"count", "save", "frequency"} => req'[t].kind = "send"
              /\ pc'[t] \in {"verify", "delete"} => req'[t].kind = "register"
         /\ seen' \in [Servers -> Nat] /\ draft' \in [Servers -> Stored]
BY DEF TypeOK, EndRequest, Become, Stored, Absent

-----------------------------------------------------------------------------
(* The type invariant, one lemma per action. *)

LEMMA ReceiveType ==
  ASSUME RegistrationAssumption, TypeOK, NEW s \in Servers, NEW r \in Requests,
         Receive(s, r)
  PROVE  TypeOK'
<1>1. CASE Refusal(r) # "none"
  <2>1. Refusal(r) \in {"success", "invalidPhone", "invalidEmail", "invalidUsername",
                        "invalidPassword"}
    <3>1. r.kind \in {"send", "register", "activate"}
      BY DEF RegistrationAssumption, Request
    <3>. QED  BY <1>1, <3>1 DEF Refusal, SendRefusal, RegisterRefusal
  <2>2. EndRequest(s) /\ response' = [to |-> s, code |-> Refusal(r)]
    BY <1>1 DEF Receive, Respond
  <2>3. UNCHANGED <<handled, handlers, codes, counts, clock, conn, failures, saved,
                    accounts, issued, sentAt, promised>>
    BY <1>1 DEF Receive, redisVars
  <2>. QED  BY <2>1, <2>2, <2>3, EndRequestType DEF TypeOK
<1>2. CASE Refusal(r) = "none"
  <2>1. r.kind \in {"send", "register"} /\ r.kind # "activate"
    <3>1. r.kind \in {"send", "register", "activate"}
      BY DEF RegistrationAssumption, Request
    <3>. QED  BY <1>2, <3>1 DEF Refusal, SendRefusal, RegisterRefusal
  <2>2. Contact(r) \in Contacts
    BY <2>1, ContactType
  <2>3. /\ req' = [req EXCEPT ![s] = r]
        /\ pc' = [pc EXCEPT ![s] = IF r.kind = "send" THEN "count" ELSE "verify"]
        /\ response' = Silence /\ handled' = handled + 1
        /\ handlers' = [handlers EXCEPT ![Contact(r)] = @ \cup {s}]
        /\ UNCHANGED <<seen, draft, codes, counts, clock, conn, failures, saved,
                       accounts, issued, sentAt, promised>>
    BY <1>2 DEF Receive, Become, redisVars
  <2>. QED  BY <2>1, <2>2, <2>3 DEF TypeOK
<1>. QED  BY <1>1, <1>2

LEMMA ReadCountType ==
  ASSUME RegistrationAssumption, TypeOK, NEW s \in Servers, NEW o, NEW k \in Codes,
         ReadCount(s, o, k)
  PROVE  TypeOK'
<1>. DEFINE n == IF o = "done" THEN counts[Contact(req[s])].n ELSE 0
<1>1. n \in Nat
  <2>1. Contact(req[s]) \in Contacts
    BY BusyRequest, ContactType DEF ReadCount
  <2>2. counts[Contact(req[s])].n \in Nat
    BY <2>1 DEF TypeOK
  <2>. QED  BY <2>2
<1>2. conn' \in [Servers -> BOOLEAN] /\ failures' \in Nat
  BY CommandType DEF ReadCount
<1>3. UNCHANGED <<codes, counts, clock, handled, saved, accounts, issued, sentAt,
                  promised, handlers>>
  BY DEF ReadCount, redisVars, historyVars
<1>4. CASE n >= MaxSends
  <2>1. EndRequest(s) /\ response' = [to |-> s, code |-> "tooManyRequests"]
    BY <1>4 DEF ReadCount, Respond
  <2>. QED  BY <1>2, <1>3, <2>1, EndRequestType DEF TypeOK
<1>5. CASE ~(n >= MaxSends)
  <2>1. /\ pc' = [pc EXCEPT ![s] = "save"] /\ pc[s] = "count"
        /\ seen' = [seen EXCEPT ![s] = n]
        /\ draft' = [draft EXCEPT ![s] = [code |-> k, until |-> 0]]
        /\ response' = Silence /\ req' = req
    BY <1>5 DEF ReadCount, Become
  <2>2. [code |-> k, until |-> 0] \in Stored
    BY DEF Stored
  <2>. QED  BY <1>1, <1>2, <1>3, <2>1, <2>2 DEF TypeOK
<1>. QED  BY <1>4, <1>5

LEMMA SaveCodeType ==
  ASSUME RegistrationAssumption, TypeOK, NEW s \in Servers, NEW o, SaveCode(s, o)
  PROVE  TypeOK'
<1>. DEFINE r == req[s]
            fresh == [draft[s] EXCEPT !.until = CodeExpiry]
<1>1. /\ r \in Requests /\ r.kind = "send" /\ Contact(r) \in Contacts
      /\ r.type \in Types /\ CodeKey(r) \in Contacts \X Types
  BY BusyRequest, ContactType DEF SaveCode
<1>2. fresh \in Stored /\ fresh.until > clock
  <2>1. draft[s] \in [code : Codes \cup {NoCode}, until : Nat] /\ clock \in Nat
    BY DEF TypeOK, Stored
  <2>2. fresh = [code |-> draft[s].code, until |-> clock + 1]
    BY <2>1 DEF CodeExpiry
  <2>. QED  BY <2>1, <2>2 DEF Stored
<1>3. conn' \in [Servers -> BOOLEAN] /\ failures' \in Nat
  BY CommandType DEF SaveCode
<1>4. UNCHANGED <<counts, clock, handled, accounts, issued, sentAt, handlers>>
  BY DEF SaveCode
<1>5. codes' = codes \/ codes' = [codes EXCEPT ![CodeKey(r)] = fresh]
  BY DEF SaveCode
<1>6. /\ codes' \in [Contacts \X Types -> Stored]
      /\ \A k \in DOMAIN codes' : codes'[k] # Absent => codes'[k].until > clock
  <2>. HIDE DEF fresh
  <2>1. /\ codes \in [Contacts \X Types -> Stored]
        /\ \A k \in DOMAIN codes : codes[k] # Absent => codes[k].until > clock
    BY DEF TypeOK
  <2>2. CASE codes' = codes
    BY <2>1, <2>2
  <2>3. CASE codes' = [codes EXCEPT ![CodeKey(r)] = fresh]
    <3>1. \A k \in Contacts \X Types :
            codes'[k] = IF k = CodeKey(r) THEN fresh ELSE codes[k]
      BY <1>1, <2>1, <2>3
    <3>2. codes' \in [Contacts \X Types -> Stored]
      BY <1>2, <2>1, <2>3
    <3>. QED  BY <1>2, <2>1, <3>1, <3>2
  <2>. QED  BY <1>5, <2>2, <2>3
<1>7. promised' \in [Contacts \X Types -> Stored]
  <2>1. promised' = promised \/
        promised' = [promised EXCEPT ![<<Contact(r), r.type>>] = Absent]
    BY DEF SaveCode
  <2>2. Absent \in Stored
    BY DEF Absent, Stored
  <2>3. promised \in [Contacts \X Types -> Stored]
    BY DEF TypeOK
  <2>. QED  BY <2>1, <2>2, <2>3
<1>8. saved' \in [Contacts -> Nat]
  <2>1. saved' = saved \/ saved' = [saved EXCEPT ![Contact(r)] = @ + 1]
    BY DEF SaveCode
  <2>2. saved \in [Contacts -> Nat] /\ saved[Contact(r)] + 1 \in Nat
    BY <1>1 DEF TypeOK
  <2>. QED  BY <2>1, <2>2
<1>9. CASE o = "done"
  <2>1. /\ pc' = [pc EXCEPT ![s] = "frequency"] /\ pc[s] = "save"
        /\ draft' = [draft EXCEPT ![s] = fresh] /\ response' = Silence
        /\ UNCHANGED <<req, seen>>
    BY <1>9 DEF SaveCode, Become
  <2>. QED  BY <1>2, <1>3, <1>4, <1>6, <1>7, <1>8, <2>1 DEF TypeOK
<1>10. CASE o # "done"
  <2>1. EndRequest(s) /\ response' = [to |-> s, code |-> "internal"]
    BY <1>10 DEF SaveCode, Respond
  <2>. QED  BY <1>3, <1>4, <1>6, <1>7, <1>8, <2>1, EndRequestType DEF TypeOK
<1>. QED  BY <1>9, <1>10

LEMMA CountSendType ==
  ASSUME RegistrationAssumption, TypeOK, NEW s \in Servers, NEW o, CountSend(s, o)
  PROVE  TypeOK'
<1>. DEFINE r == req[s]
<1>1. Contact(r) \in Contacts /\ r.type \in Types
  BY BusyRequest, ContactType DEF CountSend
<1>2. conn' \in [Servers -> BOOLEAN] /\ failures' \in Nat
  BY CommandType DEF CountSend
<1>3. EndRequest(s) /\ response' = [to |-> s, code |-> "success"]
  BY DEF CountSend, Respond
<1>4. counts' \in [Contacts -> [n : Nat, until : Nat]]
  <2>1. counts' = counts \/
        counts' = [counts EXCEPT ![Contact(r)] = [n |-> seen[s] + 1, until |-> clock + Day]]
    BY DEF CountSend
  <2>2. /\ counts \in [Contacts -> [n : Nat, until : Nat]]
        /\ seen[s] + 1 \in Nat /\ clock + Day \in Nat
    BY DEF TypeOK, RegistrationAssumption
  <2>3. [n |-> seen[s] + 1, until |-> clock + Day] \in [n : Nat, until : Nat]
    BY <2>2
  <2>. QED  BY <2>1, <2>2, <2>3
<1>5. sentAt' \in [Contacts -> Seq(0..MaxClock)]
  <2>1. sentAt' = [sentAt EXCEPT ![Contact(r)] = Append(sentAt[Contact(r)], clock)]
    BY DEF CountSend
  <2>2. sentAt \in [Contacts -> Seq(0..MaxClock)] /\ clock \in 0..MaxClock
    BY DEF TypeOK
  <2>. QED  BY <1>1, <2>1, <2>2, AppendProperties
<1>6. promised' \in [Contacts \X Types -> Stored]
  <2>1. promised' = promised \/
        promised' = [promised EXCEPT ![<<Contact(r), r.type>>] = draft[s]]
    BY DEF CountSend
  <2>2. promised \in [Contacts \X Types -> Stored] /\ draft[s] \in Stored
    BY DEF TypeOK
  <2>. QED  BY <2>1, <2>2
<1>7. UNCHANGED <<codes, clock, handled, saved, accounts, issued, handlers>>
  BY DEF CountSend
<1>. QED  BY <1>2, <1>3, <1>4, <1>5, <1>6, <1>7, EndRequestType DEF TypeOK

LEMMA VerifyType ==
  ASSUME RegistrationAssumption, TypeOK, NEW s \in Servers, NEW o, Verify(s, o)
  PROVE  TypeOK'
<1>1. conn' \in [Servers -> BOOLEAN] /\ failures' \in Nat
  BY CommandType DEF Verify
<1>2. UNCHANGED <<codes, counts, clock, handled, saved, accounts, issued, sentAt,
                  promised, handlers>>
  BY DEF Verify, redisVars, historyVars
<1>3. CASE EndRequest(s) /\ response' = [to |-> s, code |-> "invalidCode"]
  BY <1>1, <1>2, <1>3, EndRequestType DEF TypeOK
<1>4. CASE /\ pc' = [pc EXCEPT ![s] = "delete"] /\ pc[s] = "verify"
           /\ response' = Silence /\ UNCHANGED <<req, seen, draft>>
  BY <1>1, <1>2, <1>4 DEF TypeOK
<1>. QED  BY <1>3, <1>4 DEF Verify, Respond, Become

LEMMA FinishType ==
  ASSUME RegistrationAssumption, TypeOK, NEW s \in Servers, NEW o, NEW u \in UserIds,
         Finish(s, o, u)
  PROVE  TypeOK'
<1>1. Contact(req[s]) \in Contacts /\ CodeKey(req[s]) \in Contacts \X Types
  BY BusyRequest, ContactType DEF Finish
<1>2. conn' \in [Servers -> BOOLEAN] /\ failures' \in Nat
  BY CommandType DEF Finish
<1>3. EndRequest(s) /\ response' = [to |-> s, code |-> "success"]
  BY DEF Finish, Respond
<1>4. Absent \in Stored
  BY DEF Absent, Stored
<1>5. /\ codes' \in [Contacts \X Types -> Stored]
      /\ \A k \in DOMAIN codes' : codes'[k] # Absent => codes'[k].until > clock
  BY <1>1, <1>4 DEF Finish, TypeOK
<1>6. promised' \in [Contacts \X Types -> Stored]
  BY <1>1, <1>4 DEF Finish, TypeOK
<1>7. accounts' \in [Contacts -> Nat] /\ issued' \in [UserIds -> Nat]
  <2>. DEFINE c == Contact(req[s])
  <2>. HIDE DEF c
  <2>1. accounts \in [Contacts -> Nat] /\ issued \in [UserIds -> Nat]
    BY DEF TypeOK
  <2>2. c \in Contacts
    BY <1>1 DEF c
  <2>3. accounts[c] + 1 \in Nat /\ issued[u] + 1 \in Nat
    BY <2>1, <2>2
  <2>4. /\ accounts' = [accounts EXCEPT ![c] = accounts[c] + 1]
        /\ issued' = [issued EXCEPT ![u] = issued[u] + 1]
    BY DEF Finish, c
  <2>. QED  BY <2>1, <2>3, <2>4
<1>8. UNCHANGED <<counts, clock, handled, saved, sentAt, handlers>>
  BY DEF Finish
<1>. QED  BY <1>2, <1>3, <1>5, <1>6, <1>7, <1>8, EndRequestType DEF TypeOK

LEMMA TickType == ASSUME RegistrationAssumption, TypeOK, Tick PROVE TypeOK'
<1>1. Absent \in Stored /\ Zero \in [n : Nat, until : Nat]
  BY DEF Absent, Stored, Zero
<1>2. clock' \in 0..MaxClock
  BY DEF Tick, TypeOK, RegistrationAssumption
<1>3. /\ codes' \in [Contacts \X Types -> Stored]
      /\ \A k \in DOMAIN codes' : codes'[k] # Absent => codes'[k].until > clock'
  BY <1>1 DEF Tick, TypeOK
<1>4. /\ counts' \in [Contacts -> [n : Nat, until : Nat]]
      /\ promised' \in [Contacts \X Types -> Stored]
  BY <1>1 DEF Tick, TypeOK
<1>. QED  BY <1>2, <1>3, <1>4 DEF Tick, TypeOK

LEMMA TypeStep == RegistrationAssumption /\ TypeOK /\ [Next]_vars => TypeOK'
<1>. SUFFICES ASSUME RegistrationAssumption, TypeOK, [Next]_vars PROVE TypeOK'
  OBVIOUS
<1>1. ASSUME NEW s \in Servers, Crash(s) PROVE TypeOK'
  <2>1. /\ EndRequest(s) /\ response' = Silence
        /\ conn' = [conn EXCEPT ![s] = TRUE] /\ failures' = failures + 1
        /\ UNCHANGED <<codes, counts, clock, handled, saved, accounts, issued,
                       sentAt, promised, handlers>>
    BY <1>1 DEF Crash, redisVars, historyVars
  <2>2. conn' \in [Servers -> BOOLEAN] /\ failures' \in Nat
    BY <2>1 DEF TypeOK
  <2>3. /\ pc' \in [Servers -> {"idle", "count", "save", "frequency", "verify", "delete"}]
        /\ req' \in [Servers -> Requests \cup {NoRequest}]
        /\ \A t \in Servers :
             /\ pc'[t] \in {"count", "save", "frequency"} => req'[t].kind = "send"
             /\ pc'[t] \in {"verify", "delete"} => req'[t].kind = "register"
        /\ seen' \in [Servers -> Nat] /\ draft' \in [Servers -> Stored]
    BY <2>1, EndRequestType
  <2>. QED  BY <2>1, <2>2, <2>3, Zenon DEF TypeOK
<1>2. CASE UNCHANGED vars
  BY <1>2 DEF vars, TypeOK
<1>. QED
  BY <1>1, <1>2, ReceiveType, ReadCountType, SaveCodeType, CountSendType, VerifyType,
     FinishType, TickType DEF Next

(* Types, and nothing in Redis that has expired. *)
THEOREM RegistrationTypeCorrect == Spec => []TypeOK
<1>1. Init => TypeOK
  <2>1. 0 \in 0..MaxClock /\ Absent \in Stored
    BY RegistrationAssumption DEF RegistrationAssumption, Absent, Stored
  <2>. QED  BY <2>1 DEF Init, TypeOK, Zero
<1>. QED  BY <1>1, TypeStep, RegistrationAssumption, PTL DEF Spec

-----------------------------------------------------------------------------
(* AccountsPerCode.  The registrations of a contact that are verified and not
   yet finished count as accounts; while a code is stored, every instance may
   still verify it. *)

N == Cardinality(Servers)
Pending(c) == {s \in Servers : pc[s] = "delete" /\ Contact(req[s]) = c}
Usable(c) == codes[<<c, 1>>] # Absent
Demand(c) == IF Usable(c) THEN N ELSE Cardinality(Pending(c))
Supply(c) == N * (saved[c] + failures)

CodeInv ==
  /\ TypeOK
  /\ \A s \in Servers : pc[s] = "delete" => conn[s]
  /\ \A c \in Contacts : accounts[c] + Demand(c) <= Supply(c)

LEMMA CountFacts ==
  ASSUME RegistrationAssumption, TypeOK, NEW c \in Contacts
  PROVE  /\ N \in Nat /\ Cardinality(Pending(c)) \in 0..N
         /\ Demand(c) \in 0..N
         /\ accounts[c] \in Nat /\ saved[c] \in Nat /\ failures \in Nat
         /\ Supply(c) \in Nat
<1>1. IsFiniteSet(Servers) /\ Pending(c) \in SUBSET Servers
  BY DEF RegistrationAssumption, Pending
<1>2. N \in Nat
  BY <1>1, FS_CardinalityType DEF N
<1>3. Cardinality(Pending(c)) \in Nat /\ Cardinality(Pending(c)) <= N
  BY <1>1, FS_CardinalityType, FS_Subset DEF N
<1>4. accounts[c] \in Nat /\ saved[c] \in Nat /\ failures \in Nat
  BY DEF TypeOK
<1>. QED  BY <1>2, <1>3, <1>4 DEF Demand, Supply

LEMMA Times ==
  ASSUME NEW n \in Nat, NEW x \in Nat, NEW y \in Nat, x <= y
  PROVE  n * x <= n * y /\ n * (x + 1) = n * x + n
OBVIOUS

(* What every step needs to keep the account of a contact. *)
LEMMA Budget ==
  ASSUME RegistrationAssumption, CodeInv, TypeOK', NEW c \in Contacts,
         \/ /\ accounts'[c] = accounts[c]
            /\ Demand(c)' <= Demand(c)
            /\ saved'[c] + failures' >= saved[c] + failures
         \/ /\ accounts'[c] = accounts[c]
            /\ saved'[c] + failures' >= saved[c] + failures + 1
         \/ /\ accounts'[c] = accounts[c] + 1
            /\ Demand(c)' + 1 <= Demand(c)
            /\ saved'[c] + failures' >= saved[c] + failures
         \/ /\ accounts'[c] = accounts[c] + 1
            /\ Demand(c) >= 1
            /\ saved'[c] + failures' >= saved[c] + failures + 1
  PROVE  accounts'[c] + Demand(c)' <= Supply(c)'
<1>1. /\ N \in Nat /\ Demand(c) \in 0..N /\ accounts[c] \in Nat
      /\ saved[c] \in Nat /\ failures \in Nat /\ Supply(c) \in Nat
  BY CountFacts DEF CodeInv
<1>2. /\ N' = N /\ Demand(c)' \in 0..N /\ accounts'[c] \in Nat
      /\ saved'[c] \in Nat /\ failures' \in Nat
  <2>1. IsFiniteSet(Servers) /\ Pending(c)' \in SUBSET Servers /\ N' = N
    BY DEF RegistrationAssumption, Pending, N
  <2>2. Cardinality(Pending(c)') \in Nat /\ Cardinality(Pending(c)') <= N
    BY <2>1, FS_CardinalityType, FS_Subset DEF N
  <2>3. Demand(c)' \in 0..N
    BY <1>1, <2>1, <2>2 DEF Demand
  <2>. QED  BY <2>1, <2>3 DEF TypeOK
<1>3. accounts[c] + Demand(c) <= N * (saved[c] + failures)
  BY DEF CodeInv, Supply
<1>. DEFINE x == saved[c] + failures
            y == saved'[c] + failures'
<1>4. x \in Nat /\ y \in Nat /\ N * x \in Nat /\ N * y \in Nat
  BY <1>1, <1>2
<1>5. accounts[c] + Demand(c) <= N * x
  BY <1>3
<1>6. Supply(c)' = N * y
  BY <1>2 DEF Supply
<1>7. CASE y >= x + 1
  <2>1. N * (x + 1) <= N * y /\ N * (x + 1) = N * x + N
    BY <1>1, <1>4, <1>7, Times
  <2>. HIDE DEF x, y
  <2>. QED  BY <1>1, <1>2, <1>4, <1>5, <1>6, <2>1
<1>8. CASE y >= x /\ accounts'[c] + Demand(c)' <= accounts[c] + Demand(c)
  <2>1. N * x <= N * y
    BY <1>1, <1>4, <1>8, Times
  <2>. HIDE DEF x, y
  <2>. QED  BY <1>1, <1>2, <1>4, <1>5, <1>6, <1>8, <2>1
<1>. QED  BY <1>1, <1>2, <1>7, <1>8

(* A command, and the end of a request, concern one instance. *)
LEMMA CommandEffect ==
  ASSUME TypeOK, NEW s \in Servers, NEW o, Command(s, o)
  PROVE  /\ \A t \in Servers \ {s} : conn'[t] = conn[t]
         /\ failures' >= failures
         /\ conn[s] /\ o # "done" => failures' = failures + 1
         /\ o = "done" => conn[s] /\ conn'[s]
BY DEF TypeOK, Command, Outcomes

Alone(s) ==
  \A t \in Servers \ {s} : pc'[t] = pc[t] /\ req'[t] = req[t] /\ conn'[t] = conn[t]

LEMMA PendingEffect ==
  ASSUME TypeOK, NEW s \in Servers, Alone(s)
  PROVE  \A c \in Contacts :
           /\ pc[s] # "delete" /\ pc'[s] # "delete" => Pending(c)' = Pending(c)
           /\ pc'[s] # "delete" => Pending(c)' = Pending(c) \ {s}
<1>. SUFFICES ASSUME NEW c \in Contacts, pc'[s] # "delete"
              PROVE  /\ pc[s] # "delete" => Pending(c)' = Pending(c)
                     /\ Pending(c)' = Pending(c) \ {s}
  OBVIOUS
<1>1. \A t \in Servers : t \in Pending(c)' <=> t \in Pending(c) /\ t # s
  BY DEF Alone, Pending
<1>2. Pending(c) \subseteq Servers /\ Pending(c)' \subseteq Servers
  BY DEF Pending
<1>3. pc[s] # "delete" => s \notin Pending(c)
  BY DEF Pending
<1>. QED  BY <1>1, <1>2, <1>3

LEMMA AloneEffect ==
  ASSUME TypeOK, NEW s \in Servers,
         pc' = [pc EXCEPT ![s] = pc'[s]], req' = [req EXCEPT ![s] = req'[s]],
         \A t \in Servers \ {s} : conn'[t] = conn[t]
  PROVE  Alone(s)
BY DEF Alone, TypeOK

(* The invariant after a step of one instance, contact by contact. *)
LEMMA CodeInvAfter ==
  ASSUME CodeInv, TypeOK', NEW s \in Servers, Alone(s),
         pc'[s] = "delete" => conn'[s],
         \A c \in Contacts : accounts'[c] + Demand(c)' <= Supply(c)'
  PROVE  CodeInv'
BY DEF CodeInv, Alone

(* A step that only frees some contact's codes, or spends a failure. *)
LEMMA HarmlessStep ==
  ASSUME RegistrationAssumption, CodeInv, TypeOK', NEW c \in Contacts,
         accounts' = accounts, Pending(c)' \subseteq Pending(c),
         \/ saved'[c] + failures' >= saved[c] + failures + 1
         \/ saved'[c] + failures' >= saved[c] + failures /\ (Usable(c)' => Usable(c))
  PROVE  accounts'[c] + Demand(c)' <= Supply(c)'
<1>1. IsFiniteSet(Servers) /\ Pending(c) \in SUBSET Servers /\ N' = N
  BY DEF RegistrationAssumption, Pending, N
<1>2. IsFiniteSet(Pending(c))
  BY <1>1, FS_Subset
<1>3. Pending(c)' \in SUBSET Pending(c)
  OBVIOUS
<1>4. Cardinality(Pending(c)') <= Cardinality(Pending(c))
  BY <1>2, <1>3, FS_Subset
<1>5. N \in Nat /\ Cardinality(Pending(c)) \in 0..N
  BY CountFacts DEF CodeInv
<1>6. Cardinality(Pending(c)') \in Nat
  BY <1>2, <1>3, FS_Subset, FS_CardinalityType
<1>7. CASE saved'[c] + failures' >= saved[c] + failures + 1
  BY <1>7, Budget
<1>8. CASE saved'[c] + failures' >= saved[c] + failures /\ (Usable(c)' => Usable(c))
  <2>1. Demand(c)' <= Demand(c)
    BY <1>1, <1>4, <1>5, <1>6, <1>8 DEF Demand
  <2>. QED  BY <1>8, <2>1, Budget
<1>. QED  BY <1>7, <1>8

-----------------------------------------------------------------------------
LEMMA QuietCode ==
  ASSUME RegistrationAssumption, CodeInv, TypeOK', NEW s \in Servers, Alone(s),
         pc[s] # "delete", pc'[s] # "delete", accounts' = accounts, codes' = codes,
         saved' = saved, failures' >= failures
  PROVE  CodeInv'
<1>1. ASSUME NEW c \in Contacts PROVE accounts'[c] + Demand(c)' <= Supply(c)'
  <2>1. Pending(c)' = Pending(c)
    BY PendingEffect DEF CodeInv
  <2>2. saved'[c] + failures' >= saved[c] + failures
    <3>1. saved[c] \in Nat /\ failures \in Nat
      BY CountFacts DEF CodeInv
    <3>2. failures' \in Nat
      BY DEF TypeOK
    <3>. QED  BY <3>1, <3>2
  <2>3. Usable(c)' => Usable(c)
    BY DEF Usable
  <2>. QED  BY <2>1, <2>2, <2>3, HarmlessStep
<1>. QED  BY <1>1, CodeInvAfter

LEMMA SaveCodeCode ==
  ASSUME RegistrationAssumption, CodeInv, TypeOK', NEW s \in Servers, NEW o,
         SaveCode(s, o)
  PROVE  CodeInv'
<1>. DEFINE r == req[s]
<1>. TypeOK
  BY DEF CodeInv
<1>1. /\ r \in Requests /\ r.kind = "send" /\ Contact(r) \in Contacts
      /\ r.type \in Types /\ CodeKey(r) = <<Contact(r), r.type>>
  BY BusyRequest, ContactType DEF SaveCode, CodeKey
<1>2. \E p \in {"frequency", "idle"} : pc' = [pc EXCEPT ![s] = p]
  BY DEF SaveCode, Respond, EndRequest, Become
<1>3. pc[s] = "save" /\ pc'[s] # "delete" /\ accounts' = accounts
  BY <1>2 DEF SaveCode, TypeOK
<1>4. failures' >= failures /\ \A t \in Servers \ {s} : conn'[t] = conn[t]
  BY CommandEffect DEF SaveCode
<1>5. Alone(s)
  <2>1. \A t \in Servers \ {s} : pc'[t] = pc[t] /\ req'[t] = req[t]
    <3>1. req' = req \/ req' = [req EXCEPT ![s] = NoRequest]
      BY DEF SaveCode, Respond, EndRequest
    <3>. QED  BY <1>2, <3>1 DEF TypeOK
  <2>. QED  BY <1>4, <2>1 DEF Alone
<1>6. ASSUME NEW c \in Contacts PROVE accounts'[c] + Demand(c)' <= Supply(c)'
  <2>1. Pending(c)' = Pending(c)
    BY <1>3, <1>5, PendingEffect
  <2>2. saved[c] \in Nat /\ saved'[c] \in Nat /\ failures \in Nat /\ failures' \in Nat
    BY DEF TypeOK
  <2>3. CASE Applied(o) /\ r.type = 1 /\ c = Contact(r)
    <3>1. saved'[c] = saved[c] + 1
      BY <2>3 DEF SaveCode, TypeOK
    <3>. QED  BY <1>3, <1>4, <2>1, <2>2, <3>1, HarmlessStep
  <2>4. CASE ~(Applied(o) /\ r.type = 1 /\ c = Contact(r))
    <3>1. saved'[c] = saved[c]
      BY <2>4 DEF SaveCode, TypeOK
    <3>2. <<c, 1>> \in Contacts \X Types
      BY DEF RegistrationAssumption
    <3>3. codes'[<<c, 1>>] = codes[<<c, 1>>]
      BY <1>1, <2>4, <3>2 DEF SaveCode, TypeOK
    <3>. QED  BY <1>3, <1>4, <2>1, <2>2, <3>1, <3>3, HarmlessStep DEF Usable
  <2>. QED  BY <2>3, <2>4
<1>. QED  BY <1>3, <1>5, <1>6, CodeInvAfter

LEMMA VerifyCode ==
  ASSUME RegistrationAssumption, CodeInv, TypeOK', NEW s \in Servers, NEW o,
         Verify(s, o)
  PROVE  CodeInv'
<1>. DEFINE r == req[s]
<1>. TypeOK
  BY DEF CodeInv
<1>1. /\ r \in Requests /\ r.kind = "register" /\ Contact(r) \in Contacts
      /\ r.code \in Codes /\ CodeKey(r) = <<Contact(r), 1>>
  BY BusyRequest, ContactType DEF Verify
<1>2. /\ failures' >= failures /\ \A t \in Servers \ {s} : conn'[t] = conn[t]
      /\ o = "done" => conn'[s]
  BY CommandEffect DEF Verify
<1>3. Alone(s)
  <2>1. \A t \in Servers \ {s} : pc'[t] = pc[t] /\ req'[t] = req[t]
    BY DEF Verify, Respond, EndRequest, Become, TypeOK
  <2>. QED  BY <1>2, <2>1 DEF Alone
<1>4. pc[s] # "delete" /\ accounts' = accounts /\ codes' = codes /\ saved' = saved
  BY DEF Verify, redisVars, historyVars
<1>5. CASE pc'[s] # "delete"
  BY <1>2, <1>3, <1>4, <1>5, QuietCode
<1>6. CASE pc'[s] = "delete"
  <2>1. o = "done" /\ codes[<<Contact(r), 1>>].code = r.code /\ req' = req
    BY <1>1, <1>6 DEF Verify, Respond, EndRequest, Become, TypeOK
  <2>2. Usable(Contact(r))
    BY <1>1, <2>1 DEF Usable, Absent, RegistrationAssumption
  <2>3. failures' \in Nat
    BY DEF TypeOK
  <2>4. ASSUME NEW c \in Contacts PROVE accounts'[c] + Demand(c)' <= Supply(c)'
    <3>1. CASE c = Contact(r)
      <4>1. Demand(c)' = Demand(c)
        BY <1>4, <2>2, <3>1 DEF Demand, Usable, N
      <4>2. saved'[c] + failures' >= saved[c] + failures
        BY <1>2, <1>4, <2>3, CountFacts
      <4>3. Demand(c) \in Nat
        BY CountFacts
      <4>. QED  BY <1>4, <4>1, <4>2, <4>3, Budget
    <3>2. CASE c # Contact(r)
      <4>1. Pending(c)' = Pending(c)
        BY <1>3, <1>4, <2>1, <3>2 DEF Pending, Alone
      <4>2. saved'[c] + failures' >= saved[c] + failures
        BY <1>2, <1>4, <2>3, CountFacts
      <4>. QED  BY <1>4, <4>1, <4>2, HarmlessStep DEF Usable
    <3>. QED  BY <3>1, <3>2
  <2>. QED  BY <1>2, <1>3, <2>1, <2>4, CodeInvAfter
<1>. QED  BY <1>5, <1>6

LEMMA FinishCode ==
  ASSUME RegistrationAssumption, CodeInv, TypeOK', NEW s \in Servers, NEW o,
         NEW u \in UserIds, Finish(s, o, u)
  PROVE  CodeInv'
<1>. DEFINE r == req[s]
            d == Contact(r)
<1>. TypeOK
  BY DEF CodeInv
<1>1. r \in Requests /\ r.kind = "register" /\ d \in Contacts /\ CodeKey(r) = <<d, 1>>
  BY BusyRequest, ContactType DEF Finish
<1>2. /\ failures' >= failures /\ \A t \in Servers \ {s} : conn'[t] = conn[t]
      /\ conn[s] /\ o # "done" => failures' = failures + 1
  BY CommandEffect DEF Finish
<1>3. pc[s] = "delete" /\ conn[s] /\ pc'[s] # "delete" /\ saved' = saved
  BY DEF Finish, Respond, EndRequest, Become, CodeInv, TypeOK
<1>4. Alone(s)
  <2>1. \A t \in Servers \ {s} : pc'[t] = pc[t] /\ req'[t] = req[t]
    BY DEF Finish, Respond, EndRequest, Become, TypeOK
  <2>. QED  BY <1>2, <2>1 DEF Alone
<1>5. \A c \in Contacts : accounts'[c] = IF c = d THEN accounts[c] + 1 ELSE accounts[c]
  BY <1>1 DEF Finish, TypeOK
<1>6. \A c \in Contacts : Pending(c)' = Pending(c) \ {s}
  BY <1>3, <1>4, PendingEffect
<1>7. ASSUME NEW c \in Contacts PROVE accounts'[c] + Demand(c)' <= Supply(c)'
  <2>1. /\ N \in Nat /\ Cardinality(Pending(c)) \in 0..N /\ Demand(c) \in 0..N
        /\ saved[c] \in Nat /\ failures \in Nat /\ failures' \in Nat
    BY CountFacts DEF TypeOK
  <2>2. IsFiniteSet(Pending(c))
    <3>1. IsFiniteSet(Servers) /\ Pending(c) \in SUBSET Servers
      BY DEF RegistrationAssumption, Pending
    <3>. QED  BY <3>1, FS_Subset
  <2>3. Cardinality(Pending(c)') =
          IF s \in Pending(c) THEN Cardinality(Pending(c)) - 1 ELSE Cardinality(Pending(c))
    BY <1>6, <2>2, FS_RemoveElement
  <2>4. N' = N
    BY DEF N
  <2>5. CASE c = d
    <3>1. s \in Pending(c)
      BY <1>3, <2>5 DEF Pending
    <3>2. Cardinality(Pending(c)') = Cardinality(Pending(c)) - 1 /\ Demand(c) >= 1
      <4>1. Cardinality(Pending(c)) # 0
        BY <2>2, <3>1, FS_EmptySet
      <4>. QED  BY <2>1, <2>3, <3>1, <4>1 DEF Demand
    <3>3. CASE Applied(o)
      <4>1. ~Usable(c)'
        BY <1>1, <2>5, <3>3 DEF Finish, Usable, TypeOK, RegistrationAssumption
      <4>2. Demand(c)' + 1 <= Demand(c)
        BY <2>1, <3>2, <4>1 DEF Demand
      <4>. QED  BY <1>2, <1>3, <1>5, <2>1, <2>5, <4>2, Budget
    <3>4. CASE ~Applied(o)
      <4>1. failures' = failures + 1
        BY <1>2, <1>3, <3>4 DEF Applied
      <4>. QED  BY <1>3, <1>5, <2>1, <2>5, <3>2, <4>1, Budget
    <3>. QED  BY <3>3, <3>4
  <2>6. CASE c # d
    <3>1. codes'[<<c, 1>>] = codes[<<c, 1>>]
      <4>1. <<c, 1>> \in Contacts \X Types
        BY DEF RegistrationAssumption
      <4>. QED  BY <1>1, <2>6, <4>1 DEF Finish, TypeOK
    <3>2. s \notin Pending(c)
      BY <2>6 DEF Pending
    <3>3. Demand(c)' = Demand(c)
      BY <2>3, <2>4, <3>1, <3>2 DEF Demand, Usable
    <3>4. Demand(c)' <= Demand(c) /\ saved'[c] + failures' >= saved[c] + failures
      BY <1>2, <1>3, <2>1, <3>3
    <3>. QED  BY <1>5, <2>6, <3>4, Budget
  <2>. QED  BY <2>5, <2>6
<1>. QED  BY <1>3, <1>4, <1>7, CodeInvAfter

LEMMA CodeStep == RegistrationAssumption /\ CodeInv /\ TypeOK' /\ [Next]_vars => CodeInv'
<1>. SUFFICES ASSUME RegistrationAssumption, CodeInv, TypeOK', [Next]_vars
              PROVE  CodeInv'
  OBVIOUS
<1>. TypeOK
  BY DEF CodeInv
<1>1. ASSUME NEW s \in Servers, NEW r \in Requests, Receive(s, r) PROVE CodeInv'
  <2>1. pc[s] # "delete" /\ pc'[s] # "delete" /\ Alone(s)
    BY <1>1 DEF Receive, Respond, EndRequest, Become, TypeOK, Alone
  <2>2. /\ accounts' = accounts /\ codes' = codes /\ saved' = saved
        /\ failures' >= failures
    BY <1>1 DEF Receive, redisVars, TypeOK
  <2>. QED  BY <2>1, <2>2, QuietCode
<1>2. ASSUME NEW s \in Servers, NEW o, NEW k \in Codes, ReadCount(s, o, k) PROVE CodeInv'
  <2>1. failures' >= failures /\ \A t \in Servers \ {s} : conn'[t] = conn[t]
    BY <1>2, CommandEffect DEF ReadCount
  <2>2. /\ pc[s] # "delete" /\ pc'[s] # "delete"
        /\ \A t \in Servers \ {s} : pc'[t] = pc[t] /\ req'[t] = req[t]
    <3>1. pc[s] = "count"
      BY <1>2 DEF ReadCount
    <3>2. \/ /\ pc' = [pc EXCEPT ![s] = "idle"]
             /\ req' = [req EXCEPT ![s] = NoRequest]
          \/ pc' = [pc EXCEPT ![s] = "save"] /\ req' = req
      BY <1>2 DEF ReadCount, Respond, EndRequest, Become
    <3>3. pc \in [Servers -> {"idle", "count", "save", "frequency", "verify", "delete"}]
      BY DEF TypeOK
    <3>4. req \in [Servers -> Requests \cup {NoRequest}]
      BY DEF TypeOK
    <3>. QED  BY <3>1, <3>2, <3>3, <3>4
  <2>3. Alone(s)
    BY <2>1, <2>2 DEF Alone
  <2>. QED  BY <1>2, <2>1, <2>2, <2>3, QuietCode DEF ReadCount, redisVars, historyVars
<1>3. ASSUME NEW s \in Servers, NEW o, CountSend(s, o) PROVE CodeInv'
  <2>1. failures' >= failures /\ \A t \in Servers \ {s} : conn'[t] = conn[t]
    BY <1>3, CommandEffect DEF CountSend
  <2>2. /\ pc[s] # "delete" /\ pc'[s] # "delete"
        /\ \A t \in Servers \ {s} : pc'[t] = pc[t] /\ req'[t] = req[t]
    BY <1>3 DEF CountSend, Respond, EndRequest, Become, TypeOK
  <2>3. Alone(s)
    BY <2>1, <2>2 DEF Alone
  <2>. QED  BY <1>3, <2>1, <2>2, <2>3, QuietCode DEF CountSend
<1>4. ASSUME NEW s \in Servers, Crash(s) PROVE CodeInv'
  <2>1. /\ pc'[s] # "delete" /\ Alone(s) /\ failures' = failures + 1
        /\ saved' = saved /\ accounts' = accounts
    BY <1>4 DEF Crash, EndRequest, Become, TypeOK, Alone, redisVars, historyVars
  <2>2. ASSUME NEW c \in Contacts PROVE accounts'[c] + Demand(c)' <= Supply(c)'
    <3>1. Pending(c)' \subseteq Pending(c)
      BY <2>1, PendingEffect
    <3>2. saved'[c] + failures' >= saved[c] + failures + 1
      BY <2>1, CountFacts
    <3>. QED  BY <2>1, <3>1, <3>2, HarmlessStep
  <2>. QED  BY <2>1, <2>2, CodeInvAfter
<1>5. CASE Tick
  <2>1. UNCHANGED <<pc, req, conn, failures, saved, accounts>>
    BY <1>5 DEF Tick
  <2>2. ASSUME NEW c \in Contacts PROVE accounts'[c] + Demand(c)' <= Supply(c)'
    <3>1. Pending(c)' = Pending(c)
      BY <2>1 DEF Pending
    <3>2. Usable(c)' => Usable(c)
      BY <1>5 DEF Tick, Usable, TypeOK, RegistrationAssumption
    <3>3. saved'[c] + failures' >= saved[c] + failures
      BY <2>1 DEF TypeOK
    <3>. QED  BY <2>1, <3>1, <3>2, <3>3, HarmlessStep
  <2>. QED  BY <2>1, <2>2 DEF CodeInv
<1>6. CASE UNCHANGED vars
  <2>1. \A c \in Contacts : Demand(c)' = Demand(c) /\ Supply(c)' = Supply(c)
    BY <1>6 DEF vars, Demand, Usable, Pending, Supply, N
  <2>. QED  BY <1>6, <2>1 DEF vars, CodeInv
<1>. QED
  BY <1>1, <1>2, <1>3, <1>4, <1>5, <1>6, SaveCodeCode, VerifyCode, FinishCode DEF Next

(* One account per stored code and instance, and per failure and instance. *)
THEOREM AccountsPerCodeHolds == Spec => []AccountsPerCode
<1>1. Init => CodeInv
  <2>. SUFFICES ASSUME Init PROVE CodeInv
    OBVIOUS
  <2>1. TypeOK
    <3>1. 0 \in 0..MaxClock /\ Absent \in Stored
      BY RegistrationAssumption DEF RegistrationAssumption, Absent, Stored
    <3>. QED  BY <3>1 DEF Init, TypeOK, Zero
  <2>2. ASSUME NEW c \in Contacts PROVE accounts[c] + Demand(c) <= Supply(c)
    <3>1. <<c, 1>> \in Contacts \X Types
      BY RegistrationAssumption DEF RegistrationAssumption
    <3>2. ~Usable(c) /\ Pending(c) = {}
      BY <3>1 DEF Init, Usable, Pending
    <3>3. Demand(c) = 0 /\ accounts[c] = 0
      BY <3>2, FS_EmptySet DEF Demand, Init
    <3>4. Supply(c) \in Nat
      BY <2>1, RegistrationAssumption, CountFacts
    <3>. QED  BY <3>3, <3>4
  <2>. QED  BY <2>1, <2>2 DEF CodeInv, Init
<1>2. CodeInv => AccountsPerCode
  <2>. SUFFICES ASSUME CodeInv, NEW c \in Contacts
                PROVE  accounts[c] <= Supply(c)
    BY DEF AccountsPerCode, Supply, N
  <2>1. accounts[c] + Demand(c) <= Supply(c)
    BY DEF CodeInv
  <2>2. accounts[c] \in Nat /\ Demand(c) \in Nat /\ Supply(c) \in Nat
    BY RegistrationAssumption, CountFacts DEF CodeInv
  <2>. QED  BY <2>1, <2>2
<1>. QED
  BY <1>1, <1>2, CodeStep, RegistrationTypeCorrect, RegistrationAssumption, PTL DEF Spec

(* Types, expiries, and the accounts that a code makes. *)
THEOREM OneAccountPerCodeHolds == Spec => []OneAccountPerCode
BY RegistrationTypeCorrect, AccountsPerCodeHolds, PTL DEF OneAccountPerCode

-----------------------------------------------------------------------------
(* Steps of one instance. *)

StepOf(s) ==
  \/ \E r \in Requests : Receive(s, r)
  \/ \E o \in {"done", "error", "lost", "unheard"} :
       \/ \E k \in Codes : ReadCount(s, o, k)
       \/ SaveCode(s, o)
       \/ CountSend(s, o)
       \/ Verify(s, o)
       \/ \E u \in UserIds : Finish(s, o, u)
  \/ Crash(s)

(* It changes no other instance, ends its request or goes on with it, and
   touches the keys of no contact that it has not noted. *)
Own(s) ==
  /\ clock' = clock
  /\ \A t \in Servers \ {s} :
       /\ pc'[t] = pc[t] /\ req'[t] = req[t] /\ seen'[t] = seen[t]
       /\ draft'[t] = draft[t] /\ conn'[t] = conn[t]
  /\ \A c \in Contacts : handlers[c] \subseteq handlers'[c]
  /\ \/ pc'[s] = "idle"
     \/ pc[s] # "idle" /\ req'[s] = req[s]
     \/ pc'[s] \in {"count", "verify"} /\ s \in handlers'[Contact(req'[s])]

LEMMA EndRequestEffect ==
  ASSUME TypeOK, NEW s \in Servers, EndRequest(s)
  PROVE  /\ pc'[s] = "idle"
         /\ \A t \in Servers \ {s} : /\ pc'[t] = pc[t] /\ req'[t] = req[t]
                                     /\ seen'[t] = seen[t] /\ draft'[t] = draft[t]
BY DEF TypeOK, EndRequest, Become

LEMMA OwnStep ==
  ASSUME RegistrationAssumption, TypeOK, NEW s \in Servers, StepOf(s)
  PROVE  Own(s)
<1>1. ASSUME NEW r \in Requests, Receive(s, r) PROVE Own(s)
  <2>1. clock' = clock /\ conn' = conn
    BY <1>1 DEF Receive
  <2>2. CASE Refusal(r) # "none"
    <3>1. EndRequest(s) /\ handlers' = handlers
      BY <1>1, <2>2 DEF Receive, Respond
    <3>. QED  BY <2>1, <3>1, EndRequestEffect DEF Own
  <2>3. CASE Refusal(r) = "none"
    <3>1. Contact(r) \in Contacts
      <4>1. r.kind \in {"send", "register", "activate"}
        BY DEF RegistrationAssumption, Request
      <4>2. r.kind # "activate"
        BY <2>3, <4>1 DEF Refusal
      <4>. QED  BY <4>2, ContactType
    <3>2. /\ req' = [req EXCEPT ![s] = r]
          /\ pc' = [pc EXCEPT ![s] = IF r.kind = "send" THEN "count" ELSE "verify"]
          /\ handlers' = [handlers EXCEPT ![Contact(r)] = @ \cup {s}]
          /\ UNCHANGED <<seen, draft>>
      BY <1>1, <2>3 DEF Receive, Become
    <3>3. /\ req'[s] = r /\ pc'[s] \in {"count", "verify"}
          /\ \A t \in Servers \ {s} : pc'[t] = pc[t] /\ req'[t] = req[t]
      BY <3>2 DEF TypeOK
    <3>4. /\ s \in handlers'[Contact(r)]
          /\ \A c \in Contacts : handlers[c] \subseteq handlers'[c]
      BY <3>1, <3>2 DEF TypeOK
    <3>. QED  BY <2>1, <3>2, <3>3, <3>4 DEF Own
  <2>. QED  BY <2>2, <2>3
<1>2. ASSUME NEW o, Command(s, o), clock' = clock, handlers' = handlers,
             EndRequest(s) \/ (/\ pc[s] # "idle" /\ req' = req
                              /\ \A t \in Servers \ {s} : /\ pc'[t] = pc[t]
                                                          /\ seen'[t] = seen[t]
                                                          /\ draft'[t] = draft[t])
      PROVE  Own(s)
  BY <1>2, CommandEffect, EndRequestEffect DEF Own
<1>3. ASSUME NEW o, NEW k \in Codes, ReadCount(s, o, k) PROVE Own(s)
  <2>1. Command(s, o) /\ clock' = clock /\ handlers' = handlers /\ pc[s] # "idle"
    BY <1>3 DEF ReadCount, historyVars
  <2>2. \/ EndRequest(s)
        \/ /\ pc' = [pc EXCEPT ![s] = "save"] /\ req' = req
           /\ \E n : seen' = [seen EXCEPT ![s] = n]
           /\ draft' = [draft EXCEPT ![s] = [code |-> k, until |-> 0]]
    BY <1>3 DEF ReadCount, Respond, Become
  <2>3. CASE EndRequest(s)
    BY <1>2, <2>1, <2>3
  <2>4. CASE /\ pc' = [pc EXCEPT ![s] = "save"] /\ req' = req
             /\ \E n : seen' = [seen EXCEPT ![s] = n]
             /\ draft' = [draft EXCEPT ![s] = [code |-> k, until |-> 0]]
    <3>1. \A t \in Servers \ {s} : /\ pc'[t] = pc[t] /\ seen'[t] = seen[t]
                                   /\ draft'[t] = draft[t]
      BY <2>4 DEF TypeOK
    <3>. QED  BY <1>2, <2>1, <2>4, <3>1
  <2>. QED  BY <2>2, <2>3, <2>4
<1>4. ASSUME NEW o, SaveCode(s, o) PROVE Own(s)
  <2>1. Command(s, o) /\ clock' = clock /\ handlers' = handlers /\ pc[s] # "idle"
    BY <1>4 DEF SaveCode
  <2>2. \/ EndRequest(s)
        \/ /\ pc' = [pc EXCEPT ![s] = "frequency"] /\ UNCHANGED <<req, seen>>
           /\ \E d : draft' = [draft EXCEPT ![s] = d]
    BY <1>4 DEF SaveCode, Respond, Become
  <2>3. CASE EndRequest(s)
    BY <1>2, <2>1, <2>3
  <2>4. CASE /\ pc' = [pc EXCEPT ![s] = "frequency"] /\ UNCHANGED <<req, seen>>
             /\ \E d : draft' = [draft EXCEPT ![s] = d]
    <3>1. \A t \in Servers \ {s} : /\ pc'[t] = pc[t] /\ seen'[t] = seen[t]
                                   /\ draft'[t] = draft[t]
      BY <2>4 DEF TypeOK
    <3>. QED  BY <1>2, <2>1, <2>4, <3>1
  <2>. QED  BY <2>2, <2>3, <2>4
<1>5. ASSUME NEW o, CountSend(s, o) PROVE Own(s)
  BY <1>2, <1>5 DEF CountSend, Respond
<1>6. ASSUME NEW o, Verify(s, o) PROVE Own(s)
  <2>1. Command(s, o) /\ clock' = clock /\ handlers' = handlers /\ pc[s] # "idle"
    BY <1>6 DEF Verify, historyVars
  <2>2. \/ EndRequest(s)
        \/ pc' = [pc EXCEPT ![s] = "delete"] /\ UNCHANGED <<req, seen, draft>>
    BY <1>6 DEF Verify, Respond, Become
  <2>3. CASE EndRequest(s)
    BY <1>2, <2>1, <2>3
  <2>4. CASE pc' = [pc EXCEPT ![s] = "delete"] /\ UNCHANGED <<req, seen, draft>>
    <3>1. \A t \in Servers \ {s} : /\ pc'[t] = pc[t] /\ seen'[t] = seen[t]
                                   /\ draft'[t] = draft[t]
      BY <2>4 DEF TypeOK
    <3>. QED  BY <1>2, <2>1, <2>4, <3>1
  <2>. QED  BY <2>2, <2>3, <2>4
<1>7. ASSUME NEW o, NEW u \in UserIds, Finish(s, o, u) PROVE Own(s)
  BY <1>2, <1>7 DEF Finish, Respond
<1>8. CASE Crash(s)
  <2>1. EndRequest(s) /\ clock' = clock /\ handlers' = handlers
    BY <1>8 DEF Crash, historyVars
  <2>2. \A t \in Servers \ {s} : conn'[t] = conn[t]
    BY <1>8 DEF Crash, TypeOK
  <2>. QED  BY <2>1, <2>2, EndRequestEffect DEF Own
<1>. QED  BY <1>1, <1>3, <1>4, <1>5, <1>6, <1>7, <1>8 DEF StepOf

(* An instance at work is noted for the contact of its request. *)
Touched == \A s \in Servers : pc[s] # "idle" => s \in handlers[Contact(req[s])]

LEMMA TouchedStep ==
  RegistrationAssumption /\ TypeOK /\ TypeOK' /\ Touched /\ [Next]_vars => Touched'
<1>. SUFFICES ASSUME RegistrationAssumption, TypeOK, TypeOK', Touched, [Next]_vars
              PROVE  Touched'
  OBVIOUS
<1>1. ASSUME NEW s \in Servers, StepOf(s) PROVE Touched'
  <2>1. Own(s)
    BY <1>1, OwnStep
  <2>. SUFFICES ASSUME NEW t \in Servers, pc'[t] # "idle"
                PROVE  t \in handlers'[Contact(req'[t])]
    BY DEF Touched
  <2>2. CASE pc[t] # "idle" /\ pc'[t] # "idle" /\ req'[t] = req[t]
    <3>1. t \in handlers[Contact(req[t])] /\ Contact(req[t]) \in Contacts
      BY <2>2, BusyRequest, ContactType DEF Touched
    <3>2. Contact(req'[t]) = Contact(req[t])
      BY <2>2
    <3>. QED  BY <2>1, <3>1, <3>2 DEF Own
  <2>3. CASE t = s /\ s \in handlers'[Contact(req'[s])]
    BY <2>3
  <2>. QED  BY <2>1, <2>2, <2>3 DEF Own
<1>2. CASE Tick
  BY <1>2 DEF Tick, Touched
<1>3. CASE UNCHANGED vars
  BY <1>3 DEF vars, Touched
<1>. QED  BY <1>1, <1>2, <1>3 DEF Next, StepOf

(* The instance at work for a contact that one instance serves is that one. *)
LEMMA StickyAlone ==
  ASSUME RegistrationAssumption, TypeOK, NEW c \in Contacts, Sticky(c),
         NEW s \in handlers[c], NEW t \in handlers[c]
  PROVE  s = t
<1>1. IsFiniteSet(handlers[c])
  <2>1. handlers[c] \in SUBSET Servers /\ IsFiniteSet(Servers)
    BY DEF TypeOK, RegistrationAssumption
  <2>. QED  BY <2>1, FS_Subset
<1>. SUFFICES ASSUME s # t PROVE FALSE
  OBVIOUS
<1>2. Cardinality({s}) = 1 /\ IsFiniteSet({s})
  BY FS_Singleton
<1>3. Cardinality({s} \cup {t}) = 2
  <2>. DEFINE S == {s}
  <2>1. IsFiniteSet(S) /\ Cardinality(S) = 1 /\ t \notin S
    BY <1>2
  <2>. HIDE DEF S
  <2>2. Cardinality(S \cup {t}) = Cardinality(S) + 1
    BY <2>1, FS_AddElement, Zenon
  <2>. QED  BY <2>1, <2>2 DEF S
<1>4. {s} \cup {t} \in SUBSET handlers[c]
  OBVIOUS
<1>5. Cardinality({s} \cup {t}) <= Cardinality(handlers[c])
  BY <1>1, <1>4, FS_Subset
<1>6. Cardinality(handlers[c]) \in Nat /\ Cardinality(handlers[c]) <= 1
  BY <1>1, FS_CardinalityType DEF Sticky
<1>. QED  BY <1>3, <1>5, <1>6

(* It was served by one instance before. *)
LEMMA StickyBefore ==
  ASSUME RegistrationAssumption, TypeOK', NEW c \in Contacts,
         handlers[c] \subseteq handlers'[c], Sticky(c)'
  PROVE  Sticky(c)
<1>1. IsFiniteSet(handlers'[c])
  <2>1. handlers'[c] \in SUBSET Servers /\ IsFiniteSet(Servers)
    BY DEF TypeOK, RegistrationAssumption
  <2>. QED  BY <2>1, FS_Subset
<1>2. handlers[c] \in SUBSET handlers'[c]
  OBVIOUS
<1>3. /\ Cardinality(handlers[c]) <= Cardinality(handlers'[c])
      /\ Cardinality(handlers[c]) \in Nat /\ Cardinality(handlers'[c]) \in Nat
  BY <1>1, <1>2, FS_Subset, FS_CardinalityType
<1>. QED  BY <1>3 DEF Sticky

-----------------------------------------------------------------------------
(* PromisedCodeIsGood.  Between the two Redis commands of sendCode, the code
   that was stored is still the one in Redis. *)

Key(s) == <<Contact(req[s]), req[s].type>>

FreshDraft ==
  \A s \in Servers :
    pc[s] = "frequency" /\ Sticky(Contact(req[s])) /\ draft[s].until > clock
      => codes[Key(s)] = draft[s]

PromiseInv == FreshDraft /\ PromisedCodeIsGood

(* Redis changed at most the key k, where no promise is left. *)
Rewritten(k) ==
  /\ \A l \in (Contacts \X Types) \ {k} : codes'[l] = codes[l] /\ promised'[l] = promised[l]
  /\ promised'[k] = Absent

LEMMA SendFacts ==
  ASSUME RegistrationAssumption, TypeOK, NEW s \in Servers,
         pc[s] \in {"count", "save", "frequency"}
  PROVE  /\ Contact(req[s]) \in Contacts /\ req[s].type \in Types
         /\ Key(s) \in Contacts \X Types /\ CodeKey(req[s]) = Key(s)
<1>1. req[s] \in Requests /\ req[s].kind = "send"
  BY BusyRequest
<1>. QED  BY <1>1, ContactType DEF Key, CodeKey

(* Steps that write no code and promise none. *)
LEMMA PromiseKept ==
  ASSUME RegistrationAssumption, TypeOK, TypeOK', PromiseInv, NEW s \in Servers, Own(s),
         pc'[s] # "frequency", codes' = codes, promised' = promised
  PROVE  PromiseInv'
<1>1. \A c \in Contacts : Sticky(c)' => Sticky(c)
  BY StickyBefore DEF Own
<1>2. PromisedCodeIsGood'
  BY <1>1 DEF PromiseInv, PromisedCodeIsGood
<1>3. FreshDraft'
  <2>. SUFFICES ASSUME NEW t \in Servers, pc'[t] = "frequency", Sticky(Contact(req[t]))',
                       draft'[t].until > clock'
                PROVE  codes'[Key(t)'] = draft'[t]
    BY DEF FreshDraft
  <2>1. /\ t # s /\ pc[t] = "frequency" /\ req'[t] = req[t] /\ draft'[t] = draft[t]
        /\ clock' = clock /\ Contact(req[t]) \in Contacts
    BY SendFacts DEF Own
  <2>2. Contact(req'[t]) = Contact(req[t]) /\ Key(t)' = Key(t)
    BY <2>1 DEF Key
  <2>3. Sticky(Contact(req[t]))
    BY <1>1, <2>1, <2>2 DEF Sticky
  <2>. QED  BY <2>1, <2>2, <2>3 DEF PromiseInv, FreshDraft
<1>. QED  BY <1>2, <1>3 DEF PromiseInv

(* Steps that write one code of the contact that the instance serves. *)
LEMMA PromiseRewritten ==
  ASSUME RegistrationAssumption, TypeOK, TypeOK', Touched, PromiseInv,
         NEW s \in Servers, Own(s), pc[s] # "idle", handlers' = handlers,
         NEW k \in Contacts \X Types, k[1] = Contact(req[s]), Rewritten(k),
         pc'[s] = "frequency" => req'[s] = req[s] /\ Key(s) = k /\ codes'[k] = draft'[s]
  PROVE  PromiseInv'
<1>1. PromisedCodeIsGood'
  BY DEF PromiseInv, PromisedCodeIsGood, Rewritten, Sticky
<1>2. FreshDraft'
  <2>. SUFFICES ASSUME NEW t \in Servers, pc'[t] = "frequency", Sticky(Contact(req[t]))',
                       draft'[t].until > clock'
                PROVE  codes'[Key(t)'] = draft'[t]
    BY DEF FreshDraft
  <2>1. CASE t = s
    BY <2>1 DEF Key
  <2>2. CASE t # s
    <3>1. /\ pc[t] = "frequency" /\ req'[t] = req[t] /\ draft'[t] = draft[t]
          /\ clock' = clock /\ Contact(req[t]) \in Contacts
          /\ Key(t) \in Contacts \X Types
      BY <2>2, SendFacts DEF Own
    <3>2. Contact(req'[t]) = Contact(req[t]) /\ Key(t)' = Key(t) /\ Sticky(Contact(req[t]))
      BY <3>1 DEF Key, Sticky
    <3>3. Contact(req[t]) # Contact(req[s])
      <4>1. t \in handlers[Contact(req[t])] /\ s \in handlers[Contact(req[s])]
        BY <3>1 DEF Touched
      <4>. QED  BY <2>2, <3>1, <3>2, <4>1, StickyAlone
    <3>4. Key(t) # k
      BY <3>3 DEF Key
    <3>. QED  BY <3>1, <3>2, <3>4 DEF PromiseInv, FreshDraft, Rewritten
  <2>. QED  BY <2>1, <2>2
<1>. QED  BY <1>1, <1>2 DEF PromiseInv

LEMMA SaveCodePromise ==
  ASSUME RegistrationAssumption, TypeOK, TypeOK', Touched, PromiseInv,
         NEW s \in Servers, NEW o, SaveCode(s, o), Own(s)
  PROVE  PromiseInv'
<1>. DEFINE fresh == [draft[s] EXCEPT !.until = CodeExpiry]
<1>1. pc[s] = "save" /\ handlers' = handlers
  BY DEF SaveCode
<1>2. Key(s) \in Contacts \X Types /\ CodeKey(req[s]) = Key(s)
  BY <1>1, SendFacts
<1>3. CASE Applied(o)
  <2>1. codes' = [codes EXCEPT ![Key(s)] = fresh]
    BY <1>2, <1>3 DEF SaveCode
  <2>2. promised' = [promised EXCEPT ![Key(s)] = Absent]
    BY <1>3 DEF SaveCode, Key
  <2>3. Rewritten(Key(s)) /\ codes'[Key(s)] = fresh
    <3>. HIDE DEF fresh
    <3>. QED  BY <1>2, <2>1, <2>2 DEF Rewritten, TypeOK
  <2>4. pc'[s] = "frequency" => req'[s] = req[s] /\ draft'[s] = fresh
    <3>1. CASE o = "done"
      <4>1. req' = req /\ draft' = [draft EXCEPT ![s] = fresh]
        BY <3>1 DEF SaveCode
      <4>. HIDE DEF fresh
      <4>. QED  BY <4>1 DEF TypeOK
    <3>2. CASE o # "done"
      BY <3>2, EndRequestEffect DEF SaveCode, Respond
    <3>. QED  BY <3>1, <3>2
  <2>5. Key(s)[1] = Contact(req[s])
    BY DEF Key
  <2>. HIDE DEF fresh
  <2>. QED  BY <1>1, <1>2, <2>3, <2>4, <2>5, PromiseRewritten
<1>4. CASE ~Applied(o)
  <2>1. codes' = codes /\ promised' = promised
    BY <1>4 DEF SaveCode
  <2>2. pc'[s] # "frequency"
    <3>1. o # "done"
      BY <1>4 DEF Applied
    <3>. QED  BY <3>1, EndRequestEffect DEF SaveCode, Respond
  <2>. QED  BY <2>1, <2>2, PromiseKept
<1>. QED  BY <1>3, <1>4

LEMMA CountSendPromise ==
  ASSUME RegistrationAssumption, TypeOK, TypeOK', PromiseInv,
         NEW s \in Servers, NEW o, CountSend(s, o), Own(s)
  PROVE  PromiseInv'
<1>1. /\ pc[s] = "frequency" /\ codes' = codes /\ handlers' = handlers /\ clock' = clock
      /\ pc'[s] = "idle"
  BY EndRequestEffect DEF CountSend, Respond
<1>2. Key(s) \in Contacts \X Types
  BY <1>1, SendFacts
<1>3. CASE draft[s].until > clock
  <2>1. promised' = [promised EXCEPT ![Key(s)] = draft[s]]
    BY <1>3 DEF CountSend, Key
  <2>2. PromisedCodeIsGood'
    <3>. SUFFICES ASSUME NEW k \in Contacts \X Types, Sticky(k[1])', promised'[k] # Absent
                  PROVE  codes'[k] = promised'[k]
      BY DEF PromisedCodeIsGood
    <3>1. Sticky(k[1])
      BY <1>1 DEF Sticky
    <3>2. CASE k = Key(s)
      <4>1. promised'[k] = draft[s]
        BY <1>2, <2>1, <3>2 DEF TypeOK
      <4>2. Sticky(Contact(req[s]))
        BY <3>1, <3>2 DEF Key
      <4>. QED  BY <1>1, <1>3, <3>2, <4>1, <4>2 DEF PromiseInv, FreshDraft
    <3>3. CASE k # Key(s)
      <4>1. promised'[k] = promised[k]
        BY <2>1, <3>3 DEF TypeOK
      <4>. QED  BY <1>1, <3>1, <4>1 DEF PromiseInv, PromisedCodeIsGood
    <3>. QED  BY <3>2, <3>3
  <2>3. FreshDraft'
    <3>. SUFFICES ASSUME NEW t \in Servers, pc'[t] = "frequency", Sticky(Contact(req[t]))',
                         draft'[t].until > clock'
                  PROVE  codes'[Key(t)'] = draft'[t]
      BY DEF FreshDraft
    <3>1. pc[t] = "frequency" /\ req'[t] = req[t] /\ draft'[t] = draft[t]
      BY <1>1 DEF Own
    <3>2. Key(t)' = Key(t) /\ Sticky(Contact(req[t]))
      BY <1>1, <3>1 DEF Key, Sticky
    <3>. QED  BY <1>1, <3>1, <3>2 DEF PromiseInv, FreshDraft
  <2>. QED  BY <2>2, <2>3 DEF PromiseInv
<1>4. CASE ~(draft[s].until > clock)
  <2>1. promised' = promised
    BY <1>4 DEF CountSend
  <2>. QED  BY <1>1, <2>1, PromiseKept
<1>. QED  BY <1>3, <1>4

LEMMA FinishPromise ==
  ASSUME RegistrationAssumption, TypeOK, TypeOK', Touched, PromiseInv,
         NEW s \in Servers, NEW o, NEW u \in UserIds, Finish(s, o, u), Own(s)
  PROVE  PromiseInv'
<1>. DEFINE k == CodeKey(req[s])
<1>1. pc[s] = "delete" /\ handlers' = handlers /\ pc'[s] = "idle"
  BY EndRequestEffect DEF Finish, Respond
<1>2. k \in Contacts \X Types /\ k[1] = Contact(req[s])
  BY <1>1, BusyRequest, ContactType
<1>3. CASE Applied(o)
  <2>1. codes' = [codes EXCEPT ![k] = Absent] /\ promised' = [promised EXCEPT ![k] = Absent]
    BY <1>3 DEF Finish
  <2>2. Rewritten(k)
    <3>. HIDE DEF k
    <3>. QED  BY <1>2, <2>1 DEF Rewritten, TypeOK
  <2>. HIDE DEF k
  <2>. QED  BY <1>1, <1>2, <2>2, PromiseRewritten
<1>4. CASE ~Applied(o)
  <2>1. codes' = codes /\ promised' = promised
    BY <1>4 DEF Finish
  <2>. QED  BY <1>1, <2>1, PromiseKept
<1>. QED  BY <1>3, <1>4

LEMMA PromiseStep ==
  RegistrationAssumption /\ TypeOK /\ TypeOK' /\ Touched /\ PromiseInv /\ [Next]_vars
    => PromiseInv'
<1>. SUFFICES ASSUME RegistrationAssumption, TypeOK, TypeOK', Touched, PromiseInv,
                     [Next]_vars
              PROVE  PromiseInv'
  OBVIOUS
<1>1. ASSUME NEW s \in Servers, StepOf(s) PROVE PromiseInv'
  <2>1. Own(s)
    BY <1>1, OwnStep
  <2>2. ASSUME NEW r \in Requests, Receive(s, r) PROVE PromiseInv'
    <3>1. codes' = codes /\ promised' = promised
      BY <2>2 DEF Receive, redisVars
    <3>2. pc'[s] # "frequency"
      BY <2>2 DEF Receive, Respond, EndRequest, Become, TypeOK
    <3>. QED  BY <2>1, <3>1, <3>2, PromiseKept
  <2>3. ASSUME NEW o, NEW k \in Codes, ReadCount(s, o, k) PROVE PromiseInv'
    <3>1. codes' = codes /\ promised' = promised
      BY <2>3 DEF ReadCount, redisVars, historyVars
    <3>2. \E p \in {"idle", "save"} : pc' = [pc EXCEPT ![s] = p]
      BY <2>3 DEF ReadCount, Respond, EndRequest, Become
    <3>3. pc'[s] # "frequency"
      BY <3>2 DEF TypeOK
    <3>. QED  BY <2>1, <3>1, <3>3, PromiseKept
  <2>4. ASSUME NEW o, Verify(s, o) PROVE PromiseInv'
    <3>1. codes' = codes /\ promised' = promised
      BY <2>4 DEF Verify, redisVars, historyVars
    <3>2. \E p \in {"idle", "delete"} : pc' = [pc EXCEPT ![s] = p]
      BY <2>4 DEF Verify, Respond, EndRequest, Become
    <3>3. pc'[s] # "frequency"
      BY <3>2 DEF TypeOK
    <3>. QED  BY <2>1, <3>1, <3>3, PromiseKept
  <2>5. CASE Crash(s)
    <3>1. codes' = codes /\ promised' = promised /\ pc'[s] = "idle"
      BY <2>5, EndRequestEffect DEF Crash, redisVars, historyVars
    <3>. QED  BY <2>1, <3>1, PromiseKept
  <2>. QED
    BY <1>1, <2>1, <2>2, <2>3, <2>4, <2>5, SaveCodePromise, CountSendPromise,
       FinishPromise DEF StepOf
<1>2. CASE Tick
  <2>1. /\ clock \in Nat /\ clock' = clock + 1 /\ UNCHANGED <<pc, req, draft, handlers>>
        /\ codes' = [k \in Contacts \X Types |->
                       IF codes[k].until > clock' THEN codes[k] ELSE Absent]
        /\ promised' = [k \in Contacts \X Types |->
                          IF promised[k].until > clock' THEN promised[k] ELSE Absent]
    BY <1>2 DEF Tick, TypeOK
  <2>2. PromisedCodeIsGood'
    BY <2>1 DEF PromiseInv, PromisedCodeIsGood, Sticky
  <2>3. FreshDraft'
    <3>. SUFFICES ASSUME NEW t \in Servers, pc[t] = "frequency", Sticky(Contact(req[t])),
                         draft[t].until > clock'
                  PROVE  codes'[Key(t)] = draft[t]
      BY <2>1 DEF FreshDraft, Sticky, Key
    <3>1. Key(t) \in Contacts \X Types
      BY SendFacts
    <3>2. draft[t].until \in Nat
      BY DEF TypeOK, Stored
    <3>3. codes[Key(t)] = draft[t]
      BY <2>1, <3>2 DEF PromiseInv, FreshDraft
    <3>. QED  BY <2>1, <3>1, <3>3
  <2>. QED  BY <2>2, <2>3 DEF PromiseInv
<1>3. CASE UNCHANGED vars
  BY <1>3 DEF vars, PromiseInv, FreshDraft, PromisedCodeIsGood, Sticky, Key
<1>. QED  BY <1>1, <1>2, <1>3 DEF Next, StepOf

LEMMA TouchedHolds == Spec => []Touched
<1>1. Init => Touched
  BY DEF Init, Touched
<1>. QED
  BY <1>1, TouchedStep, RegistrationTypeCorrect, RegistrationAssumption, PTL DEF Spec

(* A contact whose requests go to one instance can use the code it was promised
   last, whatever is sent, used or lost in between. *)
THEOREM PromisedCodeIsGoodHolds == Spec => []PromisedCodeIsGood
<1>1. Init => PromiseInv
  BY DEF Init, PromiseInv, FreshDraft, PromisedCodeIsGood
<1>2. PromiseInv => PromisedCodeIsGood
  BY DEF PromiseInv
<1>. QED
  BY <1>1, <1>2, PromiseStep, TouchedHolds, RegistrationTypeCorrect,
     RegistrationAssumption, PTL DEF Spec

-----------------------------------------------------------------------------
(* DailyLimit.  The count in Redis lags behind what was sent by as many sends
   as there were failures, times the limit; so does the count that an instance
   has read and not yet written back. *)

(* The sends of q that are less than a day old at the time t. *)
After(q, t) == {i \in DOMAIN q : q[i] + Day > t}
SentAfter(c, t) == Cardinality(After(sentAt[c], t))
Allowance == MaxSends * failures

Counting(s) == pc[s] \in {"save", "frequency"}

Limits ==
  /\ \A c \in Contacts :
       counts[c].n <= MaxSends /\ \A i \in DOMAIN sentAt[c] : sentAt[c][i] <= clock
  /\ \A s \in Servers : Counting(s) => seen[s] < MaxSends
  /\ \A s \in Servers : pc[s] = "frequency" => conn[s]

Counted(c) ==
  /\ SentAfter(c, clock) <= Allowance + counts[c].n
  /\ counts[c] # Zero => SentAfter(c, counts[c].until) <= Allowance
  /\ \A s \in Servers : Counting(s) /\ conn[s] /\ Contact(req[s]) = c =>
       SentAfter(c, clock) <= Allowance + seen[s]

LimitInv == \A c \in Contacts : Sticky(c) => Counted(c)

LEMMA AfterFinite ==
  ASSUME NEW q \in Seq(Nat), NEW t \in Nat
  PROVE  /\ IsFiniteSet(After(q, t)) /\ Cardinality(After(q, t)) \in Nat
         /\ After(q, t) \in SUBSET (1..Len(q))
<1>1. Len(q) \in Nat /\ DOMAIN q = 1..Len(q)
  BY LenProperties
<1>2. IsFiniteSet(1..Len(q))
  <2>1. 1 \in Int /\ Len(q) \in Int
    BY <1>1
  <2>. QED  BY <2>1, FS_Interval
<1>3. After(q, t) \in SUBSET (1..Len(q))
  BY <1>1 DEF After
<1>. QED  BY <1>2, <1>3, FS_Subset, FS_CardinalityType

(* Later, fewer of them are left. *)
LEMMA AfterLater ==
  ASSUME RegistrationAssumption, NEW q \in Seq(Nat), NEW t \in Nat, NEW u \in Nat, t <= u
  PROVE  Cardinality(After(q, u)) <= Cardinality(After(q, t))
<1>1. \A i \in DOMAIN q : q[i] \in Nat
  BY LenProperties, ElementOfSeq
<1>2. After(q, u) \in SUBSET After(q, t)
  BY <1>1 DEF After, RegistrationAssumption
<1>. QED  BY <1>2, AfterFinite, FS_Subset

(* A send adds at most itself. *)
LEMMA AfterAppend ==
  ASSUME NEW q \in Seq(Nat), NEW x \in Nat, NEW t \in Nat
  PROVE  Cardinality(After(Append(q, x), t)) <= Cardinality(After(q, t)) + 1
<1>. DEFINE A == After(q, t)
            B == After(Append(q, x), t)
            n == Len(q) + 1
<1>1. Len(q) \in Nat /\ DOMAIN q = 1..Len(q)
  BY LenProperties
<1>2. /\ DOMAIN Append(q, x) = 1..n
      /\ \A i \in 1..Len(q) : Append(q, x)[i] = q[i]
  <2>1. Append(q, x) \in Seq(Nat) /\ Len(Append(q, x)) = n
    BY AppendProperties
  <2>2. DOMAIN Append(q, x) = 1..Len(Append(q, x))
    BY <2>1, LenProperties
  <2>. QED  BY <2>1, <2>2, AppendProperties
<1>3. ASSUME NEW i \in B, i # n PROVE i \in A
  <2>1. i \in 1..Len(q)
    BY <1>1, <1>2, <1>3 DEF After
  <2>. QED  BY <1>1, <1>2, <2>1 DEF After
<1>4. IsFiniteSet(A) /\ Cardinality(A) \in Nat
  BY AfterFinite
<1>. HIDE DEF A, B, n
<1>5. /\ IsFiniteSet(A \cup {n})
      /\ Cardinality(A \cup {n}) = IF n \in A THEN Cardinality(A) ELSE Cardinality(A) + 1
  BY <1>4, FS_AddElement
<1>6. B \in SUBSET (A \cup {n})
  BY <1>3
<1>7. IsFiniteSet(B) /\ Cardinality(B) <= Cardinality(A \cup {n})
  BY <1>5, <1>6, FS_Subset
<1>8. Cardinality(B) \in Nat
  BY <1>7, FS_CardinalityType
<1>9. Cardinality(B) <= Cardinality(A) + 1
  BY <1>4, <1>5, <1>7, <1>8
<1>. QED  BY <1>9 DEF A, B

LEMMA AllowanceFacts ==
  ASSUME RegistrationAssumption, TypeOK, TypeOK', failures <= failures'
  PROVE  /\ Allowance \in Nat /\ Allowance' \in Nat /\ Allowance <= Allowance'
         /\ failures' = failures + 1 => Allowance' = Allowance + MaxSends
<1>1. MaxSends \in Nat /\ failures \in Nat /\ failures' \in Nat
  BY DEF RegistrationAssumption, TypeOK
<1>2. MaxSends * failures <= MaxSends * failures'
  BY <1>1, Times
<1>3. MaxSends * (failures + 1) = MaxSends * failures + MaxSends
  BY <1>1, Times
<1>4. \A m, n \in Nat : m * n \in Nat
  OBVIOUS
<1>5. MaxSends * failures \in Nat /\ MaxSends * failures' \in Nat
  BY <1>1, <1>4, Zenon
<1>. QED  BY <1>2, <1>3, <1>5 DEF Allowance

(* The numbers that the invariant compares. *)
LEMMA LimitTypes ==
  ASSUME RegistrationAssumption, TypeOK, NEW c \in Contacts
  PROVE  /\ clock \in Nat /\ sentAt[c] \in Seq(Nat)
         /\ counts[c].n \in Nat /\ counts[c].until \in Nat
         /\ \A t \in Nat : SentAfter(c, t) \in Nat
<1>1. clock \in Nat /\ counts[c].n \in Nat /\ counts[c].until \in Nat
  BY DEF TypeOK
<1>2. sentAt[c] \in Seq(0..MaxClock)
  BY DEF TypeOK
<1>3. sentAt[c] \in Seq(Nat)
  <2>1. 0..MaxClock \subseteq Nat
    OBVIOUS
  <2>. QED  BY <1>2, <2>1, SeqMonotonic
<1>. QED  BY <1>1, <1>3, AfterFinite DEF SentAfter

(* A step that leaves a contact's keys alone. *)
LEMMA CountedKept ==
  ASSUME RegistrationAssumption, TypeOK, TypeOK', NEW c \in Contacts, Counted(c),
         clock' = clock, counts'[c] = counts[c], sentAt'[c] = sentAt[c],
         failures <= failures',
         \A s \in Servers : Counting(s)' /\ conn'[s] /\ Contact(req'[s]) = c =>
           Counting(s) /\ conn[s] /\ Contact(req[s]) = c /\ seen'[s] = seen[s]
  PROVE  Counted(c)'
<1>1. Allowance \in Nat /\ Allowance' \in Nat /\ Allowance <= Allowance'
  BY AllowanceFacts
<1>2. \A t : SentAfter(c, t)' = SentAfter(c, t)
  BY DEF SentAfter
<1>3. /\ clock \in Nat /\ counts[c].n \in Nat /\ counts[c].until \in Nat
      /\ \A t \in Nat : SentAfter(c, t) \in Nat
  BY LimitTypes
<1>4. \A s \in Servers : seen[s] \in Nat
  BY DEF TypeOK
<1>5. SentAfter(c, clock)' <= Allowance' + counts'[c].n
  <2>1. SentAfter(c, clock) <= Allowance + counts[c].n
    BY DEF Counted
  <2>. QED  BY <1>1, <1>2, <1>3, <2>1
<1>6. ASSUME counts'[c] # Zero PROVE SentAfter(c, counts[c].until)' <= Allowance'
  <2>1. SentAfter(c, counts[c].until) <= Allowance
    BY <1>6 DEF Counted, Zero
  <2>2. SentAfter(c, counts[c].until)' = SentAfter(c, counts[c].until)
    BY <1>2
  <2>. QED  BY <1>1, <1>3, <2>1, <2>2
<1>7. ASSUME NEW s \in Servers, Counting(s)', conn'[s], Contact(req'[s]) = c
      PROVE  SentAfter(c, clock)' <= Allowance' + seen'[s]
  <2>1. SentAfter(c, clock) <= Allowance + seen[s] /\ seen'[s] = seen[s]
    BY <1>7 DEF Counted
  <2>. QED  BY <1>1, <1>2, <1>3, <1>4, <2>1
<1>. QED  BY <1>5, <1>6, <1>7 DEF Counted, Zero

(* A connection that a command leaves usable was usable. *)
LEMMA CommandKeeps ==
  ASSUME TypeOK, NEW s \in Servers, NEW o, Command(s, o), conn'[s]
  PROVE  conn[s]
BY DEF TypeOK, Command, Outcomes

LEMMA LimitsKept ==
  ASSUME Limits, NEW s \in Servers, Own(s), counts' = counts, sentAt' = sentAt,
         Counting(s)' => seen'[s] < MaxSends, pc'[s] = "frequency" => conn'[s]
  PROVE  Limits'
BY DEF Limits, Own, Counting

LEMMA ReadCountLimits ==
  ASSUME RegistrationAssumption, TypeOK, Limits, NEW s \in Servers, NEW o,
         NEW k \in Codes, ReadCount(s, o, k), Own(s)
  PROVE  Limits'
<1>. DEFINE n == IF o = "done" THEN counts[Contact(req[s])].n ELSE 0
<1>1. counts' = counts /\ sentAt' = sentAt
  BY DEF ReadCount, redisVars, historyVars
<1>2. CASE n >= MaxSends
  <2>1. pc'[s] = "idle"
    BY <1>2, EndRequestEffect DEF ReadCount, Respond
  <2>. QED  BY <1>1, <2>1, LimitsKept DEF Counting
<1>3. CASE ~(n >= MaxSends)
  <2>1. pc' = [pc EXCEPT ![s] = "save"] /\ seen' = [seen EXCEPT ![s] = n]
    BY <1>3 DEF ReadCount, Become
  <2>2. pc'[s] = "save" /\ seen'[s] = n
    <3>. HIDE DEF n
    <3>. QED  BY <2>1 DEF TypeOK
  <2>3. n < MaxSends
    <3>1. Contact(req[s]) \in Contacts
      BY SendFacts DEF ReadCount
    <3>2. n \in Nat /\ MaxSends \in Nat
      BY <3>1 DEF TypeOK, RegistrationAssumption
    <3>. HIDE DEF n
    <3>. QED  BY <1>3, <3>2
  <2>. QED  BY <1>1, <2>2, <2>3, LimitsKept
<1>. QED  BY <1>2, <1>3

LEMMA CountSendLimits ==
  ASSUME RegistrationAssumption, TypeOK, Limits, NEW s \in Servers, NEW o,
         CountSend(s, o), Own(s)
  PROVE  Limits'
<1>. DEFINE d == Contact(req[s])
<1>1. d \in Contacts /\ pc[s] = "frequency" /\ pc'[s] = "idle" /\ clock' = clock
  BY SendFacts, EndRequestEffect DEF CountSend, Respond
<1>2. seen[s] + 1 <= MaxSends /\ seen[s] \in Nat /\ clock \in 0..MaxClock
  BY <1>1 DEF Limits, Counting, TypeOK, RegistrationAssumption
<1>3. \/ counts' = counts
      \/ counts' = [counts EXCEPT ![d] = [n |-> seen[s] + 1, until |-> clock + Day]]
  BY DEF CountSend
<1>4. sentAt' = [sentAt EXCEPT ![d] = Append(sentAt[d], clock)]
  BY DEF CountSend
<1>. HIDE DEF d
<1>5. ASSUME NEW c \in Contacts PROVE counts'[c].n <= MaxSends
  <2>1. counts[c].n <= MaxSends
    BY DEF Limits
  <2>2. \/ counts'[c] = counts[c]
        \/ counts'[c] = [n |-> seen[s] + 1, until |-> clock + Day]
    BY <1>1, <1>3 DEF TypeOK
  <2>. QED  BY <1>2, <2>1, <2>2
<1>6. ASSUME NEW c \in Contacts, NEW i \in DOMAIN sentAt'[c] PROVE sentAt'[c][i] <= clock'
  <2>1. CASE c # d
    BY <1>1, <1>4, <1>6, <2>1 DEF Limits, TypeOK
  <2>2. CASE c = d
    <3>. DEFINE q == sentAt[d]
    <3>1. sentAt'[c] = Append(q, clock) /\ q \in Seq(0..MaxClock)
      BY <1>1, <1>4, <2>2 DEF TypeOK
    <3>2. \A j \in DOMAIN q : q[j] <= clock
      BY <1>1 DEF Limits
    <3>. HIDE DEF q
    <3>3. Len(q) \in Nat /\ DOMAIN q = 1..Len(q)
      BY <3>1, LenProperties
    <3>4. /\ Append(q, clock) \in Seq(0..MaxClock) /\ Len(Append(q, clock)) = Len(q) + 1
          /\ Append(q, clock)[Len(q) + 1] = clock
          /\ \A j \in 1..Len(q) : Append(q, clock)[j] = q[j]
      BY <1>2, <3>1, AppendProperties
    <3>5. DOMAIN Append(q, clock) = 1..Len(q) + 1
      BY <3>4, LenProperties
    <3>6. i = Len(q) + 1 \/ i \in 1..Len(q)
      BY <1>6, <3>1, <3>3, <3>5
    <3>7. Append(q, clock)[i] <= clock
      BY <1>2, <3>2, <3>3, <3>4, <3>6
    <3>. QED  BY <1>1, <3>1, <3>7
  <2>. QED  BY <2>1, <2>2
<1>7. \A t \in Servers : Counting(t)' => seen'[t] < MaxSends
  BY <1>1 DEF Limits, Own, Counting
<1>8. \A t \in Servers : pc'[t] = "frequency" => conn'[t]
  BY <1>1 DEF Limits, Own
<1>. QED  BY <1>5, <1>6, <1>7, <1>8 DEF Limits

LEMMA LimitsStep ==
  RegistrationAssumption /\ TypeOK /\ Limits /\ [Next]_vars => Limits'
<1>. SUFFICES ASSUME RegistrationAssumption, TypeOK, Limits, [Next]_vars PROVE Limits'
  OBVIOUS
<1>1. ASSUME NEW s \in Servers, StepOf(s) PROVE Limits'
  <2>1. Own(s)
    BY <1>1, OwnStep
  <2>2. ASSUME NEW r \in Requests, Receive(s, r) PROVE Limits'
    <3>1. counts' = counts /\ sentAt' = sentAt
      BY <2>2 DEF Receive, redisVars
    <3>2. pc'[s] \in {"idle", "count", "verify"}
      BY <2>2 DEF Receive, Respond, EndRequest, Become, TypeOK
    <3>. QED  BY <2>1, <3>1, <3>2, LimitsKept DEF Counting
  <2>3. ASSUME NEW o, SaveCode(s, o) PROVE Limits'
    <3>1. counts' = counts /\ sentAt' = sentAt /\ pc[s] = "save"
      BY <2>3 DEF SaveCode
    <3>2. CASE o = "done"
      <4>1. seen' = seen /\ conn'[s]
        BY <2>3, <3>2, CommandEffect DEF SaveCode
      <4>. QED  BY <2>1, <3>1, <4>1, LimitsKept DEF Limits, Counting
    <3>3. CASE o # "done"
      <4>1. pc'[s] = "idle"
        BY <2>3, <3>3, EndRequestEffect DEF SaveCode, Respond
      <4>. QED  BY <2>1, <3>1, <4>1, LimitsKept DEF Counting
    <3>. QED  BY <3>2, <3>3
  <2>4. ASSUME NEW o, Verify(s, o) PROVE Limits'
    <3>1. counts' = counts /\ sentAt' = sentAt
      BY <2>4 DEF Verify, redisVars, historyVars
    <3>2. \E p \in {"idle", "delete"} : pc' = [pc EXCEPT ![s] = p]
      BY <2>4 DEF Verify, Respond, EndRequest, Become
    <3>3. pc'[s] \in {"idle", "delete"}
      BY <3>2 DEF TypeOK
    <3>. QED  BY <2>1, <3>1, <3>3, LimitsKept DEF Counting
  <2>5. ASSUME NEW o, NEW u \in UserIds, Finish(s, o, u) PROVE Limits'
    <3>1. counts' = counts /\ sentAt' = sentAt /\ pc'[s] = "idle"
      BY <2>5, EndRequestEffect DEF Finish, Respond
    <3>. QED  BY <2>1, <3>1, LimitsKept DEF Counting
  <2>6. CASE Crash(s)
    <3>1. counts' = counts /\ sentAt' = sentAt /\ pc'[s] = "idle"
      BY <2>6, EndRequestEffect DEF Crash, redisVars, historyVars
    <3>. QED  BY <2>1, <3>1, LimitsKept DEF Counting
  <2>. QED
    BY <1>1, <2>1, <2>2, <2>3, <2>4, <2>5, <2>6, ReadCountLimits, CountSendLimits DEF StepOf
<1>2. CASE Tick
  <2>1. /\ clock \in Nat /\ clock' = clock + 1 /\ UNCHANGED <<pc, seen, conn, sentAt>>
        /\ counts' = [c \in Contacts |->
                        IF counts[c].until > clock' THEN counts[c] ELSE Zero]
    BY <1>2 DEF Tick, TypeOK
  <2>2. \A c \in Contacts : counts'[c].n <= MaxSends
    BY <2>1 DEF Limits, Zero, RegistrationAssumption
  <2>3. ASSUME NEW c \in Contacts, NEW i \in DOMAIN sentAt[c] PROVE sentAt[c][i] <= clock + 1
    <3>1. sentAt[c] \in Seq(Nat)
      BY LimitTypes
    <3>2. sentAt[c][i] \in Nat
      BY <2>3, <3>1, LenProperties, ElementOfSeq
    <3>3. sentAt[c][i] <= clock
      BY <2>3 DEF Limits
    <3>. QED  BY <2>1, <3>2, <3>3
  <2>. QED  BY <2>1, <2>2, <2>3 DEF Limits, Counting
<1>3. CASE UNCHANGED vars
  BY <1>3 DEF vars, Limits, Counting
<1>. QED  BY <1>1, <1>2, <1>3 DEF Next, StepOf

LEMMA ReadCountCounted ==
  ASSUME RegistrationAssumption, TypeOK, TypeOK', Limits, NEW s \in Servers, NEW o,
         NEW k \in Codes, ReadCount(s, o, k), Own(s), NEW c \in Contacts, Counted(c)
  PROVE  Counted(c)'
<1>. DEFINE d == Contact(req[s])
            n == IF o = "done" THEN counts[d].n ELSE 0
<1>1. /\ clock' = clock /\ counts' = counts /\ sentAt' = sentAt
      /\ Command(s, o) /\ failures <= failures' /\ d \in Contacts
  BY CommandEffect, SendFacts DEF ReadCount, redisVars, historyVars, TypeOK
<1>2. CASE ~Counting(s)' \/ Contact(req'[s]) # c
  BY <1>1, <1>2, CountedKept DEF Own, Counting
<1>3. CASE Counting(s)' /\ Contact(req'[s]) = c
  <2>1. ~(n >= MaxSends)
    <3>. SUFFICES ASSUME n >= MaxSends PROVE FALSE
      OBVIOUS
    <3>1. pc'[s] = "idle"
      BY EndRequestEffect DEF ReadCount, Respond
    <3>. QED  BY <1>3, <3>1 DEF Counting
  <2>2. seen' = [seen EXCEPT ![s] = n] /\ req' = req
    BY <2>1 DEF ReadCount
  <2>3. seen'[s] = n /\ d = c
    <3>1. seen'[s] = n
      <4>. HIDE DEF n
      <4>. QED  BY <2>2 DEF TypeOK
    <3>. QED  BY <1>3, <2>2, <3>1
  <2>4. /\ Allowance \in Nat /\ Allowance' \in Nat /\ Allowance <= Allowance'
        /\ failures' = failures + 1 => Allowance' = Allowance + MaxSends
    BY <1>1, AllowanceFacts
  <2>5. /\ clock \in Nat /\ counts[c].n \in Nat /\ counts[c].until \in Nat
        /\ \A t \in Nat : SentAfter(c, t) \in Nat
    BY LimitTypes
  <2>6. \A t : SentAfter(c, t)' = SentAfter(c, t)
    BY <1>1 DEF SentAfter
  <2>7. SentAfter(c, clock) <= Allowance + counts[c].n
    BY DEF Counted
  <2>8. ASSUME conn'[s] PROVE SentAfter(c, clock)' <= Allowance' + seen'[s]
    <3>1. CASE o = "done"
      BY <1>1, <2>3, <2>4, <2>5, <2>6, <2>7, <3>1
    <3>2. CASE o # "done"
      <4>1. failures' = failures + 1
        BY <1>1, <2>8, <3>2, CommandKeeps, CommandEffect
      <4>2. counts[c].n <= MaxSends /\ MaxSends \in Nat
        BY DEF Limits, RegistrationAssumption
      <4>3. seen'[s] = 0
        BY <2>3, <3>2
      <4>. QED  BY <1>1, <2>4, <2>5, <2>6, <2>7, <4>1, <4>2, <4>3
    <3>. QED  BY <3>1, <3>2
  <2>9. ASSUME NEW t \in Servers, Counting(t)', conn'[t], Contact(req'[t]) = c
        PROVE  SentAfter(c, clock)' <= Allowance' + seen'[t]
    <3>1. CASE t = s
      BY <2>8, <2>9, <3>1
    <3>2. CASE t # s
      <4>1. Counting(t) /\ conn[t] /\ Contact(req[t]) = c /\ seen'[t] = seen[t]
        BY <2>9, <3>2 DEF Own, Counting
      <4>2. SentAfter(c, clock) <= Allowance + seen[t] /\ seen[t] \in Nat
        BY <4>1 DEF Counted, TypeOK
      <4>. QED  BY <1>1, <2>4, <2>5, <2>6, <4>1, <4>2
    <3>. QED  BY <3>1, <3>2
  <2>10. SentAfter(c, clock)' <= Allowance' + counts'[c].n
    BY <1>1, <2>4, <2>5, <2>6, <2>7
  <2>11. ASSUME counts'[c] # Zero PROVE SentAfter(c, counts[c].until)' <= Allowance'
    <3>1. SentAfter(c, counts[c].until) <= Allowance
      BY <1>1, <2>11 DEF Counted, Zero
    <3>2. SentAfter(c, counts[c].until)' = SentAfter(c, counts[c].until)
      BY <1>1, <2>6
    <3>. QED  BY <2>4, <2>5, <3>1, <3>2
  <2>. QED  BY <2>9, <2>10, <2>11 DEF Counted, Zero
<1>. QED  BY <1>2, <1>3

LEMMA CountSendCounted ==
  ASSUME RegistrationAssumption, TypeOK, TypeOK', Limits, Touched, NEW s \in Servers, NEW o,
         CountSend(s, o), Own(s), NEW c \in Contacts, Sticky(c), Counted(c)
  PROVE  Counted(c)'
<1>. DEFINE d == Contact(req[s])
            q == sentAt[c]
<1>1. /\ clock' = clock /\ Command(s, o) /\ failures <= failures' /\ d \in Contacts
      /\ pc[s] = "frequency" /\ pc'[s] = "idle" /\ conn[s]
  BY CommandEffect, EndRequestEffect, SendFacts DEF CountSend, Respond, TypeOK, Limits
<1>2. /\ counts' = IF Applied(o) THEN [counts EXCEPT ![d] = [n |-> seen[s] + 1,
                                                             until |-> clock + Day]]
                   ELSE counts
      /\ sentAt' = [sentAt EXCEPT ![d] = Append(sentAt[d], clock)]
  BY DEF CountSend
<1>3. CASE c # d
  <2>1. counts'[c] = counts[c] /\ sentAt'[c] = sentAt[c]
    <3>. HIDE DEF d
    <3>. QED  BY <1>1, <1>2, <1>3 DEF TypeOK
  <2>. QED  BY <1>1, <2>1, CountedKept DEF Own, Counting
<1>4. CASE c = d
  <2>1. /\ Allowance \in Nat /\ Allowance' \in Nat /\ Allowance <= Allowance'
        /\ failures' = failures + 1 => Allowance' = Allowance + MaxSends
    BY <1>1, AllowanceFacts
  <2>2. /\ clock \in Nat /\ counts[c].n \in Nat /\ counts[c].until \in Nat
        /\ q \in Seq(Nat) /\ \A t \in Nat : SentAfter(c, t) \in Nat
    BY LimitTypes
  <2>3. /\ seen[s] \in Nat /\ seen[s] + 1 <= MaxSends /\ MaxSends \in Nat
        /\ Day \in Nat /\ Day > 0
    <3>1. seen[s] < MaxSends
      BY <1>1 DEF Limits, Counting
    <3>2. seen[s] \in Nat /\ MaxSends \in Nat /\ Day \in Nat /\ Day > 0
      BY DEF TypeOK, RegistrationAssumption
    <3>. QED  BY <3>1, <3>2
  <2>4. sentAt'[c] = Append(q, clock)
    BY <1>2, <1>4 DEF TypeOK
  <2>5. ASSUME NEW t \in Nat
        PROVE  /\ Cardinality(After(sentAt'[c], t)) <= SentAfter(c, t) + 1
               /\ Cardinality(After(sentAt'[c], t)) \in Nat
    <3>1. Append(q, clock) \in Seq(Nat)
      BY <2>2, AppendProperties
    <3>. QED  BY <2>2, <2>4, <3>1, AfterAppend, AfterFinite DEF SentAfter
  <2>6. SentAfter(c, clock) <= Allowance + seen[s]
    BY <1>1, <1>4 DEF Counted, Counting
  <2>7. ASSUME NEW t \in Servers, Counting(t)', Contact(req'[t]) = c PROVE FALSE
    <3>1. t # s /\ pc[t] # "idle" /\ Contact(req[t]) = c
      BY <1>1, <2>7 DEF Counting, Own
    <3>2. t \in handlers[c] /\ s \in handlers[c]
      BY <1>1, <1>4, <3>1 DEF Touched
    <3>. QED  BY <3>1, <3>2, StickyAlone
  <2>8. CASE Applied(o)
    <3>1. counts'[c] = [n |-> seen[s] + 1, until |-> clock + Day]
      <4>. HIDE DEF d
      <4>. QED  BY <1>1, <1>2, <1>4, <2>8 DEF TypeOK
    <3>2. counts'[c].n = seen[s] + 1 /\ counts'[c].until = clock + Day
      BY <3>1
    <3>3. SentAfter(c, clock)' <= Allowance' + counts'[c].n
      <4>1. SentAfter(c, clock)' = Cardinality(After(sentAt'[c], clock))
        BY <1>1 DEF SentAfter
      <4>2. SentAfter(c, clock) \in Nat
        BY <2>2
      <4>3. /\ Cardinality(After(sentAt'[c], clock)) <= SentAfter(c, clock) + 1
            /\ Cardinality(After(sentAt'[c], clock)) \in Nat
        BY <2>2, <2>5
      <4>. QED  BY <2>1, <2>3, <2>6, <3>2, <4>1, <4>2, <4>3
    <3>4. SentAfter(c, counts[c].until)' <= Allowance'
      <4>1. \A i \in DOMAIN sentAt'[c] : sentAt'[c][i] <= clock /\ sentAt'[c][i] \in Nat
        <5>1. \A i \in DOMAIN q : q[i] <= clock
          BY DEF Limits
        <5>. HIDE DEF q
        <5>2. Len(q) \in Nat /\ DOMAIN q = 1..Len(q)
          BY <2>2, LenProperties
        <5>3. /\ Append(q, clock) \in Seq(Nat) /\ Len(Append(q, clock)) = Len(q) + 1
              /\ Append(q, clock)[Len(q) + 1] = clock
              /\ \A j \in 1..Len(q) : Append(q, clock)[j] = q[j]
          BY <2>2, AppendProperties
        <5>4. DOMAIN Append(q, clock) = 1..Len(q) + 1
          BY <5>3, LenProperties
        <5>5. \A j \in 1..Len(q) : q[j] \in Nat
          BY <2>2, ElementOfSeq
        <5>6. \A i \in 1..Len(q) + 1 : i = Len(q) + 1 \/ i \in 1..Len(q)
          BY <5>2
        <5>. DEFINE r == Append(q, clock)
        <5>7. /\ DOMAIN r = 1..Len(q) + 1 /\ r[Len(q) + 1] = clock
              /\ \A j \in 1..Len(q) : r[j] = q[j]
          BY <5>3, <5>4
        <5>8. sentAt'[c] = r
          BY <2>4
        <5>. HIDE DEF r
        <5>9. ASSUME NEW i \in DOMAIN r PROVE r[i] <= clock /\ r[i] \in Nat
          <6>1. CASE i = Len(q) + 1
            BY <2>2, <5>7, <6>1
          <6>2. CASE i \in 1..Len(q)
            BY <5>1, <5>2, <5>5, <5>7, <6>2
          <6>. QED  BY <5>6, <5>7, <6>1, <6>2
        <5>. QED  BY <5>8, <5>9
      <4>2. After(sentAt'[c], clock + Day) = {}
        <5>1. ASSUME NEW i \in DOMAIN sentAt'[c] PROVE ~(sentAt'[c][i] + Day > clock + Day)
          <6>. DEFINE x == sentAt'[c][i]
          <6>1. x <= clock /\ x \in Nat
            BY <4>1
          <6>. HIDE DEF x
          <6>2. ~(x + Day > clock + Day)
            BY <2>2, <2>3, <6>1
          <6>. QED  BY <6>2 DEF x
        <5>. QED  BY <5>1 DEF After
      <4>3. SentAfter(c, counts[c].until)' = Cardinality(After(sentAt'[c], clock + Day))
        BY <3>2 DEF SentAfter
      <4>4. SentAfter(c, counts[c].until)' = 0
        BY <4>2, <4>3, FS_EmptySet, Zenon
      <4>. QED  BY <2>1, <4>4
    <3>. QED  BY <2>7, <3>3, <3>4 DEF Counted
  <2>9. CASE ~Applied(o)
    <3>1. counts'[c] = counts[c]
      BY <1>2, <2>9
    <3>2. Allowance' = Allowance + MaxSends
      <4>1. o # "done"
        BY <2>9 DEF Applied
      <4>. QED  BY <1>1, <2>1, <4>1, CommandEffect
    <3>3. SentAfter(c, clock)' <= Allowance' + counts'[c].n
      <4>1. SentAfter(c, clock)' = Cardinality(After(sentAt'[c], clock))
        BY <1>1 DEF SentAfter
      <4>2. SentAfter(c, clock) \in Nat
        BY <2>2
      <4>3. /\ Cardinality(After(sentAt'[c], clock)) <= SentAfter(c, clock) + 1
            /\ Cardinality(After(sentAt'[c], clock)) \in Nat
        BY <2>2, <2>5
      <4>4. counts'[c].n \in Nat
        BY <2>2, <3>1
      <4>. QED  BY <2>1, <2>3, <2>6, <3>2, <4>1, <4>2, <4>3, <4>4
    <3>4. ASSUME counts'[c] # Zero PROVE SentAfter(c, counts[c].until)' <= Allowance'
      <4>1. SentAfter(c, counts[c].until) <= Allowance
        BY <3>1, <3>4 DEF Counted, Zero
      <4>2. SentAfter(c, counts[c].until)' = Cardinality(After(sentAt'[c], counts[c].until))
        BY <3>1 DEF SentAfter
      <4>3. SentAfter(c, counts[c].until) \in Nat
        BY <2>2
      <4>4. /\ Cardinality(After(sentAt'[c], counts[c].until))
                 <= SentAfter(c, counts[c].until) + 1
            /\ Cardinality(After(sentAt'[c], counts[c].until)) \in Nat
        BY <2>2, <2>5
      <4>. QED  BY <2>1, <2>3, <3>2, <4>1, <4>2, <4>3, <4>4
    <3>. QED  BY <2>7, <3>3, <3>4 DEF Counted, Zero
  <2>. QED  BY <2>8, <2>9
<1>. QED  BY <1>3, <1>4

LEMMA TickCounted ==
  ASSUME RegistrationAssumption, TypeOK, TypeOK', Tick, NEW c \in Contacts, Counted(c)
  PROVE  Counted(c)'
<1>1. /\ clock' = clock + 1 /\ UNCHANGED <<pc, req, seen, conn, sentAt, failures>>
      /\ counts' = [d \in Contacts |->
                      IF counts[d].until > clock' THEN counts[d] ELSE Zero]
  BY DEF Tick, TypeOK
<1>2. /\ clock \in Nat /\ counts[c].n \in Nat /\ counts[c].until \in Nat
      /\ sentAt[c] \in Seq(Nat) /\ \A t \in Nat : SentAfter(c, t) \in Nat
  BY LimitTypes
<1>3. Allowance \in Nat /\ Allowance' = Allowance
  <2>1. failures <= failures' /\ failures' = failures
    BY <1>1 DEF TypeOK
  <2>. QED  BY <2>1, AllowanceFacts DEF Allowance
<1>4. /\ SentAfter(c, clock)' = SentAfter(c, clock + 1)
      /\ SentAfter(c, counts[c].until)' = SentAfter(c, counts'[c].until)
  BY <1>1 DEF SentAfter
<1>5. \A t, u \in Nat : t <= u => SentAfter(c, u) <= SentAfter(c, t)
  BY <1>2, AfterLater DEF SentAfter
<1>6. /\ clock + 1 \in Nat /\ clock \in Nat
      /\ SentAfter(c, clock + 1) \in Nat /\ SentAfter(c, clock) \in Nat
      /\ SentAfter(c, counts[c].until) \in Nat
  <2>1. clock + 1 \in Nat
    BY <1>2
  <2>. QED  BY <1>2, <2>1, Zenon
<1>7. SentAfter(c, clock + 1) <= SentAfter(c, clock)
  <2>1. clock <= clock + 1
    BY <1>2
  <2>. QED  BY <1>5, <1>6, <2>1, Zenon
<1>8. counts[c].n \in Nat /\ counts[c].until \in Nat
  BY <1>2
<1>9. IF counts[c].until > clock + 1 THEN counts'[c] = counts[c] ELSE counts'[c] = Zero
  BY <1>1
<1>10. SentAfter(c, clock)' <= Allowance' + counts'[c].n
  <2>1. SentAfter(c, clock) <= Allowance + counts[c].n /\ SentAfter(c, clock) \in Nat
    BY <1>2 DEF Counted
  <2>2. CASE counts'[c] = counts[c]
    BY <1>3, <1>4, <1>6, <1>7, <1>8, <2>1, <2>2
  <2>3. CASE counts[c] # Zero /\ counts[c].until <= clock + 1 /\ counts'[c] = Zero
    <3>1. SentAfter(c, counts[c].until) <= Allowance
      BY <2>3 DEF Counted
    <3>2. SentAfter(c, clock + 1) <= SentAfter(c, counts[c].until)
      BY <1>5, <1>6, <1>8, <2>3, Zenon
    <3>3. counts'[c].n = 0
      BY <2>3 DEF Zero
    <3>. QED  BY <1>3, <1>4, <1>6, <3>1, <3>2, <3>3
  <2>4. \/ counts'[c] = counts[c]
        \/ counts[c] # Zero /\ counts[c].until <= clock + 1 /\ counts'[c] = Zero
    BY <1>6, <1>8, <1>9
  <2>. QED  BY <2>2, <2>3, <2>4
<1>11. counts'[c] # Zero => SentAfter(c, counts[c].until)' <= Allowance'
  <2>1. counts'[c] # Zero => counts'[c] = counts[c]
    BY <1>1
  <2>. QED  BY <1>3, <1>4, <2>1 DEF Counted
<1>12. ASSUME NEW s \in Servers, Counting(s)', conn'[s], Contact(req'[s]) = c
      PROVE  SentAfter(c, clock)' <= Allowance' + seen'[s]
  <2>1. SentAfter(c, clock) <= Allowance + seen[s] /\ seen[s] \in Nat
    BY <1>1, <1>12 DEF Counted, Counting, TypeOK
  <2>. QED  BY <1>1, <1>3, <1>4, <1>6, <1>7, <2>1
<1>. QED  BY <1>10, <1>11, <1>12 DEF Counted, Zero

LEMMA LimitStep ==
  RegistrationAssumption /\ TypeOK /\ TypeOK' /\ Touched /\ Limits /\ LimitInv
    /\ [Next]_vars => LimitInv'
<1>. SUFFICES ASSUME RegistrationAssumption, TypeOK, TypeOK', Touched, Limits, LimitInv,
                     [Next]_vars, NEW c \in Contacts, Sticky(c)'
              PROVE  Counted(c)'
  BY DEF LimitInv
<1>1. ASSUME NEW s \in Servers, StepOf(s) PROVE Counted(c)'
  <2>1. Own(s)
    BY <1>1, OwnStep
  <2>2. Sticky(c) /\ Counted(c)
    BY <2>1, StickyBefore DEF Own, LimitInv
  <2>3. ASSUME counts' = counts, sentAt' = sentAt, failures <= failures', ~Counting(s)'
        PROVE  Counted(c)'
    BY <2>1, <2>2, <2>3, CountedKept DEF Own, Counting
  <2>4. ASSUME NEW r \in Requests, Receive(s, r) PROVE Counted(c)'
    <3>1. counts' = counts /\ sentAt' = sentAt /\ failures <= failures'
      BY <2>4 DEF Receive, redisVars, TypeOK
    <3>2. pc'[s] \in {"idle", "count", "verify"}
      BY <2>4 DEF Receive, Respond, EndRequest, Become, TypeOK
    <3>. QED  BY <2>3, <3>1, <3>2 DEF Counting
  <2>5. ASSUME NEW o, SaveCode(s, o) PROVE Counted(c)'
    <3>1. /\ counts' = counts /\ sentAt' = sentAt /\ failures <= failures'
          /\ pc[s] = "save" /\ Command(s, o)
      BY <2>5, CommandEffect DEF SaveCode, TypeOK
    <3>2. CASE o = "done"
      <4>1. seen' = seen /\ req' = req /\ conn[s]
        BY <2>5, <3>1, <3>2, CommandEffect DEF SaveCode
      <4>. QED  BY <2>1, <2>2, <3>1, <4>1, CountedKept DEF Own, Counting
    <3>3. CASE o # "done"
      <4>1. pc'[s] = "idle"
        BY <2>5, <3>3, EndRequestEffect DEF SaveCode, Respond
      <4>. QED  BY <2>3, <3>1, <4>1 DEF Counting
    <3>. QED  BY <3>2, <3>3
  <2>6. ASSUME NEW o, Verify(s, o) PROVE Counted(c)'
    <3>1. counts' = counts /\ sentAt' = sentAt /\ failures <= failures'
      BY <2>6, CommandEffect DEF Verify, redisVars, historyVars
    <3>2. \E p \in {"idle", "delete"} : pc' = [pc EXCEPT ![s] = p]
      BY <2>6 DEF Verify, Respond, EndRequest, Become
    <3>3. pc'[s] \in {"idle", "delete"}
      BY <3>2 DEF TypeOK
    <3>. QED  BY <2>3, <3>1, <3>3 DEF Counting
  <2>7. ASSUME NEW o, NEW u \in UserIds, Finish(s, o, u) PROVE Counted(c)'
    <3>1. counts' = counts /\ sentAt' = sentAt /\ pc'[s] = "idle" /\ failures <= failures'
      BY <2>7, EndRequestEffect, CommandEffect DEF Finish, Respond, TypeOK
    <3>. QED  BY <2>3, <3>1 DEF Counting
  <2>8. CASE Crash(s)
    <3>1. counts' = counts /\ sentAt' = sentAt /\ pc'[s] = "idle"
      BY <2>8, EndRequestEffect DEF Crash, redisVars, historyVars
    <3>2. failures <= failures'
      BY <2>8 DEF Crash, TypeOK
    <3>. QED  BY <2>3, <3>1, <3>2 DEF Counting
  <2>. QED
    BY <1>1, <2>1, <2>2, <2>4, <2>5, <2>6, <2>7, <2>8, ReadCountCounted,
       CountSendCounted DEF StepOf
<1>2. CASE Tick
  <2>1. Sticky(c)
    BY <1>2 DEF Tick, Sticky
  <2>. QED  BY <1>2, <2>1, TickCounted DEF LimitInv
<1>3. CASE UNCHANGED vars
  <2>1. Sticky(c)
    BY <1>3 DEF vars, Sticky
  <2>. QED  BY <1>3, <2>1 DEF vars, LimitInv, Counted, SentAfter, Allowance, Counting
<1>. QED  BY <1>1, <1>2, <1>3 DEF Next, StepOf

(* A contact whose requests go to one instance is sent at most the limit in any
   day, and the limit again for every failure. *)
THEOREM DailyLimitHolds == Spec => []DailyLimit
<1>1. Init => Limits /\ LimitInv
  <2>. SUFFICES ASSUME Init PROVE Limits /\ LimitInv
    OBVIOUS
  <2>1. Limits
    BY RegistrationAssumption DEF Init, Limits, Zero, Counting, RegistrationAssumption
  <2>2. ASSUME NEW c \in Contacts PROVE Counted(c)
    <3>1. /\ sentAt[c] = <<>> /\ counts[c] = Zero /\ clock = 0 /\ failures = 0
          /\ \A s \in Servers : ~Counting(s)
      BY DEF Init, Counting
    <3>2. After(sentAt[c], clock) = {}
      BY <3>1 DEF After
    <3>3. SentAfter(c, clock) = 0
      BY <3>2, FS_EmptySet DEF SentAfter
    <3>4. Allowance = 0
      BY <3>1, RegistrationAssumption DEF Allowance, RegistrationAssumption
    <3>. QED  BY <3>1, <3>3, <3>4 DEF Counted, Zero
  <2>. QED  BY <2>1, <2>2 DEF LimitInv
<1>2. TypeOK /\ Limits /\ LimitInv => DailyLimit
  <2>. SUFFICES ASSUME TypeOK, Limits, LimitInv, NEW c \in Contacts, Sticky(c)
                PROVE  SentInDay(c) <= MaxSends * (1 + failures)
    BY DEF DailyLimit
  <2>1. SentInDay(c) = SentAfter(c, clock)
    BY DEF SentInDay, SentAfter, After
  <2>2. SentAfter(c, clock) <= Allowance + counts[c].n /\ counts[c].n <= MaxSends
    BY DEF LimitInv, Counted, Limits
  <2>3. failures \in Nat /\ MaxSends \in Nat
    BY RegistrationAssumption DEF TypeOK, RegistrationAssumption
  <2>4. MaxSends * (1 + failures) = Allowance + MaxSends
    <3>1. MaxSends * (failures + 1) = MaxSends * failures + MaxSends
      BY <2>3, Times
    <3>2. 1 + failures = failures + 1
      BY <2>3
    <3>. QED  BY <3>1, <3>2 DEF Allowance
  <2>5. Allowance \in Nat
    <3>1. \A m, n \in Nat : m * n \in Nat
      OBVIOUS
    <3>. QED  BY <2>3, <3>1, Zenon DEF Allowance
  <2>6. SentAfter(c, clock) \in Nat /\ counts[c].n \in Nat
    BY RegistrationAssumption, LimitTypes
  <2>. QED  BY <2>1, <2>2, <2>3, <2>4, <2>5, <2>6
<1>. QED
  BY <1>1, <1>2, LimitsStep, LimitStep, TouchedHolds, RegistrationTypeCorrect,
     RegistrationAssumption, PTL DEF Spec

=============================================================================
