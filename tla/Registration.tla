---------------------------- MODULE Registration ----------------------------
(***************************************************************************)
(* The register service: MessageHandler, RegisterService and               *)
(* VerificationCodeService.  Several instances of the service (processes,  *)
(* each with one Redis connection and one request at a time) share one     *)
(* Redis.  A step of an instance is the code between two Redis commands.   *)
(* Time is counted in units of CODE_EXPIRE_TIME.                           *)
(***************************************************************************)
EXTENDS Naturals, FiniteSets, Sequences

CONSTANTS
  Servers,      \* instances of the service
  Phones, Emails,
  Valid,        \* the phones and emails whose format is right
  Nothing,      \* the empty string
  Types,        \* request.type(): 1 is registration
  Codes,        \* six-digit codes that generateCode may return
  NoCode,
  UserIds,      \* numbers that createUser may return
  MaxSends,     \* MAX_SEND_COUNT_PER_DAY
  Day,          \* 86400 s, in units of CODE_EXPIRE_TIME
  Requests,     \* the requests that arrive
  Faults,       \* which of "crash", "lost" (a connection), "error" (an
                \* error reply) may happen
  MaxFaults, MaxClock, MaxRequests  \* bounds

Contacts == Phones \cup Emails \cup {Nothing}
Fields == {"username", "password", "confirm"}  \* of a registration that are right

NoRequest == [kind |-> "none"]
Request ==
  [kind : {"send"}, phone : Phones \cup {Nothing},
   email : Emails \cup {Nothing}, type : Types]
  \cup [kind : {"register"}, phone : Phones \cup {Nothing},
        email : Emails \cup {Nothing}, code : Codes, right : SUBSET Fields]
  \cup [kind : {"activate"}]

ASSUME RegistrationAssumption ==
  /\ IsFiniteSet(Servers)
  /\ Nothing \notin Phones \cup Emails
  /\ Phones \cap Emails = {} /\ Valid \subseteq Phones \cup Emails
  /\ 1 \in Types
  /\ Requests \subseteq Request
  /\ NoCode \notin Codes
  /\ MaxSends \in Nat \ {0} /\ Day \in Nat \ {0}
  /\ Faults \subseteq {"crash", "lost", "error"}
  /\ {MaxFaults, MaxClock, MaxRequests} \subseteq Nat

VARIABLES
  codes,    \* Redis: register:code:<contact>:<type> -> code and expiry
  counts,   \* Redis: register:frequency:<contact> -> number and expiry
  clock,
  pc,       \* per instance: the next Redis command of its request
  req,      \* per instance: the request it works on
  seen,     \* per instance: the count that sendCode has read
  draft,    \* per instance: the code that sendCode has generated, its expiry
  response, \* what the last step answered: to whom, the code
  conn,     \* per instance: its Redis connection is usable
  failures, handled,  \* bounded counters
  \* history: type-1 codes stored, accounts created, ids given out, the times
  \* of the sends to a contact answered with success, the last code a contact
  \* was promised, instances that touched the contact's keys
  saved, accounts, issued, sentAt, promised, handlers

redisVars == <<codes, counts>>
historyVars == <<saved, accounts, issued, sentAt, promised, handlers>>
vars == <<codes, counts, clock, pc, req, seen, draft, response, conn, failures,
          handled, saved, accounts, issued, sentAt, promised, handlers>>

Absent == [code |-> NoCode, until |-> 0]
Zero == [n |-> 0, until |-> 0]
Silence == [code |-> "none"]

Contact(r) == IF r.phone = Nothing THEN r.email ELSE r.phone

(* Seeded fault: the key of a code does not name the type. *)
CodeKeyWithoutType(r) == <<Contact(r), 1>>
(* getCacheKey; registerAccount verifies and deletes type 1. *)
CodeKey(r) == <<Contact(r), IF r.kind = "send" THEN r.type ELSE 1>>

Init ==
  /\ codes = [k \in Contacts \X Types |-> Absent]
  /\ counts = [c \in Contacts |-> Zero]
  /\ clock = 0
  /\ pc = [s \in Servers |-> "idle"]
  /\ req = [s \in Servers |-> NoRequest]
  /\ seen = [s \in Servers |-> 0]
  /\ draft = [s \in Servers |-> Absent]
  /\ response = Silence
  /\ conn = [s \in Servers |-> TRUE]
  /\ failures = 0 /\ handled = 0
  /\ saved = [c \in Contacts |-> 0]
  /\ accounts = [c \in Contacts |-> 0]
  /\ issued = [u \in UserIds |-> 0]
  /\ sentAt = [c \in Contacts |-> <<>>]
  /\ promised = [k \in Contacts \X Types |-> Absent]
  /\ handlers = [c \in Contacts |-> {}]

-----------------------------------------------------------------------------
(* RedisClient: a command is carried out, answered with an error, or its
   connection breaks before ("lost") or after ("unheard") it is carried out.
   A broken connection is not mended. *)
Outcomes(s) ==
  IF conn[s]
  THEN {o \in {"done", "error", "lost", "unheard"} :
          \/ o = "done"
          \/ /\ failures < MaxFaults
             /\ (IF o = "error" THEN "error" ELSE "lost") \in Faults}
  ELSE {"lost"}

Applied(o) == o \in {"done", "unheard"}

Command(s, o) ==
  /\ o \in Outcomes(s)
  /\ conn' = [conn EXCEPT ![s] = o \in {"done", "error"}]
  /\ failures' = IF conn[s] /\ o # "done" THEN failures + 1 ELSE failures

Become(s, next) == pc' = [pc EXCEPT ![s] = next]

EndRequest(s) ==
  /\ Become(s, "idle")
  /\ req' = [req EXCEPT ![s] = NoRequest]
  /\ seen' = [seen EXCEPT ![s] = 0]
  /\ draft' = [draft EXCEPT ![s] = Absent]

Respond(s, a) == EndRequest(s) /\ response' = [to |-> s, code |-> a]

(* What is found wrong with a request before Redis is used.  With a phone and an
   email, sendVerificationCode checks the phone against the format of an email. *)
SendRefusal(r) ==
  IF r.phone # Nothing /\ Contact(r) \notin Valid \cap Phones THEN "invalidPhone"
  ELSE IF r.email # Nothing /\ Contact(r) \notin Valid \cap Emails
       THEN "invalidEmail" ELSE "none"

(* registerAccount; the limits and the search for the username refuse nobody. *)
RegisterRefusal(r) ==
  IF "username" \notin r.right THEN "invalidUsername"
  ELSE IF {"password", "confirm"} \subseteq r.right THEN "none" ELSE "invalidPassword"

Refusal(r) ==
  CASE r.kind = "send" -> SendRefusal(r)
    [] r.kind = "register" -> RegisterRefusal(r)
    [] r.kind = "activate" -> "success"

(* handleMessage: a request arrives at an instance.  One that cannot be
   parsed, or is of no known type, gets no response and changes nothing. *)
Receive(s, r) ==
  /\ pc[s] = "idle"
  /\ IF Refusal(r) # "none"
     THEN Respond(s, Refusal(r)) /\ UNCHANGED <<handled, handlers>>
     ELSE /\ handled < MaxRequests /\ handled' = handled + 1
          /\ req' = [req EXCEPT ![s] = r]
          /\ Become(s, IF r.kind = "send" THEN "count" ELSE "verify")
          /\ response' = Silence
          /\ handlers' = [handlers EXCEPT ![Contact(r)] = @ \cup {s}]
          /\ UNCHANGED <<seen, draft>>
  /\ UNCHANGED <<redisVars, clock, conn, failures, saved, accounts, issued,
                 sentAt, promised>>

-----------------------------------------------------------------------------
(* Seeded fault: the count is compared after it is increased. *)
ReadCountOffByOne(s, o, k) ==
  LET n == IF o = "done" THEN counts[Contact(req[s])].n ELSE 0 IN
  /\ pc[s] = "count" /\ Command(s, o)
  /\ IF n > MaxSends
     THEN Respond(s, "tooManyRequests")
     ELSE /\ Become(s, "save")
          /\ seen' = [seen EXCEPT ![s] = n]
          /\ draft' = [draft EXCEPT ![s] = [code |-> k, until |-> 0]]
          /\ response' = Silence
          /\ UNCHANGED req
  /\ UNCHANGED <<redisVars, clock, handled, historyVars>>

(* sendCode: GET of the count, which a failure leaves at zero; generateCode. *)
ReadCount(s, o, k) ==
  LET n == IF o = "done" THEN counts[Contact(req[s])].n ELSE 0 IN
  /\ pc[s] = "count" /\ Command(s, o)
  /\ IF n >= MaxSends
     THEN Respond(s, "tooManyRequests")
     ELSE /\ Become(s, "save")
          /\ seen' = [seen EXCEPT ![s] = n]
          /\ draft' = [draft EXCEPT ![s] = [code |-> k, until |-> 0]]
          /\ response' = Silence
          /\ UNCHANGED req
  /\ UNCHANGED <<redisVars, clock, handled, historyVars>>

(* The expiry of a code that saveToCache stores now. *)
CodeExpiry == clock + 1

(* saveToCache: SETEX of the code. *)
SaveCode(s, o) ==
  LET r == req[s]
      fresh == [draft[s] EXCEPT !.until = CodeExpiry] IN
  /\ pc[s] = "save" /\ Command(s, o)
  /\ codes' = IF Applied(o) THEN [codes EXCEPT ![CodeKey(r)] = fresh] ELSE codes
  /\ promised' = IF Applied(o)
                 THEN [promised EXCEPT ![<<Contact(r), r.type>>] = Absent]
                 ELSE promised
  /\ saved' = IF Applied(o) /\ r.type = 1
              THEN [saved EXCEPT ![Contact(r)] = @ + 1] ELSE saved
  /\ IF o = "done"
     THEN /\ Become(s, "frequency")
          /\ draft' = [draft EXCEPT ![s] = fresh]
          /\ response' = Silence
          /\ UNCHANGED <<req, seen>>
     ELSE Respond(s, "internal")
  /\ UNCHANGED <<counts, clock, handled, accounts, issued, sentAt, handlers>>

(* The end of sendCode: SETEX of the count that was read, plus one, whose
   result is ignored. *)
CountSend(s, o) ==
  LET r == req[s] IN
  /\ pc[s] = "frequency" /\ Command(s, o)
  /\ counts' = IF Applied(o)
               THEN [counts EXCEPT ![Contact(r)] =
                       [n |-> seen[s] + 1, until |-> clock + Day]]
               ELSE counts
  /\ sentAt' = [sentAt EXCEPT ![Contact(r)] = Append(@, clock)]
  /\ promised' = IF draft[s].until > clock
                 THEN [promised EXCEPT ![<<Contact(r), r.type>>] = draft[s]]
                 ELSE promised
  /\ Respond(s, "success")
  /\ UNCHANGED <<codes, clock, handled, saved, accounts, issued, handlers>>

-----------------------------------------------------------------------------
(* verifyCode.  Its own test of the expiry compares with the present. *)
Verify(s, o) ==
  LET r == req[s] IN
  /\ pc[s] = "verify" /\ Command(s, o)
  /\ IF o = "done" /\ codes[CodeKey(r)].code = r.code
     THEN /\ Become(s, "delete") /\ response' = Silence
          /\ UNCHANGED <<req, seen, draft>>
     ELSE Respond(s, "invalidCode")
  /\ UNCHANGED <<redisVars, clock, handled, historyVars>>

(* Seeded fault: the code is left in Redis. *)
FinishKeepingCode(s, o, u) ==
  /\ pc[s] = "delete" /\ Command(s, o)
  /\ accounts' = [accounts EXCEPT ![Contact(req[s])] = @ + 1]
  /\ issued' = [issued EXCEPT ![u] = @ + 1]
  /\ Respond(s, "success")
  /\ UNCHANGED <<redisVars, clock, handled, saved, sentAt, promised, handlers>>

(* The rest of registerAccount: createUser, deleteCode, whose result is
   ignored, the reward and the response. *)
Finish(s, o, u) ==
  LET key == CodeKey(req[s]) IN
  /\ pc[s] = "delete" /\ Command(s, o)
  /\ codes' = IF Applied(o) THEN [codes EXCEPT ![key] = Absent] ELSE codes
  /\ promised' = IF Applied(o) THEN [promised EXCEPT ![key] = Absent] ELSE promised
  /\ accounts' = [accounts EXCEPT ![Contact(req[s])] = @ + 1]
  /\ issued' = [issued EXCEPT ![u] = @ + 1]
  /\ Respond(s, "success")
  /\ UNCHANGED <<counts, clock, handled, saved, sentAt, handlers>>

-----------------------------------------------------------------------------
(* An instance dies and is started again: initialize() connects anew. *)
Crash(s) ==
  /\ "crash" \in Faults /\ failures < MaxFaults
  /\ failures' = failures + 1
  /\ EndRequest(s) /\ response' = Silence
  /\ conn' = [conn EXCEPT ![s] = TRUE]
  /\ UNCHANGED <<redisVars, clock, handled, historyVars>>

(* Time passes, and Redis drops what has expired. *)
Tick ==
  /\ clock < MaxClock
  /\ clock' = clock + 1
  /\ codes' = [k \in DOMAIN codes |->
                 IF codes[k].until > clock' THEN codes[k] ELSE Absent]
  /\ counts' = [c \in DOMAIN counts |->
                  IF counts[c].until > clock' THEN counts[c] ELSE Zero]
  /\ promised' = [k \in DOMAIN promised |->
                    IF promised[k].until > clock' THEN promised[k] ELSE Absent]
  /\ UNCHANGED <<pc, req, seen, draft, response, conn, failures, handled, saved,
                 accounts, issued, sentAt, handlers>>

Next ==
  \/ \E s \in Servers, r \in Requests : Receive(s, r)
  \/ \E s \in Servers, o \in {"done", "error", "lost", "unheard"} :
       \/ \E k \in Codes : ReadCount(s, o, k)
       \/ SaveCode(s, o)
       \/ CountSend(s, o)
       \/ Verify(s, o)
       \/ \E u \in UserIds : Finish(s, o, u)
  \/ \E s \in Servers : Crash(s)
  \/ Tick

Spec == Init /\ [][Next]_vars

-----------------------------------------------------------------------------
Stored == [code : Codes \cup {NoCode}, until : Nat]

(* Types, and no code or count in Redis that has expired. *)
TypeOK ==
  /\ codes \in [Contacts \X Types -> Stored]
  /\ \A k \in DOMAIN codes : codes[k] # Absent => codes[k].until > clock
  /\ counts \in [Contacts -> [n : Nat, until : Nat]]
  /\ clock \in 0..MaxClock
  /\ pc \in [Servers -> {"idle", "count", "save", "frequency", "verify", "delete"}]
  /\ req \in [Servers -> Requests \cup {NoRequest}]
  /\ \A s \in Servers :
       /\ pc[s] \in {"count", "save", "frequency"} => req[s].kind = "send"
       /\ pc[s] \in {"verify", "delete"} => req[s].kind = "register"
  /\ seen \in [Servers -> Nat]
  /\ draft \in [Servers -> Stored]
  /\ response \in {Silence} \cup
       [to : Servers,
        code : {"success", "invalidPhone", "invalidEmail", "invalidUsername",
                "invalidPassword", "tooManyRequests", "internal", "invalidCode"}]
  /\ conn \in [Servers -> BOOLEAN]
  /\ failures \in Nat /\ handled \in Nat
  /\ saved \in [Contacts -> Nat] /\ accounts \in [Contacts -> Nat]
  /\ issued \in [UserIds -> Nat]
  /\ sentAt \in [Contacts -> Seq(0..MaxClock)]
  /\ promised \in [Contacts \X Types -> Stored]
  /\ handlers \in [Contacts -> SUBSET Servers]

(* A stored code makes at most one account per instance of the service, and as
   many again for every failure: a second use needs a second instance between
   its own verification (line 168) and the deletion (line 183), or a deletion
   that did not happen. *)
AccountsPerCode ==
  \A c \in Contacts :
    accounts[c] <= Cardinality(Servers) * (saved[c] + failures)

(* The same, with types and expiries as they should be. *)
OneAccountPerCode == TypeOK /\ AccountsPerCode

SentInDay(c) == Cardinality({i \in DOMAIN sentAt[c] : sentAt[c][i] + Day > clock})

Sticky(c) == Cardinality(handlers[c]) <= 1

(* A contact whose requests all go to one instance is sent at most MaxSends
   codes in any day, and as many again for every failure. *)
DailyLimit ==
  \A c \in Contacts : Sticky(c) =>
    SentInDay(c) <= MaxSends * (1 + failures)

(* Such a contact can use the code it was promised last until it expires,
   whatever else is sent to it. *)
PromisedCodeIsGood ==
  \A k \in Contacts \X Types :
    Sticky(k[1]) /\ promised[k] # Absent => codes[k] = promised[k]

-----------------------------------------------------------------------------
(* What the design document and the header say, and the code does not do. *)

(* A code is deleted when it has been used: it makes one account. *)
CodeUsedOnce == \A c \in Contacts : accounts[c] <= saved[c]

(* Nobody is refused who was not sent MaxSends codes in the last day. *)
RefusalIsEarned ==
  [][\A s \in Servers :
       pc[s] = "count" /\ response' = [to |-> s, code |-> "tooManyRequests"]
         => SentInDay(Contact(req[s])) >= MaxSends]_vars

(* createUser makes a unique id. *)
UserIdsDiffer == \A u \in UserIds : issued[u] <= 1
=============================================================================
