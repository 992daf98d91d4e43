----------------------------- MODULE Tools_proofs -----------------------------
(***************************************************************************)
(* Proofs about what the tools of a turn go through.  Permission asks      *)
(* (PermissionAsk), for any sessions, kinds, requests and clients: a       *)
(* request is closed once, by what its call ends with; a grant answers one *)
(* request; a session that always asks is answered for each request; and a *)
(* rejection stays in its session.  Tool servers (McpConnection), for any  *)
(* fibers, calls and connections and either transport: the lock admits one *)
(* builder at a time, what facts() shows of a server is true, and no child *)
(* is orphaned, unless an interrupt may cut a spawn.                       *)
(***************************************************************************)
EXTENDS PermissionAsk, FiniteSetTheorems, SequenceTheorems, TLAPS

\* A tool server has a lock, fibers and calls of its own.
CONSTANTS Ops, Calls, Wires, NoWire, NoOp, Remote, Credentialed, CutSpawns
VARIABLES enabled, connectLock, conns, health, routed, wires, manager, toolCall

Mcp == INSTANCE McpConnection WITH lock <- connectLock, op <- manager, call <- toolCall

------------------------------------------------------------------------------
(* Permission asks: the inductive invariant.                               *)

\* What a client may ask for, and the records of the state.
Op == Reply \cup {"session", "location"}
Locked == {"decide", "scan", "settle"}
Busy == [at : {"want", "told"} \cup Locked, op : Op, req : Request, items : Seq(Request)]
Grant == [by : Request, session : SUBSET Session, live : BOOLEAN]
Settled == Reply \cup {"expired"}
Outs == {"none", "denied", "allowed", "unanswerable", "died", "rejected", "expired",
         "interrupted"}

\* A call before its request is in the map, and one that has not ended.
Early == {"idle", "consult", "responder", "create"}
Parked == {"announce", "parked", "expire"}

Typed ==
  /\ policy \in [Session -> Policy] /\ saved \subseteq Kind /\ grants \subseteq Grant
  /\ pc \in [Request -> At] /\ out \in [Request -> Outs]
  /\ pending \subseteq Request /\ IsFiniteSet(pending)
  /\ deferred \in [Request -> Settled \cup {"none", "open"}]
  /\ lock \in Client \cup {"free"}
  /\ client \in [Client -> {Idle} \cup Busy]
  /\ asked \subseteq Request /\ told \in [Request -> Seq(Reply)]
  /\ answered \subseteq Request \X {"yes", "no"}

\* The requests client c has under the lock, and those whose answer it announces.
Held(c) == CASE client[c].at \in {"decide", "scan"} -> {client[c].req}
             [] client[c].at = "settle" -> SetOf(client[c].items)
             [] OTHER -> {}
Telling(c) == IF client[c].at = "told" THEN SetOf(client[c].items) ELSE {}

Distinct(s) == \A i, j \in DOMAIN s : s[i] = s[j] => i = j

\* Whoever works under the lock has it.
LockIsHeld == \A c \in Client : lock = c <=> client[c].at \in Locked

\* What a request went through and how it was settled agree.
RequestOk(r) ==
  /\ r \in pending => deferred[r] = "open" /\ told[r] = <<>> /\ pc[r] \in Parked \cup {"leave"}
  /\ pc[r] \in Early => deferred[r] = "none" /\ told[r] = <<>>
  /\ pc[r] \in Early \cup Parked => out[r] = "none"
  /\ pc[r] \in Parked => deferred[r] \in {"open"} \cup Reply
  /\ pc[r] = "leave" => deferred[r] \notin {"none"} /\ (deferred[r] = "open" => out[r] = "interrupted")
  /\ pc[r] = "tell" => /\ deferred[r] \in {"open", "expired"}
                       /\ out[r] \in {"interrupted", "expired"} /\ told[r] = <<>>
  /\ out[r] = "allowed" => deferred[r] \in {"none", "once", "always"}
  /\ out[r] = "rejected" => deferred[r] = "reject"
  /\ out[r] = "expired" => deferred[r] = "expired"

\* One announcement.
Just(a) == <<a>>

\* What was announced of a request is its withdrawal, or how it was settled.
ToldOk(r) ==
  \/ told[r] = <<>>
  \/ told[r] = Just("reject") /\ pc[r] = "done" /\ out[r] \in {"interrupted", "expired"}
  \/ deferred[r] \in Reply /\ told[r] = Just(deferred[r])

\* What a client has under the lock is open still; its announcement can be withdrawn
\* by a failure meanwhile.  What it announces is settled as it says.
ClientOk(c) ==
  /\ \A r \in Held(c) : /\ deferred[r] = "open" /\ told[r] = <<>>
                        /\ r \in pending \/ (pc[r] = "done" /\ out[r] = "died")
  /\ \A r \in Telling(c) : deferred[r] = Answer(c) /\ told[r] = <<>>
  /\ client[c].at \in {"settle", "told"} =>
       Distinct(client[c].items) /\ client[c].items # <<>>

\* What the client's decision rests on.
DecisionOk(c) ==
  /\ client[c].at = "scan" => client[c].op = "always"
  /\ client[c].at \in {"scan", "settle"} => <<client[c].req, "yes">> \in answered
  /\ client[c].at = "settle" =>
       /\ client[c].op \in {"always", "session", "location"}
       /\ client[c].req \in SetOf(client[c].items)
       /\ \A x \in SetOf(client[c].items) \ {client[c].req} : policy[SessionOf[x]] = "open"

TellersApart == \A c, d \in Client : c # d => Telling(c) \cap Telling(d) = {}

\* How a request was settled has its reason in what clients decided.
SettledFor ==
  \A r \in Request :
    /\ deferred[r] \in {"once", "always"} /\ policy[SessionOf[r]] = "gated" =>
         <<r, "yes">> \in answered
    /\ deferred[r] = "reject" =>
         \E x \in Request : <<x, "no">> \in answered /\ SessionOf[x] = SessionOf[r]

\* A grant's request was settled by it, or is about to be.
GrantsOwned ==
  \A g \in grants :
    /\ \A h \in grants : h.by = g.by => h = g
    /\ \/ deferred[g.by] = "once"
       \/ \E c \in Client : /\ client[c].at = "settle" /\ g.by = client[c].req
                            /\ client[c].op \in {"session", "location"}

\* A call of a session that always asks was allowed for itself.
OwnAnswerFor(r) ==
  out[r] = "allowed" /\ policy[SessionOf[r]] = "gated" =>
    \/ <<r, "yes">> \in answered
    \/ \E g \in grants : KindOf[g.by] = KindOf[r] /\ SessionOf[r] \in g.session

IInv ==
  /\ Typed
  /\ LockIsHeld
  /\ \A r \in Request : RequestOk(r) /\ ToldOk(r)
  /\ \A c \in Client : ClientOk(c) /\ DecisionOk(c)
  /\ TellersApart
  /\ SettledFor
  /\ GrantsOwned
  /\ \A r \in Request : OwnAnswerFor(r)

------------------------------------------------------------------------------
(* Sequences of requests.                                                  *)

LEMMA OneItem ==
  ASSUME NEW r \in Request
  PROVE  <<r>> \in Seq(Request) /\ SetOf(<<r>>) = {r} /\ Distinct(<<r>>) /\ <<r>> # <<>>
  BY DEF SetOf, Distinct

LEMMA JustOne ==
  ASSUME NEW a \in Reply
  PROVE  /\ Just(a) \in Seq(Reply) /\ Just(a) # <<>> /\ Len(Just(a)) = 1
         /\ Append(<<>>, a) = Just(a) /\ Just(a)[1] = a
  BY DEF Just

\* A request and, behind it, those of S in some order.
LEMMA OrderedItems ==
  ASSUME NEW r \in Request, NEW S \in SUBSET Request, IsFiniteSet(S), r \notin S,
         NEW others \in Orders(S)
  PROVE  LET items == <<r>> \o others IN
         /\ items \in Seq(Request) /\ items # <<>> /\ Distinct(items)
         /\ r \in SetOf(items) /\ SetOf(items) \subseteq {r} \cup S
  <1> DEFINE items == <<r>> \o others
  <1>1. Cardinality(S) \in Nat
    BY FS_CardinalityType
  <1>2. others \in [1..Cardinality(S) -> S] /\ others \in Seq(Request)
        /\ \A i, j \in DOMAIN others : others[i] = others[j] => i = j
    BY <1>1 DEF Orders
  <1>3. Len(others) = Cardinality(S)
    BY <1>1, <1>2
  <1>4. /\ items \in Seq(Request) /\ Len(items) = Cardinality(S) + 1
        /\ items[1] = r
        /\ \A i \in 2..(Cardinality(S) + 1) : items[i] = others[i - 1]
    BY <1>1, <1>2, <1>3
  <1>5. DOMAIN items = 1..(Cardinality(S) + 1)
    BY <1>1, <1>4
  <1>6. \A i \in 2..(Cardinality(S) + 1) : i - 1 \in 1..Cardinality(S) /\ items[i] \in S
    BY <1>1, <1>2, <1>4
  <1>7. Distinct(items)
    <2> SUFFICES ASSUME NEW i \in DOMAIN items, NEW j \in DOMAIN items, items[i] = items[j]
                 PROVE  i = j
      BY DEF Distinct
    <2>1. CASE i = 1 \/ j = 1
      BY <1>1, <1>4, <1>5, <1>6, <2>1
    <2>2. CASE i # 1 /\ j # 1
      <3>1. i \in 2..(Cardinality(S) + 1) /\ j \in 2..(Cardinality(S) + 1)
        BY <1>1, <1>5, <2>2
      <3>2. others[i - 1] = others[j - 1] /\ i - 1 \in DOMAIN others /\ j - 1 \in DOMAIN others
        BY <1>2, <1>4, <1>6, <3>1
      <3>3. i - 1 = j - 1
        BY <1>2, <3>2
      <3> QED
        BY <1>1, <3>1, <3>3
    <2> QED
      BY <2>1, <2>2
  <1>8. 1 \in DOMAIN items
    BY <1>1, <1>5
  <1>9. r \in SetOf(items)
    BY <1>4, <1>8 DEF SetOf
  <1>10. SetOf(items) \subseteq {r} \cup S
    BY <1>1, <1>4, <1>5, <1>6 DEF SetOf
  <1> QED
    BY <1>4, <1>5, <1>7, <1>8, <1>9, <1>10

LEMMA TailItems ==
  ASSUME NEW s \in Seq(Request), s # <<>>, Distinct(s)
  PROVE  /\ Head(s) \in SetOf(s) /\ SetOf(s) \subseteq Request
         /\ Tail(s) \in Seq(Request) /\ Distinct(Tail(s))
         /\ SetOf(Tail(s)) \subseteq SetOf(s) \ {Head(s)}
         /\ Len(s) # 1 => Tail(s) # <<>>
  <1>1. Len(s) \in Nat \ {0} /\ DOMAIN s = 1..Len(s) /\ Head(s) = s[1]
        /\ Tail(s) \in Seq(Request) /\ Len(Tail(s)) = Len(s) - 1
        /\ DOMAIN Tail(s) = 1..(Len(s) - 1)
        /\ \A i \in 1..(Len(s) - 1) : Tail(s)[i] = s[i + 1]
    OBVIOUS
  <1>2. \A i \in 1..(Len(s) - 1) : i + 1 \in DOMAIN s /\ i + 1 # 1 /\ 1 \in DOMAIN s
    BY <1>1
  <1>3. Distinct(Tail(s))
    <2> SUFFICES ASSUME NEW i \in 1..(Len(s) - 1), NEW j \in 1..(Len(s) - 1),
                        Tail(s)[i] = Tail(s)[j]
                 PROVE  i = j
      BY <1>1 DEF Distinct
    <2>1. i + 1 = j + 1
      BY <1>1, <1>2 DEF Distinct
    <2> QED
      BY <1>1, <2>1
  <1>4. SetOf(Tail(s)) \subseteq SetOf(s) \ {Head(s)}
    BY <1>1, <1>2 DEF SetOf, Distinct
  <1> QED
    BY <1>1, <1>3, <1>4 DEF SetOf

------------------------------------------------------------------------------
(* Steps of the calls.                                                     *)

LEMMA AnswerType ==
  ASSUME IInv, NEW c \in Client
  PROVE  Answer(c) \in Reply
  BY DEF Answer, Reply

\* A step that changes request r only, and no client, keeps the invariant if what it
\* leaves of r is sound, and what clients have in hand of r is left alone.
LEMMA CallStepInv ==
  ASSUME IInv, NEW r \in Request,
         UNCHANGED <<policy, saved, grants, lock, client, answered>>,
         asked' \subseteq Request,
         pc' \in [Request -> At], out' \in [Request -> Outs],
         deferred' \in [Request -> Settled \cup {"none", "open"}],
         told' \in [Request -> Seq(Reply)],
         pending' \subseteq pending \cup {r}, pending \subseteq pending' \cup {r},
         \A x \in Request \ {r} : /\ pc'[x] = pc[x] /\ out'[x] = out[x]
                                  /\ deferred'[x] = deferred[x] /\ told'[x] = told[x],
         RequestOk(r)', ToldOk(r)', OwnAnswerFor(r)',
         \A c \in Client : r \in Held(c) =>
           /\ deferred'[r] = deferred[r] /\ told'[r] = told[r]
           /\ r \in pending' \/ (pc'[r] = "done" /\ out'[r] = "died"),
         \A c \in Client : r \in Telling(c) => deferred'[r] = deferred[r] /\ told'[r] = told[r],
         deferred[r] \in Reply \/ deferred'[r] \in Reply => deferred'[r] = deferred[r]
  PROVE  IInv'
  <1>1. Typed'
    <2>1. IsFiniteSet(pending \cup {r})
      BY FS_AddElement DEF IInv, Typed
    <2>2. IsFiniteSet(pending')
      BY <2>1, FS_Subset
    <2> QED
      BY <2>2 DEF IInv, Typed
  <1>2. \A x \in Request : RequestOk(x)' /\ ToldOk(x)'
    <2> SUFFICES ASSUME NEW x \in Request, x # r PROVE RequestOk(x)' /\ ToldOk(x)'
      OBVIOUS
    <2>1. pc'[x] = pc[x] /\ out'[x] = out[x] /\ deferred'[x] = deferred[x] /\ told'[x] = told[x]
          /\ (x \in pending' <=> x \in pending)
      OBVIOUS
    <2>2. RequestOk(x) /\ ToldOk(x)
      BY DEF IInv
    <2> QED
      BY <2>1, <2>2 DEF RequestOk, ToldOk
  <1>3. \A c \in Client : Held(c)' = Held(c) /\ Telling(c)' = Telling(c) /\ Answer(c)' = Answer(c)
    BY DEF Held, Telling, Answer, SetOf
  <1>4. \A c \in Client : Held(c) \subseteq Request /\ Telling(c) \subseteq Request
    BY DEF IInv, Typed, Held, Telling, SetOf, Idle, Busy, Locked
  <1>5. \A c \in Client : ClientOk(c)'
    <2> SUFFICES ASSUME NEW c \in Client PROVE ClientOk(c)'
      OBVIOUS
    <2>1. ClientOk(c)
      BY DEF IInv
    <2>2. ASSUME NEW x \in Held(c)
          PROVE  deferred'[x] = "open" /\ told'[x] = <<>>
                 /\ (x \in pending' \/ (pc'[x] = "done" /\ out'[x] = "died"))
      <3>1. x \in Request /\ deferred[x] = "open" /\ told[x] = <<>>
            /\ (x \in pending \/ (pc[x] = "done" /\ out[x] = "died"))
        BY <1>4, <2>1, <2>2 DEF ClientOk
      <3>2. CASE x = r
        BY <2>2, <3>1, <3>2
      <3>3. CASE x # r
        BY <3>1, <3>3
      <3> QED
        BY <3>2, <3>3
    <2>3. ASSUME NEW x \in Telling(c) PROVE deferred'[x] = Answer(c) /\ told'[x] = <<>>
      BY <1>4, <2>1, <2>3 DEF ClientOk
    <2> QED
      BY <1>3, <2>1, <2>2, <2>3 DEF ClientOk
  <1>6. LockIsHeld' /\ TellersApart'
    <2>1. LockIsHeld'
      BY DEF IInv, LockIsHeld
    <2>2. TellersApart'
      BY <1>3 DEF IInv, TellersApart
    <2> QED
      BY <2>1, <2>2
  <1>9. \A c \in Client : DecisionOk(c)'
    <2> SUFFICES ASSUME NEW c \in Client PROVE DecisionOk(c)'
      OBVIOUS
    <2>1. client'[c] = client[c] /\ SetOf(client'[c].items) = SetOf(client[c].items)
      OBVIOUS
    <2> QED
      BY <2>1 DEF IInv, DecisionOk
  <1>10. \A x \in Request : deferred[x] \in Reply \/ deferred'[x] \in Reply => deferred'[x] = deferred[x]
    OBVIOUS
  <1>11. SettledFor'
    BY <1>10 DEF IInv, SettledFor, Reply
  <1>12. \A g \in grants : g.by \in Request
    BY DEF IInv, Typed, Grant
  <1>7. GrantsOwned'
    BY <1>10, <1>12 DEF IInv, GrantsOwned, Reply
  <1>8. \A x \in Request : OwnAnswerFor(x)'
    BY DEF IInv, OwnAnswerFor
  <1> QED
    BY <1>1, <1>2, <1>5, <1>6, <1>7, <1>8, <1>9, <1>11 DEF IInv

\* The call of r moves, and nothing else does.
LEMMA CallMovesInv ==
  ASSUME IInv, NEW r \in Request, NEW at \in At, NEW how \in Outs,
         pc' = [pc EXCEPT ![r] = at], out' = [out EXCEPT ![r] = how],
         UNCHANGED <<policy, saved, grants, lock, client, answered, deferred, told, pending>>,
         asked' \subseteq Request,
         pc[r] # "done",
         RequestOk(r)', OwnAnswerFor(r)', pc[r] # "tell"
  PROVE  IInv'
  <1>1. pc \in [Request -> At] /\ out \in [Request -> Outs]
    BY DEF IInv, Typed
  <1>2. pc' \in [Request -> At] /\ out' \in [Request -> Outs]
        /\ pc'[r] = at /\ out'[r] = how
        /\ \A x \in Request \ {r} : pc'[x] = pc[x] /\ out'[x] = out[x]
    BY <1>1
  <1>3. ToldOk(r)'
    BY DEF IInv, ToldOk
  <1>4. \A c \in Client : r \in Held(c) => r \in pending
    BY DEF IInv, ClientOk
  <1> QED
    BY <1>2, <1>3, <1>4, CallStepInv DEF IInv, Typed

\* Every step of a call keeps the invariant.
LEMMA CallInv ==
  ASSUME AskAssumption, IInv, NEW r \in Request,
         CallSteps(r) \/ LockSteps(r) \/ Interrupted(r)
  PROVE  IInv'
  <1> USE DEF Ends, Goes, call, durable, history
  <1>1. /\ pc \in [Request -> At] /\ out \in [Request -> Outs]
        /\ deferred \in [Request -> Settled \cup {"none", "open"}]
        /\ told \in [Request -> Seq(Reply)] /\ pending \subseteq Request
        /\ asked \subseteq Request /\ RequestOk(r) /\ ToldOk(r) /\ OwnAnswerFor(r)
    BY DEF IInv, Typed
  <1>2. ASSUME lock = "free", NEW c \in Client PROVE r \notin Held(c)
    BY <1>2 DEF AskAssumption, IInv, LockIsHeld, Held, Locked
  <1>3. \A c \in Client : r \in Telling(c) => deferred[r] \in Reply /\ told[r] = <<>>
    BY AnswerType DEF IInv, ClientOk
  <1>4. \A c \in Client : r \in Held(c) =>
          /\ deferred[r] = "open" /\ told[r] = <<>>
          /\ r \in pending \/ (pc[r] = "done" /\ out[r] = "died")
    BY DEF IInv, ClientOk
  <1>5. CASE Evaluate(r)
    <2>1. PICK at \in At, how \in Outs :
            /\ pc' = [pc EXCEPT ![r] = at] /\ out' = [out EXCEPT ![r] = how]
            /\ \/ at = "done" /\ how = "denied"
               \/ at = "done" /\ how = "allowed" /\ Effect(r) = "allow"
               \/ at = "consult" /\ how = "none"
      <3>1. out' = [out EXCEPT ![r] = "denied"] \/ out' = [out EXCEPT ![r] = "allowed"]
            \/ out' = [out EXCEPT ![r] = out[r]]
        BY <1>1, <1>5 DEF Evaluate
      <3>2. out[r] = "none"
        BY <1>1, <1>5 DEF Evaluate, RequestOk, Early
      <3> QED
        BY <1>1, <1>5, <3>1, <3>2 DEF Evaluate, At, Outs
    <2>2. pc'[r] = at /\ out'[r] = how
      BY <1>1, <2>1
    <2>3. RequestOk(r)'
      BY <1>1, <1>5, <2>1, <2>2 DEF RequestOk, Evaluate, Early, Parked
    <2>4. OwnAnswerFor(r)'
      BY <1>5, <2>1, <2>2 DEF OwnAnswerFor, Effect, Evaluate
    <2> QED
      BY <1>1, <1>5, <2>1, <2>3, <2>4, CallMovesInv DEF Evaluate
  <1>6. CASE Consult(r)
    <2>1. PICK at \in At, how \in Outs :
            /\ pc' = [pc EXCEPT ![r] = at] /\ out' = [out EXCEPT ![r] = how]
            /\ \/ at = "done" /\ how = "allowed" /\ Granted(r)
               \/ at = "responder" /\ how = "none"
      <3>1. out' = [out EXCEPT ![r] = "allowed"] \/ out' = [out EXCEPT ![r] = out[r]]
        BY <1>1, <1>6 DEF Consult
      <3>2. out[r] = "none"
        BY <1>1, <1>6 DEF Consult, RequestOk, Early
      <3> QED
        BY <1>1, <1>6, <3>1, <3>2 DEF Consult, At, Outs
    <2>2. pc'[r] = at /\ out'[r] = how
      BY <1>1, <2>1
    <2>3. RequestOk(r)'
      BY <1>1, <1>6, <2>1, <2>2 DEF RequestOk, Consult, Early, Parked
    <2>4. OwnAnswerFor(r)'
      BY <1>6, <2>1, <2>2 DEF OwnAnswerFor, Granted, Consult
    <2> QED
      BY <1>1, <1>6, <2>1, <2>3, <2>4, CallMovesInv DEF Consult
  <1>7. CASE requireResponder(r)
    <2>1. out[r] = "none" /\ deferred[r] = "none" /\ told[r] = <<>> /\ r \notin pending
      BY <1>1, <1>7 DEF requireResponder, RequestOk, Early
    <2>2. PICK at \in At, how \in Outs :
            /\ pc' = [pc EXCEPT ![r] = at] /\ out' = [out EXCEPT ![r] = how]
            /\ \/ at = "create" /\ how = "none"
               \/ at = "done" /\ how = "unanswerable"
      <3>1. out' = [out EXCEPT ![r] = "unanswerable"] \/ out' = [out EXCEPT ![r] = out[r]]
        BY <1>1, <1>7 DEF requireResponder
      <3> QED
        BY <1>1, <1>7, <2>1, <3>1 DEF requireResponder, At, Outs
    <2>3. pc'[r] = at /\ out'[r] = how
      BY <1>1, <2>2
    <2>4. RequestOk(r)' /\ OwnAnswerFor(r)'
      BY <1>1, <1>7, <2>1, <2>2, <2>3
      DEF RequestOk, OwnAnswerFor, requireResponder, Early, Parked
    <2> QED
      BY <1>1, <1>7, <2>2, <2>4, CallMovesInv DEF requireResponder
  <1>8. CASE Register(r)
    <2>1. out[r] = "none" /\ deferred[r] = "none" /\ told[r] = <<>>
      BY <1>1, <1>8 DEF Register, RequestOk, Early
    <2>2. /\ pc' \in [Request -> At] /\ deferred' \in [Request -> Settled \cup {"none", "open"}]
          /\ pc'[r] = "announce" /\ deferred'[r] = "open"
          /\ \A x \in Request \ {r} : pc'[x] = pc[x] /\ deferred'[x] = deferred[x]
      BY <1>1, <1>8 DEF Register, At
    <2>3. RequestOk(r)' /\ ToldOk(r)' /\ OwnAnswerFor(r)'
      BY <1>1, <1>8, <2>1, <2>2
      DEF RequestOk, ToldOk, OwnAnswerFor, Register, Early, Parked
    <2> QED
      BY <1>1, <1>3, <1>4, <1>8, <2>1, <2>2, <2>3, CallStepInv DEF Register, Reply
  <1>9. CASE Announce(r)
    <2>1. PICK at \in {"parked", "done"}, how \in {"none", "died"} :
            /\ pc' = [pc EXCEPT ![r] = at] /\ out' = [out EXCEPT ![r] = how]
            /\ \/ at = "parked" /\ how = "none" /\ pending' = pending
               \/ at = "done" /\ how = "died" /\ pending' = pending \ {r}
      <3>1. out' = [out EXCEPT ![r] = "died"] \/ out' = [out EXCEPT ![r] = out[r]]
        BY <1>1, <1>9 DEF Announce
      <3>2. out[r] = "none"
        BY <1>1, <1>9 DEF Announce, RequestOk, Parked
      <3> QED
        BY <1>1, <1>9, <3>1, <3>2 DEF Announce
    <2>2. /\ pc' \in [Request -> At] /\ out' \in [Request -> Outs]
          /\ pc'[r] = at /\ out'[r] = how
          /\ \A x \in Request \ {r} : pc'[x] = pc[x] /\ out'[x] = out[x]
      BY <1>1, <2>1 DEF At, Outs
    <2>3. RequestOk(r)' /\ OwnAnswerFor(r)'
      BY <1>1, <1>9, <2>1, <2>2
      DEF RequestOk, OwnAnswerFor, Announce, Early, Parked
    <2>4. ToldOk(r)'
      BY <1>1, <1>9, <2>2 DEF ToldOk, Announce
    <2>5. asked' \subseteq Request
      BY <1>1, <1>9 DEF Announce
    <2> QED
      BY <1>1, <1>3, <1>4, <1>9, <2>1, <2>2, <2>3, <2>4, <2>5, CallStepInv DEF Announce
  <1>10. CASE Answered(r)
    <2>1. deferred[r] \in Reply
      BY <1>1, <1>10 DEF Answered, RequestOk, Parked
    <2>2. /\ Outcome(deferred[r]) \in Outs
          /\ Outcome(deferred[r]) = "allowed" => deferred[r] \in {"once", "always"}
          /\ Outcome(deferred[r]) = "rejected" => deferred[r] = "reject"
          /\ Outcome(deferred[r]) # "expired"
      BY <2>1 DEF Outcome, Reply, Outs
    <2>3. pc'[r] = "leave" /\ out'[r] = Outcome(deferred[r])
      BY <1>1, <1>10 DEF Answered
    <2>4. RequestOk(r)'
      BY <1>1, <1>10, <2>1, <2>2, <2>3 DEF RequestOk, Answered, Early, Parked, Reply
    <2>5. OwnAnswerFor(r)'
      BY <1>10, <2>2, <2>3 DEF OwnAnswerFor, Answered, IInv, SettledFor
    <2> QED
      BY <1>1, <1>10, <2>2, <2>4, <2>5, CallMovesInv DEF Answered, At
  <1>11. CASE Interrupted(r)
    <2>1. pc'[r] = "leave" /\ out'[r] = "interrupted"
      BY <1>1, <1>11 DEF Interrupted
    <2>2. RequestOk(r)' /\ OwnAnswerFor(r)'
      BY <1>1, <1>11, <2>1 DEF RequestOk, OwnAnswerFor, Interrupted, Early, Parked, Reply
    <2> QED
      BY <1>1, <1>11, <2>2, CallMovesInv DEF Interrupted, At, Outs
  <1>12. CASE TimesOut(r)
    <2>1. pc'[r] = "expire" /\ out' = [out EXCEPT ![r] = out[r]]
      BY <1>1, <1>12 DEF TimesOut
    <2>2. RequestOk(r)' /\ OwnAnswerFor(r)'
      BY <1>1, <1>12, <2>1 DEF RequestOk, OwnAnswerFor, TimesOut, Early, Parked
    <2> QED
      BY <1>1, <1>12, <2>1, <2>2, CallMovesInv DEF TimesOut, At
  <1>13. CASE Expire(r)
    <2>1. CASE r \in pending
      <3>1. /\ pc' \in [Request -> At] /\ out' \in [Request -> Outs]
            /\ deferred' \in [Request -> Settled \cup {"none", "open"}]
            /\ pc'[r] = "tell" /\ out'[r] = "expired" /\ deferred'[r] = "expired"
            /\ \A x \in Request \ {r} : /\ pc'[x] = pc[x] /\ out'[x] = out[x]
                                        /\ deferred'[x] = deferred[x]
        BY <1>1, <1>13, <2>1 DEF Expire, At, Outs, Settled
      <3>2. deferred[r] = "open" /\ told[r] = <<>>
        BY <1>1, <2>1 DEF RequestOk
      <3>3. RequestOk(r)' /\ ToldOk(r)' /\ OwnAnswerFor(r)'
        BY <1>1, <1>13, <2>1, <3>1, <3>2
        DEF RequestOk, ToldOk, OwnAnswerFor, Expire, Early, Parked
      <3>4. \A c \in Client : r \notin Held(c) /\ r \notin Telling(c)
        BY <1>2, <1>3, <1>13, <3>2 DEF Expire, Reply
      <3> QED
        BY <1>1, <1>13, <2>1, <3>1, <3>2, <3>3, <3>4, CallStepInv DEF Expire, Reply
    <2>2. CASE r \notin pending
      <3>1. deferred[r] \in Reply
        BY <1>1, <1>13, <2>2 DEF Expire, RequestOk, Parked
      <3>2. /\ Outcome(deferred[r]) \in Outs
            /\ Outcome(deferred[r]) = "allowed" => deferred[r] \in {"once", "always"}
            /\ Outcome(deferred[r]) = "rejected" => deferred[r] = "reject"
            /\ Outcome(deferred[r]) # "expired"
        BY <3>1 DEF Outcome, Reply, Outs
      <3>3. pc'[r] = "leave" /\ out'[r] = Outcome(deferred[r])
        BY <1>1, <1>13, <2>2 DEF Expire
      <3>4. RequestOk(r)'
        BY <1>1, <1>13, <2>2, <3>1, <3>2, <3>3 DEF RequestOk, Expire, Early, Parked, Reply
      <3>5. OwnAnswerFor(r)'
        BY <1>13, <3>2, <3>3 DEF OwnAnswerFor, Expire, IInv, SettledFor
      <3> QED
        BY <1>1, <1>13, <2>2, <3>2, <3>4, <3>5, CallMovesInv DEF Expire, At
    <2> QED
      BY <2>1, <2>2
  <1>14. CASE Leave(r)
    <2>1. /\ pc' \in [Request -> At] /\ pc'[r] = (IF r \in pending THEN "tell" ELSE "done")
          /\ \A x \in Request \ {r} : pc'[x] = pc[x]
          /\ pending' = pending \ {r}
      BY <1>1, <1>14 DEF Leave, At
    <2>2. r \in pending => deferred[r] = "open" /\ told[r] = <<>> /\ out[r] = "interrupted"
      BY <1>1, <1>14 DEF Leave, RequestOk
    <2>3. RequestOk(r)' /\ OwnAnswerFor(r)'
      BY <1>1, <1>14, <2>1, <2>2 DEF RequestOk, OwnAnswerFor, Leave, Early, Parked
    <2>4. ToldOk(r)'
      BY <1>1, <1>14 DEF ToldOk, Leave
    <2>5. \A c \in Client : r \notin Held(c)
      BY <1>2, <1>14 DEF Leave
    <2> QED
      BY <1>1, <1>14, <2>1, <2>3, <2>4, <2>5, CallStepInv DEF Leave
  <1>15. CASE Tell(r)
    <2>1. deferred[r] \in {"open", "expired"} /\ out[r] \in {"interrupted", "expired"}
          /\ told[r] = <<>> /\ r \notin pending
      BY <1>1, <1>15 DEF Tell, RequestOk, Parked
    <2>2. \A c \in Client : r \notin Held(c) /\ r \notin Telling(c)
      BY <1>3, <1>4, <1>15, <2>1 DEF Tell, Reply
    <2>3. CASE Goes(r, "done") /\ told' = [told EXCEPT ![r] = Append(@, "reject")]
      <3>1. Append(told[r], "reject") = Just("reject") /\ Just("reject") \in Seq(Reply)
        BY <2>1, JustOne DEF Reply
      <3>2. told' = [told EXCEPT ![r] = Just("reject")]
        BY <2>3, <3>1
      <3>3. /\ pc' \in [Request -> At] /\ told' \in [Request -> Seq(Reply)] /\ UNCHANGED out
            /\ pc'[r] = "done" /\ told'[r] = Just("reject")
            /\ \A x \in Request \ {r} : pc'[x] = pc[x] /\ told'[x] = told[x]
        BY <1>1, <2>3, <3>1, <3>2 DEF Goes, At
      <3>4. RequestOk(r)' /\ ToldOk(r)' /\ OwnAnswerFor(r)'
        BY <1>1, <1>15, <2>1, <3>3
        DEF RequestOk, ToldOk, OwnAnswerFor, Tell, Early, Parked
      <3> QED
        BY <1>1, <1>15, <2>2, <3>3, <3>4, CallStepInv DEF Tell
    <2>4. CASE Ends(r, "died") /\ UNCHANGED told
      <3>1. /\ pc' \in [Request -> At] /\ out' \in [Request -> Outs]
            /\ pc'[r] = "done" /\ out'[r] = "died"
            /\ \A x \in Request \ {r} : pc'[x] = pc[x] /\ out'[x] = out[x]
        BY <1>1, <2>4 DEF Ends, At, Outs
      <3>2. RequestOk(r)' /\ ToldOk(r)' /\ OwnAnswerFor(r)'
        BY <1>1, <1>15, <2>1, <2>4, <3>1
        DEF RequestOk, ToldOk, OwnAnswerFor, Tell, Early, Parked
      <3> QED
        BY <1>1, <1>15, <2>2, <2>4, <3>1, <3>2, CallStepInv DEF Tell
    <2> QED
      BY <1>15, <2>3, <2>4 DEF Tell
  <1> QED
    BY <1>5, <1>6, <1>7, <1>8, <1>9, <1>10, <1>11, <1>12, <1>13, <1>14, <1>15
    DEF CallSteps, LockSteps
------------------------------------------------------------------------------
(* Steps of the clients.                                                   *)

LEMMA BusyClient ==
  ASSUME IInv, NEW c \in Client, client[c] # Idle
  PROVE  client[c] \in Busy
  BY DEF IInv, Typed

LEMMA WantIsBusy ==
  ASSUME NEW op \in Op, NEW r \in Request
  PROVE  [Idle EXCEPT !.at = "want", !.op = op, !.req = r] \in Busy
  <1> DEFINE T == [at : {"idle", "want"}, op : Op \cup {"none"}, req : Request \cup {"none"},
                   items : Seq(Request)]
             rec == [Idle EXCEPT !.at = "want", !.op = op, !.req = r]
  <1>1. Idle \in T
    BY EmptySeq DEF Idle
  <1>2. rec \in T
    BY <1>1
  <1>3. rec.at = "want" /\ rec.op = op /\ rec.req = r
    BY <1>1
  <1> HIDE DEF rec
  <1>4. rec = [at |-> "want", op |-> op, req |-> r, items |-> rec.items]
        /\ rec.items \in Seq(Request)
    BY <1>2, <1>3
  <1>5. [at |-> "want", op |-> op, req |-> r, items |-> rec.items] \in Busy
    BY <1>4 DEF Busy
  <1> HIDE DEF T
  <1> QED
    BY <1>4, <1>5 DEF rec

\* A client that moves on keeps its fields.
LEMMA BusyMoves ==
  ASSUME NEW rec \in Busy, NEW at \in {"want", "told"} \cup Locked, NEW items \in Seq(Request)
  PROVE  /\ [rec EXCEPT !.at = at] \in Busy /\ [rec EXCEPT !.at = at, !.items = items] \in Busy
         /\ [rec EXCEPT !.items = items] \in Busy
  BY DEF Busy

\* A client that moves on, and may have decided, keeps the invariant if what it has
\* in hand now is sound; it settles nothing yet and announces nothing new.
LEMMA ClientMovesInv ==
  ASSUME AskAssumption, IInv, NEW c \in Client, NEW rec \in {Idle} \cup Busy,
         client' = [client EXCEPT ![c] = rec],
         UNCHANGED <<policy, pc, out, pending, deferred, told, asked>>,
         saved' \subseteq Kind, grants' \subseteq Grant, lock' \in Client \cup {"free"},
         grants \subseteq grants', answered \subseteq answered',
         answered' \subseteq Request \X {"yes", "no"},
         \/ lock' = lock /\ (client[c].at \in Locked <=> rec.at \in Locked)
         \/ lock = c /\ lock' = "free" /\ rec.at \notin Locked
         \/ lock = "free" /\ lock' = c /\ rec.at \in Locked,
         ClientOk(c)', DecisionOk(c)', GrantsOwned',
         Telling(c)' \subseteq Telling(c)
  PROVE  IInv'
  <1>1. client \in [Client -> {Idle} \cup Busy] /\ client'[c] = rec
        /\ \A d \in Client \ {c} : client'[d] = client[d]
    BY DEF IInv, Typed
  <1>2. Typed'
    BY DEF IInv, Typed
  <1>3. LockIsHeld'
    BY <1>1 DEF AskAssumption, IInv, LockIsHeld
  <1>4. \A r \in Request : RequestOk(r)' /\ ToldOk(r)'
    BY DEF IInv, RequestOk, ToldOk
  <1>5. \A d \in Client \ {c} : /\ Held(d)' = Held(d) /\ Telling(d)' = Telling(d)
                                /\ Answer(d)' = Answer(d)
    BY <1>1 DEF Held, Telling, Answer, SetOf
  <1>6. \A d \in Client : ClientOk(d)'
    BY <1>1, <1>5 DEF IInv, ClientOk
  <1>7. \A d \in Client : DecisionOk(d)'
    <2> SUFFICES ASSUME NEW d \in Client \ {c} PROVE DecisionOk(d)'
      OBVIOUS
    <2>1. client'[d] = client[d] /\ SetOf(client'[d].items) = SetOf(client[d].items)
      BY <1>1
    <2> QED
      BY <2>1 DEF IInv, DecisionOk
  <1>8. TellersApart'
    BY <1>5 DEF IInv, TellersApart
  <1>9. SettledFor'
    BY DEF IInv, SettledFor
  <1>10. \A r \in Request : OwnAnswerFor(r)'
    BY DEF IInv, OwnAnswerFor
  <1> QED
    BY <1>2, <1>3, <1>4, <1>6, <1>7, <1>8, <1>9, <1>10 DEF IInv

\* Nothing of a grant's ownership changes when no grant is issued and the client
\* that moves is not one that settles.
LEMMA GrantsKept ==
  ASSUME IInv, NEW c \in Client, NEW rec, client' = [client EXCEPT ![c] = rec],
         UNCHANGED <<grants, deferred>>, client[c].at # "settle"
  PROVE  GrantsOwned'
  <1>1. client \in [Client -> {Idle} \cup Busy]
    BY DEF IInv, Typed
  <1>2. \A d \in Client \ {c} : client'[d] = client[d]
    BY <1>1
  <1> SUFFICES ASSUME NEW g \in grants
               PROVE  /\ \A h \in grants : h.by = g.by => h = g
                      /\ \/ deferred[g.by] = "once"
                         \/ \E d \in Client : /\ client'[d].at = "settle"
                                              /\ g.by = client'[d].req
                                              /\ client'[d].op \in {"session", "location"}
    BY DEF GrantsOwned
  <1> QED
    BY <1>2 DEF IInv, GrantsOwned

\* The lock keeps the clients that settle apart.
LEMMA OneHolder ==
  ASSUME AskAssumption, IInv, NEW c \in Client, client[c].at \in Locked,
         NEW d \in Client, client[d].at \in Locked
  PROVE  d = c
  BY DEF IInv, LockIsHeld

\* Waiting for the lock, getting it, and giving up.
LEMMA WaitsInv ==
  ASSUME AskAssumption, IInv, NEW c \in Client, Send(c) \/ Enter(c) \/ GoesAway(c)
  PROVE  IInv'
  <1> USE DEF Doing, durable, call, history
  <1>1. UNCHANGED <<policy, saved, grants, pc, out, pending, deferred, asked, told, answered>>
        /\ client[c].at \in {"idle", "want"}
    <2>1. UNCHANGED <<policy, saved, grants, pc, out, pending, deferred, asked, told, answered>>
      BY DEF Send, Enter, GoesAway
    <2>2. client[c] = Idle \/ client[c].at = "want"
      BY DEF Send, Enter, GoesAway
    <2> QED
      BY <2>1, <2>2 DEF Idle
  <1>2. /\ saved \subseteq Kind /\ grants \subseteq Grant /\ lock \in Client \cup {"free"}
        /\ answered \subseteq Request \X {"yes", "no"} /\ pending \subseteq Request
        /\ client \in [Client -> {Idle} \cup Busy]
        /\ \A r \in pending : deferred[r] = "open" /\ told[r] = <<>>
    BY DEF IInv, Typed, RequestOk
  <1>3. PICK rec \in {Idle} \cup Busy :
          /\ client' = [client EXCEPT ![c] = rec]
          /\ \/ rec.at \in {"idle", "want"} /\ lock' = lock
             \/ rec.at = "decide" /\ rec.req \in pending /\ lock = "free" /\ lock' = c
    <2>1. CASE Send(c)
      <3>1. PICK r \in pending, op \in Op :
              client' = [client EXCEPT ![c] = [Idle EXCEPT !.at = "want", !.op = op, !.req = r]]
        BY <2>1 DEF Send, Op
      <3>2. [Idle EXCEPT !.at = "want", !.op = op, !.req = r] \in Busy
        BY <1>2, <3>1, WantIsBusy
      <3>3. [Idle EXCEPT !.at = "want", !.op = op, !.req = r].at = "want"
        BY DEF Idle
      <3> QED
        BY <2>1, <3>1, <3>2, <3>3 DEF Send
    <2>2. CASE Enter(c) /\ client[c].req \in pending
      <3>1. client[c] \in Busy
        BY <2>2, BusyClient DEF Enter, Idle
      <3>2. [client[c] EXCEPT !.at = "decide"] \in Busy
            /\ [client[c] EXCEPT !.at = "decide"].at = "decide"
            /\ [client[c] EXCEPT !.at = "decide"].req = client[c].req
        BY <3>1 DEF Busy, Locked
      <3> QED
        BY <2>2, <3>2 DEF Enter
    <2>3. CASE GoesAway(c) \/ (Enter(c) /\ client[c].req \notin pending)
      BY <2>3 DEF Enter, GoesAway, Idle
    <2> QED
      BY <2>1, <2>2, <2>3
  <1>4. client'[c] = rec
    BY <1>2, <1>3
  <1>5. GrantsOwned'
    BY <1>1, <1>3, GrantsKept
  <1>6. Telling(c)' = {} /\ Held(c)' \subseteq pending
    BY <1>3, <1>4 DEF Telling, Held
  <1>7. ClientOk(c)' /\ DecisionOk(c)'
    BY <1>1, <1>2, <1>3, <1>4, <1>6 DEF ClientOk, DecisionOk
  <1> QED
    BY <1>1, <1>2, <1>3, <1>5, <1>6, <1>7, ClientMovesInv DEF Locked

\* Answers and grants before they settle: a write that fails, an approval that is
\* saved, the scan for what it allows, a grant that is issued.
LEMMA DecidingInv ==
  ASSUME AskAssumption, IInv, NEW c \in Client,
         replyAlwaysSaves(c) \/ replyAlwaysScans(c) \/ grantIssues(c)
  PROVE  IInv'
  <1> USE DEF Doing, durable, call, history
  <1> DEFINE r == client[c].req
  <1>1. /\ saved \subseteq Kind /\ grants \subseteq Grant /\ lock \in Client \cup {"free"}
        /\ answered \subseteq Request \X {"yes", "no"} /\ pending \subseteq Request
        /\ client \in [Client -> {Idle} \cup Busy] /\ IsFiniteSet(pending)
        /\ \A x \in pending : deferred[x] = "open" /\ told[x] = <<>>
    BY DEF IInv, Typed, RequestOk
  <1>2. client[c].at \in {"decide", "scan"}
    BY DEF replyAlwaysSaves, replyAlwaysScans, grantIssues
  <1>3. client[c] \in Busy /\ lock = c /\ r \in Request
    BY <1>1, <1>2 DEF IInv, LockIsHeld, Idle, Busy, Locked
  <1>4. deferred[r] = "open" /\ told[r] = <<>>
        /\ (r \in pending \/ (pc[r] = "done" /\ out[r] = "died"))
    BY <1>2 DEF IInv, ClientOk, Held
  <1>5. UNCHANGED <<policy, pc, out, pending, deferred, told, asked>>
    BY DEF replyAlwaysSaves, replyAlwaysScans, grantIssues
  <1>6. CASE client' = [client EXCEPT ![c] = Idle] /\ lock' = "free"
             /\ UNCHANGED <<saved, grants, answered>>
    <2>1. client'[c] = Idle /\ Telling(c)' = {} /\ Held(c)' = {}
      BY <1>1, <1>6 DEF Telling, Held, Idle
    <2>2. ClientOk(c)' /\ DecisionOk(c)'
      BY <2>1 DEF ClientOk, DecisionOk, Idle
    <2>3. GrantsOwned'
      BY <1>2, <1>5, <1>6, GrantsKept
    <2> QED
      BY <1>1, <1>3, <1>5, <1>6, <2>1, <2>2, <2>3, ClientMovesInv DEF Locked, Idle
  <1>7. CASE replyAlwaysSaves(c) /\ client[c].op = "always" /\ lock' = lock
             /\ saved' = saved \cup {KindOf[r]} /\ grants' = grants
             /\ answered' = answered \cup {<<r, "yes">>}
             /\ client' = [client EXCEPT ![c] = [client[c] EXCEPT !.at = "scan"]]
    <2> DEFINE rec == [client[c] EXCEPT !.at = "scan"]
    <2>1. rec \in Busy /\ rec.at = "scan" /\ rec.op = "always" /\ rec.req = r
      BY <1>3, <1>7, BusyMoves DEF Locked, Busy
    <2>2. client'[c] = rec
      BY <1>1, <1>7
    <2> HIDE DEF rec
    <2>3. Telling(c)' = {} /\ Held(c)' = {r}
      BY <2>1, <2>2 DEF Telling, Held
    <2>4. ClientOk(c)' /\ DecisionOk(c)'
      BY <1>4, <1>5, <1>7, <2>1, <2>2, <2>3 DEF ClientOk, DecisionOk
    <2>5. GrantsOwned'
      BY <1>2, <1>5, <1>7, GrantsKept
    <2>6. saved' \subseteq Kind /\ answered' \subseteq Request \X {"yes", "no"}
      BY <1>1, <1>3, <1>7 DEF AskAssumption
    <2>7. client' = [client EXCEPT ![c] = rec]
      BY <1>7 DEF rec
    <2> QED
      BY <1>1, <1>2, <1>5, <1>7, <2>1, <2>3, <2>4, <2>5, <2>6, <2>7, ClientMovesInv DEF Locked
  <1>8. CASE replyAlwaysScans(c)
    <2>1. client[c].at = "scan" /\ UNCHANGED <<lock, saved, grants, answered>>
      BY <1>8 DEF replyAlwaysScans
    <2>2. PICK others \in Orders(AllowedNow(r)) :
            client' = [client EXCEPT ![c] = [client[c] EXCEPT !.at = "settle",
                                                              !.items = <<r>> \o others]]
      BY <1>8 DEF replyAlwaysScans
    <2> DEFINE items == <<r>> \o others
               rec == [client[c] EXCEPT !.at = "settle", !.items = items]
    <2>3. AllowedNow(r) \in SUBSET Request /\ IsFiniteSet(AllowedNow(r))
          /\ AllowedNow(r) \subseteq pending /\ r \notin AllowedNow(r)
          /\ \A x \in AllowedNow(r) : policy[SessionOf[x]] = "open"
      <3>1. AllowedNow(r) \subseteq pending
        BY DEF AllowedNow
      <3> QED
        BY <1>1, <3>1, FS_Subset DEF AllowedNow, Effect
    <2>4. /\ items \in Seq(Request) /\ items # <<>> /\ Distinct(items)
          /\ r \in SetOf(items) /\ SetOf(items) \subseteq {r} \cup AllowedNow(r)
      BY <1>3, <2>3, OrderedItems
    <2>5. client[c].op = "always" /\ <<r, "yes">> \in answered
      BY <2>1 DEF IInv, DecisionOk
    <2> HIDE DEF items
    <2>6. rec \in Busy /\ rec.at = "settle" /\ rec.op = "always" /\ rec.req = r
          /\ rec.items = items
      BY <1>3, <2>4, <2>5, BusyMoves DEF Locked, Busy
    <2>7. client' = [client EXCEPT ![c] = rec]
      BY <2>2 DEF items
    <2>8. client'[c] = rec
      BY <1>1, <2>7
    <2> HIDE DEF rec
    <2>9. Telling(c)' = {} /\ Held(c)' = SetOf(items)
      BY <2>6, <2>8 DEF Telling, Held
    <2>10. \A x \in SetOf(items) : /\ deferred[x] = "open" /\ told[x] = <<>>
                                   /\ x \in pending \/ (pc[x] = "done" /\ out[x] = "died")
      BY <1>1, <1>4, <2>3, <2>4
    <2>11. ClientOk(c)'
      BY <1>5, <2>4, <2>6, <2>8, <2>9, <2>10 DEF ClientOk
    <2>12. DecisionOk(c)'
      BY <1>5, <2>1, <2>3, <2>4, <2>5, <2>6, <2>8 DEF DecisionOk
    <2>13. GrantsOwned'
      BY <1>5, <2>1, <2>7, GrantsKept
    <2> QED
      BY <1>1, <1>5, <2>1, <2>6, <2>7, <2>9, <2>11, <2>12, <2>13, ClientMovesInv DEF Locked
  <1>9. CASE grantIssues(c) /\ client[c].at = "decide"
             /\ client[c].op \in {"session", "location"} /\ lock' = lock /\ saved' = saved
             /\ answered' = answered \cup {<<r, "yes">>}
             /\ \E scope \in SUBSET Session :
                  grants' = grants \cup {[by |-> r, session |-> scope, live |-> TRUE]}
             /\ client' = [client EXCEPT ![c] = [client[c] EXCEPT !.at = "settle",
                                                                  !.items = <<r>>]]
    <2> DEFINE rec == [client[c] EXCEPT !.at = "settle", !.items = <<r>>]
    <2>1. /\ <<r>> \in Seq(Request) /\ SetOf(<<r>>) = {r} /\ Distinct(<<r>>) /\ <<r>> # <<>>
      BY <1>3, OneItem
    <2>2. rec \in Busy /\ rec.at = "settle" /\ rec.req = r /\ rec.op = client[c].op
          /\ rec.items = <<r>>
      BY <1>3, <2>1, BusyMoves DEF Locked, Busy
    <2>3. client'[c] = rec /\ \A d \in Client \ {c} : client'[d] = client[d]
      BY <1>1, <1>9
    <2> HIDE DEF rec
    <2>4. Telling(c)' = {} /\ Held(c)' = {r}
      BY <2>1, <2>2, <2>3 DEF Telling, Held
    <2>5. ClientOk(c)'
      BY <1>4, <1>5, <2>1, <2>2, <2>3, <2>4 DEF ClientOk
    <2>6. DecisionOk(c)'
      BY <1>9, <2>1, <2>2, <2>3 DEF DecisionOk
    <2>7. PICK scope \in SUBSET Session :
            grants' = grants \cup {[by |-> r, session |-> scope, live |-> TRUE]}
      BY <1>9
    <2>8. \A d \in Client : client[d].at # "settle"
      BY <1>3, <1>9 DEF IInv, LockIsHeld, Locked
    <2>9. \A g \in grants : g.by # r /\ deferred[g.by] = "once"
      BY <1>4, <2>8 DEF IInv, GrantsOwned
    <2>10. GrantsOwned'
      <3> SUFFICES ASSUME NEW g \in grants'
                   PROVE  /\ \A h \in grants' : h.by = g.by => h = g
                          /\ \/ deferred'[g.by] = "once"
                             \/ \E d \in Client : /\ client'[d].at = "settle"
                                                  /\ g.by = client'[d].req
                                                  /\ client'[d].op \in {"session", "location"}
        BY DEF GrantsOwned
      <3>1. CASE g \in grants
        <4>1. \A h \in grants : h.by = g.by => h = g
          BY <3>1 DEF IInv, GrantsOwned
        <4> QED
          BY <1>5, <2>7, <2>9, <3>1, <4>1
      <3>2. CASE g = [by |-> r, session |-> scope, live |-> TRUE]
        <4>1. \A h \in grants' : h.by = g.by => h = g
          BY <2>7, <2>9, <3>2
        <4> QED
          BY <1>9, <2>2, <2>3, <3>2, <4>1
      <3> QED
        BY <2>7, <3>1, <3>2
    <2>11. grants' \subseteq Grant /\ answered' \subseteq Request \X {"yes", "no"}
           /\ grants \subseteq grants' /\ answered \subseteq answered'
      <3>1. [by |-> r, session |-> scope, live |-> TRUE] \in Grant
        BY <1>3 DEF Grant
      <3>2. <<r, "yes">> \in Request \X {"yes", "no"}
        BY <1>3
      <3> QED
        BY <1>1, <1>9, <2>7, <3>1, <3>2
    <2>12. client' = [client EXCEPT ![c] = rec]
      BY <1>9 DEF rec
    <2> QED
      BY <1>1, <1>5, <1>9, <2>2, <2>4, <2>5, <2>6, <2>10, <2>11, <2>12, ClientMovesInv
      DEF Locked
  <1>10. CASE replyAlwaysSaves(c)
    BY <1>6, <1>7, <1>10 DEF replyAlwaysSaves
  <1>11. CASE grantIssues(c)
    <2>1. (IF client[c].op = "session" THEN {SessionOf[r]} ELSE Session) \in SUBSET Session
      BY <1>3 DEF AskAssumption
    <2> QED
      BY <1>6, <1>9, <1>11, <2>1 DEF grantIssues
  <1> QED
    BY <1>8, <1>10, <1>11

\* Settling under the lock: the requests leave the map with the client's answer,
\* which it has to announce from now on.
LEMMA SettleInv ==
  ASSUME AskAssumption, IInv, NEW c \in Client, NEW items \in Seq(Request), settle(c, items),
         client[c].at \in Locked, items # <<>>, Distinct(items),
         client[c].at = "settle" => client[c].req \in SetOf(items),
         \A x \in SetOf(items) : /\ deferred[x] = "open" /\ told[x] = <<>>
                                 /\ x \in pending \/ (pc[x] = "done" /\ out[x] = "died"),
         UNCHANGED <<policy, saved, grants, pc, out, asked, told>>,
         answered \subseteq answered', answered' \subseteq Request \X {"yes", "no"},
         \A x \in SetOf(items) :
           /\ Answer(c) \in {"once", "always"} /\ policy[SessionOf[x]] = "gated" =>
                <<x, "yes">> \in answered'
           /\ Answer(c) = "reject" =>
                \E y \in Request : <<y, "no">> \in answered' /\ SessionOf[y] = SessionOf[x]
  PROVE  IInv'
  <1> DEFINE rec == [client[c] EXCEPT !.at = "told", !.items = items]
  <1>1. /\ client \in [Client -> {Idle} \cup Busy]
        /\ deferred \in [Request -> Settled \cup {"none", "open"}]
        /\ pending \subseteq Request /\ IsFiniteSet(pending) /\ SetOf(items) \subseteq Request
        /\ client[c] \in Busy
    BY DEF IInv, Typed, SetOf, Idle, Locked
  <1>2. rec \in Busy /\ rec.at = "told" /\ rec.op = client[c].op /\ rec.items = items
    BY <1>1, BusyMoves DEF Busy
  <1>3. client' = [client EXCEPT ![c] = rec]
    BY DEF settle, Doing
  <1>4. client'[c] = rec /\ \A d \in Client \ {c} : client'[d] = client[d]
    BY <1>1, <1>3
  <1> HIDE DEF rec
  <1>5. Answer(c)' = Answer(c) /\ Answer(c) \in Reply
    BY <1>2, <1>4, AnswerType DEF Answer
  <1>6. /\ \A x \in SetOf(items) : deferred'[x] = Answer(c)
        /\ \A x \in Request \ SetOf(items) : deferred'[x] = deferred[x]
        /\ deferred' \in [Request -> Settled \cup {"none", "open"}]
        /\ pending' = pending \ SetOf(items) /\ lock' = "free"
    BY <1>1, <1>5 DEF settle, Settled
  <1>7. Typed'
    <2>1. IsFiniteSet(pending')
      BY <1>1, <1>6, FS_Subset
    <2>2. client' \in [Client -> {Idle} \cup Busy]
      BY <1>1, <1>2, <1>3
    <2> QED
      BY <1>6, <2>1, <2>2 DEF IInv, Typed
  <1>8. \A d \in Client : client[d].at \in Locked => d = c
    BY OneHolder
  <1>9. LockIsHeld'
    BY <1>2, <1>4, <1>6, <1>8 DEF AskAssumption, LockIsHeld, Locked
  <1>10. \A x \in SetOf(items) : /\ pc[x] \in Parked \cup {"leave", "done"}
                                 /\ out[x] \in {"none", "interrupted", "died"}
    BY <1>1 DEF IInv, RequestOk
  <1>11. \A x \in Request : RequestOk(x)' /\ ToldOk(x)'
    <2> SUFFICES ASSUME NEW x \in Request PROVE RequestOk(x)' /\ ToldOk(x)'
      OBVIOUS
    <2>1. CASE x \in SetOf(items)
      <3>1. deferred'[x] \in Reply /\ told'[x] = <<>> /\ x \notin pending'
            /\ pc'[x] \in Parked \cup {"leave", "done"} /\ out'[x] \in {"none", "interrupted", "died"}
        BY <1>5, <1>6, <1>10, <2>1
      <3>2. pc'[x] \in Parked => out'[x] = "none"
        BY DEF IInv, RequestOk
      <3>3. RequestOk(x)'
        BY <3>1, <3>2 DEF RequestOk, Early, Parked, Reply
      <3> QED
        BY <3>1, <3>3 DEF ToldOk
    <2>2. CASE x \notin SetOf(items)
      BY <1>6, <2>2 DEF RequestOk, ToldOk, IInv
    <2> QED
      BY <2>1, <2>2
  <1>12. Held(c)' = {} /\ Telling(c)' = SetOf(items) /\ Telling(c) = {}
    BY <1>2, <1>4 DEF Held, Telling, Locked
  <1>13. \A d \in Client \ {c} : /\ Held(d)' = {} /\ Telling(d)' = Telling(d)
                                 /\ Answer(d)' = Answer(d)
    <2> SUFFICES ASSUME NEW d \in Client, d # c
                 PROVE  Held(d)' = {} /\ Telling(d)' = Telling(d) /\ Answer(d)' = Answer(d)
      OBVIOUS
    <2>1. client'[d] = client[d] /\ client[d].at \notin Locked
      BY <1>4, <1>8
    <2> QED
      BY <2>1 DEF Held, Telling, Answer, Locked, SetOf
  <1>14. \A d \in Client : \A x \in Telling(d) : x \in Request /\ deferred[x] \in Reply
    <2>1. \A d \in Client : Telling(d) \subseteq Request
      BY <1>1 DEF Telling, SetOf, Idle, Busy
    <2>2. \A d \in Client : \A x \in Telling(d) : deferred[x] = Answer(d)
      BY DEF IInv, ClientOk
    <2> QED
      BY <2>1, <2>2, AnswerType
  <1>15. \A d \in Client : Telling(d) \cap SetOf(items) = {}
    BY <1>14 DEF Reply
  <1>16. \A d \in Client : ClientOk(d)'
    <2>1. ClientOk(c)'
      BY <1>2, <1>4, <1>5, <1>6, <1>12 DEF ClientOk
    <2>2. ASSUME NEW d \in Client, d # c PROVE ClientOk(d)'
      <3>1. client'[d] = client[d] /\ client[d].at # "settle"
        BY <1>4, <1>8, <2>2 DEF Locked
      <3>2. \A x \in Telling(d) : deferred'[x] = Answer(d) /\ told'[x] = <<>>
        BY <1>6, <1>14, <1>15 DEF IInv, ClientOk
      <3>3. ClientOk(d)
        BY DEF IInv
      <3> QED
        BY <1>13, <2>2, <3>1, <3>2, <3>3 DEF ClientOk
    <2> QED
      BY <2>1, <2>2
  <1>17. \A d \in Client : DecisionOk(d)'
    BY <1>2, <1>4, <1>8 DEF DecisionOk, Locked
  <1>18. TellersApart'
    BY <1>12, <1>13, <1>15 DEF IInv, TellersApart
  <1>19. SettledFor'
    <2> SUFFICES ASSUME NEW x \in Request
                 PROVE  /\ deferred'[x] \in {"once", "always"} /\ policy[SessionOf[x]] = "gated" =>
                             <<x, "yes">> \in answered'
                        /\ deferred'[x] = "reject" =>
                             \E y \in Request : <<y, "no">> \in answered' /\ SessionOf[y] = SessionOf[x]
      BY DEF SettledFor
    <2>1. CASE x \in SetOf(items)
      BY <1>6, <2>1
    <2>2. CASE x \notin SetOf(items)
      BY <1>6, <2>2 DEF IInv, SettledFor
    <2> QED
      BY <2>1, <2>2
  <1>20. GrantsOwned'
    <2> SUFFICES ASSUME NEW g \in grants
                 PROVE  (\A h \in grants : h.by = g.by => h = g) /\ deferred'[g.by] = "once"
      BY DEF GrantsOwned
    <2>1. g.by \in Request /\ (\A h \in grants : h.by = g.by => h = g)
      BY DEF IInv, Typed, Grant, GrantsOwned
    <2>2. CASE deferred[g.by] = "once"
      BY <1>6, <2>1, <2>2
    <2>3. CASE \E d \in Client : /\ client[d].at = "settle" /\ g.by = client[d].req
                                 /\ client[d].op \in {"session", "location"}
      <3>1. client[c].at = "settle" /\ g.by = client[c].req
            /\ client[c].op \in {"session", "location"}
        BY <1>8, <2>3 DEF Locked
      <3>2. Answer(c) = "once"
        BY <3>1 DEF Answer, Reply
      <3> QED
        BY <1>6, <2>1, <3>1, <3>2
    <2> QED
      BY <2>1, <2>2, <2>3 DEF IInv, GrantsOwned
  <1>21. \A x \in Request : OwnAnswerFor(x)'
    BY DEF IInv, OwnAnswerFor
  <1> QED
    BY <1>7, <1>9, <1>11, <1>16, <1>17, <1>18, <1>19, <1>20, <1>21 DEF IInv

\* The decisions that settle.
LEMMA SettlesInv ==
  ASSUME AskAssumption, IInv, NEW c \in Client,
         replyReject(c) \/ replyOnce(c) \/ replyAlwaysSettles(c)
  PROVE  IInv'
  <1> USE DEF durable, call, history
  <1> DEFINE r == client[c].req
  <1>1. /\ client \in [Client -> {Idle} \cup Busy] /\ pending \subseteq Request
        /\ IsFiniteSet(pending) /\ answered \subseteq Request \X {"yes", "no"}
        /\ \A x \in pending : deferred[x] = "open" /\ told[x] = <<>>
    BY DEF IInv, Typed, RequestOk
  <1>2. client[c].at \in {"decide", "settle"}
    BY DEF replyReject, replyOnce, replyAlwaysSettles
  <1>3. client[c] \in Busy /\ r \in Request
    BY <1>1, <1>2 DEF Idle, Busy
  <1>4. client[c].at = "decide" => /\ deferred[r] = "open" /\ told[r] = <<>>
                                   /\ r \in pending \/ (pc[r] = "done" /\ out[r] = "died")
    BY DEF IInv, ClientOk, Held
  <1>5. CASE replyReject(c)
    <2>1. /\ client[c].at = "decide" /\ client[c].op = "reject"
          /\ answered' = answered \cup {<<r, "no">>}
          /\ UNCHANGED <<policy, saved, grants, pc, out, asked, told>>
      BY <1>5 DEF replyReject
    <2>2. PICK others \in Orders(SameSession(r)) : settle(c, <<r>> \o others)
      BY <1>5 DEF replyReject
    <2>3. SameSession(r) \in SUBSET Request /\ IsFiniteSet(SameSession(r))
          /\ SameSession(r) \subseteq pending /\ r \notin SameSession(r)
      <3>1. SameSession(r) \subseteq pending /\ r \notin SameSession(r)
        BY DEF SameSession
      <3> QED
        BY <1>1, <3>1, FS_Subset
    <2> DEFINE items == <<r>> \o others
    <2>4. /\ items \in Seq(Request) /\ items # <<>> /\ Distinct(items)
          /\ SetOf(items) \subseteq {r} \cup SameSession(r)
      BY <1>3, <2>3, OrderedItems
    <2>5. settle(c, items)
      BY <2>2
    <2> HIDE DEF items
    <2>6. \A x \in SetOf(items) : /\ deferred[x] = "open" /\ told[x] = <<>>
                                  /\ x \in pending \/ (pc[x] = "done" /\ out[x] = "died")
      BY <1>1, <1>4, <2>1, <2>3, <2>4
    <2>7. Answer(c) = "reject"
      BY <2>1 DEF Answer, Reply
    <2>8. \A x \in SetOf(items) : SessionOf[r] = SessionOf[x]
      BY <2>4 DEF SameSession
    <2>9. answered \subseteq answered' /\ answered' \subseteq Request \X {"yes", "no"}
          /\ <<r, "no">> \in answered'
      BY <1>1, <1>3, <2>1
    <2> QED
      BY <1>3, <2>1, <2>4, <2>5, <2>6, <2>7, <2>8, <2>9, SettleInv DEF Locked
  <1>6. CASE replyOnce(c)
    <2>1. /\ client[c].at = "decide" /\ client[c].op \in {"once", "always"}
          /\ settle(c, <<r>>) /\ answered' = answered \cup {<<r, "yes">>}
          /\ UNCHANGED <<policy, saved, grants, pc, out, asked, told>>
      BY <1>6 DEF replyOnce
    <2>2. <<r>> \in Seq(Request) /\ SetOf(<<r>>) = {r} /\ Distinct(<<r>>) /\ <<r>> # <<>>
      BY <1>3, OneItem
    <2>3. Answer(c) \in {"once", "always"}
      BY <2>1 DEF Answer, Reply
    <2>4. answered \subseteq answered' /\ answered' \subseteq Request \X {"yes", "no"}
          /\ <<r, "yes">> \in answered'
      BY <1>1, <1>3, <2>1
    <2> QED
      BY <1>4, <2>1, <2>2, <2>3, <2>4, SettleInv DEF Locked
  <1>7. CASE replyAlwaysSettles(c)
    <2> DEFINE items == client[c].items
    <2>1. /\ client[c].at = "settle" /\ settle(c, items)
          /\ UNCHANGED <<policy, saved, grants, pc, out, asked, told, answered>>
      BY <1>7 DEF replyAlwaysSettles
    <2>2. items \in Seq(Request) /\ items # <<>> /\ Distinct(items) /\ r \in SetOf(items)
      BY <1>3, <2>1 DEF IInv, ClientOk, DecisionOk, Busy
    <2>3. \A x \in SetOf(items) : /\ deferred[x] = "open" /\ told[x] = <<>>
                                  /\ x \in pending \/ (pc[x] = "done" /\ out[x] = "died")
      BY <2>1 DEF IInv, ClientOk, Held
    <2>4. Answer(c) # "reject"
      BY <2>1 DEF IInv, DecisionOk, Answer, Reply
    <2>5. \A x \in SetOf(items) : policy[SessionOf[x]] = "gated" => <<x, "yes">> \in answered
      BY <2>1 DEF IInv, DecisionOk
    <2> QED
      BY <1>1, <2>1, <2>2, <2>3, <2>4, <2>5, SettleInv DEF Locked
  <1> QED
    BY <1>5, <1>6, <1>7

\* Announcing one answer after the other, or failing to.
LEMMA PublishInv ==
  ASSUME AskAssumption, IInv, NEW c \in Client, publishReplies(c)
  PROVE  IInv'
  <1> USE DEF durable, call, history, Doing
  <1> DEFINE items == client[c].items
             r == Head(items)
             a == Answer(c)
  <1>1. /\ client[c].at = "told"
        /\ UNCHANGED <<policy, saved, grants, pc, out, pending, deferred, lock, asked, answered>>
    BY DEF publishReplies
  <1>2. /\ client \in [Client -> {Idle} \cup Busy] /\ told \in [Request -> Seq(Reply)]
        /\ saved \subseteq Kind /\ grants \subseteq Grant /\ lock \in Client \cup {"free"}
        /\ answered \subseteq Request \X {"yes", "no"}
    BY DEF IInv, Typed
  <1>3. client[c] \in Busy /\ items \in Seq(Request) /\ items # <<>> /\ Distinct(items)
        /\ Telling(c) = SetOf(items)
    BY <1>1, <1>2 DEF Idle, Busy, IInv, ClientOk, Telling
  <1>4. /\ r \in SetOf(items) /\ SetOf(items) \subseteq Request
        /\ Tail(items) \in Seq(Request) /\ Distinct(Tail(items))
        /\ SetOf(Tail(items)) \subseteq SetOf(items) \ {r}
        /\ Len(items) # 1 => Tail(items) # <<>>
    BY <1>3, TailItems
  <1>5. a \in Reply
    BY AnswerType
  <1>6. \A x \in SetOf(items) : deferred[x] = a /\ told[x] = <<>>
    BY <1>3 DEF IInv, ClientOk
  <1> HIDE DEF items, r, a
  <1>7. PICK rec \in {Idle} \cup Busy :
          /\ client' = [client EXCEPT ![c] = rec]
          /\ \/ rec = Idle
             \/ /\ rec.at = "told" /\ rec.items = Tail(items) /\ rec.op = client[c].op
                /\ told' # told /\ Tail(items) # <<>>
          /\ \/ told' = [told EXCEPT ![r] = Just(a)]
             \/ told' = told
    <2>1. Append(told[r], a) = Just(a) /\ Just(a) # <<>>
      BY <1>4, <1>5, <1>6, JustOne
    <2>2. CASE client' = [client EXCEPT ![c] = Idle] /\ told' = told
      BY <2>2
    <2>3. CASE told' = [told EXCEPT ![r] = Append(told[r], a)]
               /\ client' = [client EXCEPT ![c] = Idle]
      BY <2>1, <2>3
    <2>4. CASE told' = [told EXCEPT ![r] = Append(told[r], a)] /\ Len(items) # 1
               /\ client' = [client EXCEPT ![c] = [client[c] EXCEPT !.items = Tail(items)]]
      <3>1. [client[c] EXCEPT !.items = Tail(items)] \in Busy
        BY <1>3, <1>4, BusyMoves
      <3>2. /\ [client[c] EXCEPT !.items = Tail(items)].at = "told"
            /\ [client[c] EXCEPT !.items = Tail(items)].items = Tail(items)
            /\ [client[c] EXCEPT !.items = Tail(items)].op = client[c].op
        BY <1>1, <1>3 DEF Busy
      <3>3. told'[r] = Just(a) /\ told[r] = <<>>
        BY <1>2, <1>4, <1>6, <2>1, <2>4
      <3>4. told' # told
        BY <2>1, <3>3
      <3> QED
        BY <1>4, <2>1, <2>4, <3>1, <3>2, <3>4
    <2> QED
      BY <2>2, <2>3, <2>4 DEF publishReplies, items, r, a
  <1>8. client'[c] = rec /\ \A d \in Client \ {c} : client'[d] = client[d]
    BY <1>2, <1>7
  <1>9. Just(a) \in Seq(Reply)
    BY <1>5, JustOne
  <1>10. told' \in [Request -> Seq(Reply)]
         /\ (told'[r] = Just(a) \/ told'[r] = told[r])
         /\ \A x \in Request \ {r} : told'[x] = told[x]
    BY <1>2, <1>4, <1>7, <1>9
  <1>11. Typed'
    <2>1. client' \in [Client -> {Idle} \cup Busy]
      BY <1>2, <1>7
    <2> QED
      BY <1>1, <1>10, <2>1 DEF IInv, Typed
  <1>12. rec.at \in {"idle", "told"}
    BY <1>7 DEF Idle
  <1>13. LockIsHeld'
    BY <1>1, <1>8, <1>12 DEF IInv, LockIsHeld, Locked
  <1>14. \A x \in Request : RequestOk(x)' /\ ToldOk(x)'
    <2> SUFFICES ASSUME NEW x \in Request PROVE RequestOk(x)' /\ ToldOk(x)'
      OBVIOUS
    <2>1. CASE x # r
      BY <1>1, <1>10, <2>1 DEF IInv, RequestOk, ToldOk
    <2>2. CASE x = r
      <3>1. deferred[x] = a /\ (told'[x] = Just(a) \/ told'[x] = <<>>)
        BY <1>4, <1>6, <1>10, <2>2
      <3>2. RequestOk(x) /\ ToldOk(x)
        BY DEF IInv
      <3>3. RequestOk(x)'
        BY <1>1, <1>5, <3>1, <3>2 DEF RequestOk, Reply, Early, Parked
      <3> QED
        BY <1>1, <1>5, <3>1, <3>3 DEF ToldOk
    <2> QED
      BY <2>1, <2>2
  <1>15. \A d \in Client \ {c} : /\ Held(d)' = Held(d) /\ Telling(d)' = Telling(d)
                                 /\ Answer(d)' = Answer(d)
    BY <1>8 DEF Held, Telling, Answer, SetOf
  <1>16. Held(c)' = {} /\ Telling(c)' \subseteq SetOf(items) \ {r}
    <2>1. CASE rec = Idle
      BY <1>8, <2>1 DEF Telling, Held, Idle
    <2>3. CASE rec.items = Tail(items)
      <3>1. Telling(c)' \in {{}, SetOf(rec.items)}
        BY <1>8 DEF Telling
      <3> QED
        BY <1>4, <1>8, <1>12, <2>3, <3>1 DEF Held
    <2> QED
      BY <1>7, <2>1, <2>3
  <1>17. \A d \in Client \ {c} : r \notin Telling(d) /\ r \notin Held(d)
    <2> SUFFICES ASSUME NEW d \in Client, d # c PROVE r \notin Telling(d) /\ r \notin Held(d)
      OBVIOUS
    <2>1. r \notin Telling(d)
      BY <1>3, <1>4 DEF IInv, TellersApart
    <2>2. r \notin Held(d)
      BY <1>4, <1>5, <1>6 DEF IInv, ClientOk, Reply
    <2> QED
      BY <2>1, <2>2
  <1>18. \A d \in Client : Held(d) \subseteq Request /\ Telling(d) \subseteq Request
    BY <1>2 DEF Held, Telling, SetOf, Idle, Busy, Locked
  <1>19. \A d \in Client : ClientOk(d)'
    <2>1. ClientOk(c)'
      <3>1. Answer(c)' = a \/ Telling(c)' = {}
        BY <1>7, <1>8 DEF Answer, Telling, Idle, a
      <3>2. \A x \in Telling(c)' : deferred'[x] = Answer(c)' /\ told'[x] = <<>>
        BY <1>1, <1>4, <1>6, <1>10, <1>16, <3>1
      <3>3. client'[c].at \in {"settle", "told"} =>
              Distinct(client'[c].items) /\ client'[c].items # <<>>
        <4>1. CASE rec = Idle
          BY <1>8, <4>1 DEF Idle
        <4>2. CASE rec.items = Tail(items) /\ Tail(items) # <<>>
          BY <1>4, <1>8, <4>2
        <4> QED
          BY <1>7, <4>1, <4>2
      <3> QED
        BY <1>16, <3>2, <3>3 DEF ClientOk
    <2>2. ASSUME NEW d \in Client, d # c PROVE ClientOk(d)'
      <3>1. ClientOk(d) /\ client'[d] = client[d]
        BY <1>8, <2>2 DEF IInv
      <3>2. \A x \in Held(d) \cup Telling(d) : told'[x] = told[x]
        BY <1>10, <1>17, <1>18, <2>2
      <3> QED
        BY <1>1, <1>15, <2>2, <3>1, <3>2 DEF ClientOk
    <2> QED
      BY <2>1, <2>2
  <1>20. \A d \in Client : DecisionOk(d)'
    <2> SUFFICES ASSUME NEW d \in Client PROVE DecisionOk(d)'
      OBVIOUS
    <2>1. CASE d = c
      BY <1>8, <1>12, <2>1 DEF DecisionOk
    <2>2. CASE d # c
      <3>1. client'[d] = client[d] /\ SetOf(client'[d].items) = SetOf(client[d].items)
        BY <1>8, <2>2
      <3> QED
        BY <1>1, <3>1 DEF IInv, DecisionOk
    <2> QED
      BY <2>1, <2>2
  <1>21. TellersApart'
    <2>1. Telling(c)' \subseteq Telling(c)
      BY <1>3, <1>16
    <2> QED
      BY <1>15, <2>1 DEF IInv, TellersApart
  <1>22. SettledFor'
    BY <1>1 DEF IInv, SettledFor
  <1>23. GrantsOwned'
    BY <1>1, <1>7, GrantsKept
  <1>24. \A x \in Request : OwnAnswerFor(x)'
    BY <1>1 DEF IInv, OwnAnswerFor
  <1> QED
    BY <1>11, <1>13, <1>14, <1>19, <1>20, <1>21, <1>22, <1>23, <1>24 DEF IInv
------------------------------------------------------------------------------
(* What happens around the calls and the clients.                          *)

\* An approval is forgotten, or a grant revoked: who was answered stays answered.
LEMMA AroundInv ==
  ASSUME IInv,
         (\E k \in Kind : Unsave(k)) \/ (\E g \in grants : revoke(g)) \/ UNCHANGED vars
  PROVE  IInv'
  <1> USE DEF call, durable, history, vars
  <1>1. /\ UNCHANGED <<policy, pc, out, pending, deferred, lock, client, asked, told, answered>>
        /\ saved' \subseteq saved
    BY DEF Unsave, revoke
  <1>2. grants \subseteq Grant /\ saved \subseteq Kind
    BY DEF IInv, Typed
  <1>3. /\ grants' \subseteq Grant
        /\ \A h \in grants' : \E g \in grants : /\ h.by = g.by /\ h.session = g.session
                                                /\ g \in grants' => g = h
        /\ \A g \in grants : \E h \in grants' : h.by = g.by /\ h.session = g.session
    <2>1. CASE grants' = grants
      BY <1>2, <2>1
    <2>2. CASE \E g \in grants : revoke(g)
      <3>1. PICK g \in grants : /\ g.live
                                /\ grants' = (grants \ {g}) \cup {[g EXCEPT !.live = FALSE]}
        BY <2>2 DEF revoke
      <3>2. [g EXCEPT !.live = FALSE] \in Grant /\ [g EXCEPT !.live = FALSE].by = g.by
            /\ [g EXCEPT !.live = FALSE].session = g.session
            /\ [g EXCEPT !.live = FALSE] # g
        BY <1>2, <3>1 DEF Grant
      <3>3. g \notin grants'
        BY <3>1, <3>2
      <3> QED
        BY <1>2, <3>1, <3>2, <3>3
    <2> QED
      BY <2>1, <2>2 DEF Unsave
  <1>4. Typed'
    BY <1>1, <1>2, <1>3 DEF IInv, Typed
  <1>5. \A r \in Request : RequestOk(r)' /\ ToldOk(r)'
    BY <1>1 DEF IInv, RequestOk, ToldOk
  <1>6. \A c \in Client : Held(c)' = Held(c) /\ Telling(c)' = Telling(c) /\ Answer(c)' = Answer(c)
    BY <1>1 DEF Held, Telling, Answer, SetOf
  <1>7. \A c \in Client : ClientOk(c)'
    BY <1>1, <1>6 DEF IInv, ClientOk
  <1>8. \A c \in Client : DecisionOk(c)'
    <2> SUFFICES ASSUME NEW c \in Client PROVE DecisionOk(c)'
      OBVIOUS
    <2>1. client'[c] = client[c] /\ SetOf(client'[c].items) = SetOf(client[c].items)
      BY <1>1
    <2> QED
      BY <1>1, <2>1 DEF IInv, DecisionOk
  <1>9. LockIsHeld' /\ TellersApart' /\ SettledFor'
    <2>1. LockIsHeld'
      BY <1>1 DEF IInv, LockIsHeld
    <2>2. TellersApart'
      BY <1>6 DEF IInv, TellersApart
    <2>3. SettledFor'
      BY <1>1 DEF IInv, SettledFor
    <2> QED
      BY <2>1, <2>2, <2>3
  <1>10. GrantsOwned'
    <2> SUFFICES ASSUME NEW h \in grants'
                 PROVE  /\ \A i \in grants' : i.by = h.by => i = h
                        /\ \/ deferred[h.by] = "once"
                           \/ \E c \in Client : /\ client[c].at = "settle" /\ h.by = client[c].req
                                                /\ client[c].op \in {"session", "location"}
      BY <1>1 DEF GrantsOwned
    <2>1. PICK g \in grants : h.by = g.by /\ (g \in grants' => g = h)
      BY <1>3
    <2>2. ASSUME NEW i \in grants', i.by = h.by PROVE i = h
      <3>1. PICK f \in grants : i.by = f.by /\ (f \in grants' => f = i)
        BY <1>3
      <3>2. f = g
        BY <2>1, <2>2, <3>1 DEF IInv, GrantsOwned
      <3>3. CASE g \in grants'
        BY <2>1, <3>1, <3>2, <3>3
      <3>4. CASE g \notin grants'
        <4>1. PICK e \in grants : grants' = (grants \ {e}) \cup {[e EXCEPT !.live = FALSE]}
          BY <3>4 DEF Unsave, revoke
        <4>2. e = g
          BY <3>4, <4>1
        <4>3. \A x \in grants \ {g} : x.by # g.by
          BY DEF IInv, GrantsOwned
        <4> QED
          BY <2>1, <2>2, <4>1, <4>2, <4>3
      <3> QED
        BY <3>3, <3>4
    <2> QED
      BY <2>1, <2>2 DEF IInv, GrantsOwned
  <1>11. \A r \in Request : OwnAnswerFor(r)'
    BY <1>1, <1>3 DEF IInv, OwnAnswerFor
  <1> QED
    BY <1>4, <1>5, <1>7, <1>8, <1>9, <1>10, <1>11 DEF IInv

------------------------------------------------------------------------------
(* The theorems.                                                           *)

LEMMA InitInv == AskAssumption /\ Init => IInv
  <1> SUFFICES ASSUME AskAssumption, Init
               PROVE  IInv
    OBVIOUS
  <1>1. \A c \in Client : client[c] = Idle
    BY DEF Init
  <1>2. /\ saved = {} /\ grants = {} /\ pending = {} /\ asked = {} /\ answered = {}
        /\ lock = "free"
        /\ \A r \in Request : /\ pc[r] = "idle" /\ out[r] = "none" /\ deferred[r] = "none"
                              /\ told[r] = <<>>
    BY DEF Init
  <1>3. Typed
    <2>1. IsFiniteSet(pending)
      BY <1>2, FS_EmptySet
    <2>2. told \in [Request -> Seq(Reply)]
      BY EmptySeq DEF Init
    <2> QED
      BY <1>2, <2>1, <2>2 DEF Init, Typed, At, Outs, Settled
  <1>4. LockIsHeld
    BY <1>1, <1>2 DEF AskAssumption, LockIsHeld, Locked, Idle
  <1>5. \A r \in Request : RequestOk(r) /\ ToldOk(r)
    BY <1>2 DEF RequestOk, ToldOk, Early, Parked
  <1>6. \A c \in Client : Held(c) = {} /\ Telling(c) = {}
    BY <1>1 DEF Held, Telling, Idle
  <1>7. \A c \in Client : ClientOk(c) /\ DecisionOk(c)
    BY <1>1, <1>6 DEF ClientOk, DecisionOk, Idle
  <1>8. TellersApart /\ SettledFor /\ GrantsOwned
    BY <1>2, <1>6 DEF TellersApart, SettledFor, GrantsOwned
  <1>9. \A r \in Request : OwnAnswerFor(r)
    BY <1>2 DEF OwnAnswerFor
  <1> QED
    BY <1>3, <1>4, <1>5, <1>7, <1>8, <1>9 DEF IInv

LEMMA NextInv == AskAssumption /\ IInv /\ [Next]_vars => IInv'
  <1> SUFFICES ASSUME AskAssumption, IInv, [Next]_vars
               PROVE  IInv'
    OBVIOUS
  <1>1. ASSUME NEW c \in Client, Decides(c) PROVE IInv'
    BY <1>1, DecidingInv, SettlesInv, PublishInv DEF Decides
  <1> QED
    BY <1>1, CallInv, WaitsInv, AroundInv DEF Next

\* The inductive invariant holds of every behaviour.
THEOREM Invariance == AskAssumption => (Spec => []IInv)
  <1> SUFFICES ASSUME AskAssumption PROVE Spec => []IInv
    OBVIOUS
  <1>1. Init => IInv
    BY InitInv
  <1>2. IInv /\ [Next]_vars => IInv'
    BY NextInv
  <1> QED
    BY <1>1, <1>2, PTL DEF Spec

\* Requests, clients and the lock stay well formed, and a request in the map of
\* pending ones is open and belongs to a call that waits for it.
THEOREM TypeCorrect == AskAssumption => (Spec => []TypeOK)
  <1> SUFFICES ASSUME AskAssumption PROVE Spec => []TypeOK
    OBVIOUS
  <1>1. IInv => TypeOK
    BY DEF IInv, Typed, TypeOK, LockIsHeld, Locked, RequestOk, Parked
  <1> QED
    BY <1>1, Invariance, PTL

\* A request is closed once for the clients, and what they are told is what became
\* of its call, whatever races answers, timeouts, withdrawals and failures run.
THEOREM OneClosureAlways == AskAssumption => (Spec => []OneClosure)
  <1> SUFFICES ASSUME AskAssumption PROVE Spec => []OneClosure
    OBVIOUS
  <1>1. IInv => OneClosure
    <2> SUFFICES ASSUME IInv, NEW r \in Request
                 PROVE  /\ Len(told[r]) <= 1
                        /\ told[r] = <<"reject">> => out[r] # "allowed"
                        /\ told[r] \in {<<"once">>, <<"always">>} => out[r] \notin {"rejected", "expired"}
      BY DEF OneClosure
    <2>1. RequestOk(r) /\ ToldOk(r)
      BY DEF IInv
    <2>3. CASE told[r] = <<>>
      BY <2>3
    <2>4. CASE told[r] = Just("reject") /\ out[r] \in {"interrupted", "expired"}
      <3>1. Len(told[r]) = 1 /\ told[r][1] = "reject"
        BY <2>4, JustOne DEF Reply
      <3>2. told[r] # <<"once">> /\ told[r] # <<"always">>
        BY <3>1
      <3>3. Len(told[r]) <= 1
        BY <3>1
      <3>4. out[r] # "allowed"
        BY <2>4
      <3> QED
        BY <3>2, <3>3, <3>4
    <2>5. CASE deferred[r] \in Reply /\ told[r] = Just(deferred[r])
      <3>1. Len(told[r]) = 1 /\ told[r][1] = deferred[r]
        BY <2>5, JustOne
      <3>2. told[r] = <<"reject">> => deferred[r] = "reject"
        BY <3>1
      <3>3. told[r] \in {<<"once">>, <<"always">>} => deferred[r] \in {"once", "always"}
        BY <3>1
      <3> QED
        BY <2>1, <3>1, <3>2, <3>3 DEF RequestOk
    <2> QED
      BY <2>1, <2>3, <2>4, <2>5 DEF ToldOk
  <1> QED
    BY <1>1, Invariance, PTL

\* A request has one grant at most, and is settled by it: never rejected or expired
\* beside it.
THEOREM GrantOwnsRequestAlways == AskAssumption => (Spec => []GrantOwnsRequest)
  <1> SUFFICES ASSUME AskAssumption PROVE Spec => []GrantOwnsRequest
    OBVIOUS
  <1>1. IInv => GrantOwnsRequest
    BY DEF IInv, GrantsOwned, GrantOwnsRequest, Holds
  <1> QED
    BY <1>1, Invariance, PTL

\* A session that always asks lets a call through only on an answer to that call or
\* a grant: an approval saved for another request never does.
THEOREM OwnAnswerAlways == AskAssumption => (Spec => []OwnAnswer)
  <1> SUFFICES ASSUME AskAssumption PROVE Spec => []OwnAnswer
    OBVIOUS
  <1>1. IInv => OwnAnswer
    BY DEF IInv, OwnAnswerFor, OwnAnswer
  <1> QED
    BY <1>1, Invariance, PTL

\* A call ends rejected only when a client rejected a request of the same session.
THEOREM RejectInSessionAlways == AskAssumption => (Spec => []RejectInSession)
  <1> SUFFICES ASSUME AskAssumption PROVE Spec => []RejectInSession
    OBVIOUS
  <1>1. IInv => RejectInSession
    BY DEF IInv, RequestOk, SettledFor, RejectInSession
  <1> QED
    BY <1>1, Invariance, PTL

\* What the run checks of permission asks, for any sessions, kinds, requests and
\* clients: an ask ends once, by an answer or a grant that is its own.
THEOREM AsksAreClosedOnceAlways == AskAssumption => (Spec => []AsksAreClosedOnce)
  <1> SUFFICES ASSUME AskAssumption PROVE Spec => []AsksAreClosedOnce
    OBVIOUS
  <1>1. TypeOK /\ OneClosure /\ GrantOwnsRequest /\ OwnAnswer /\ RejectInSession
          => AsksAreClosedOnce
    BY DEF AsksAreClosedOnce
  <1> QED
    BY <1>1, TypeCorrect, OneClosureAlways, GrantOwnsRequestAlways, OwnAnswerAlways,
       RejectInSessionAlways, PTL

\* A settled request is never settled again.
SettledStays == \A r \in Request : deferred[r] \in Settled => deferred'[r] = deferred[r]

LEMMA StepSettlesOnce == AskAssumption /\ IInv /\ [Next]_vars => SettledStays
  <1> SUFFICES ASSUME AskAssumption, IInv, [Next]_vars, NEW r \in Request,
                      deferred[r] \in Settled
               PROVE  deferred'[r] = deferred[r]
    BY DEF SettledStays
  <1> USE DEF call, durable, history
  <1>1. deferred \in [Request -> Settled \cup {"none", "open"}] /\ deferred[r] \notin {"none", "open"}
        /\ RequestOk(r)
    BY DEF IInv, Typed, Settled, Reply
  <1>2. ASSUME NEW x \in Request, CallSteps(x) \/ LockSteps(x) \/ Interrupted(x)
        PROVE  deferred'[r] = deferred[r]
    <2>1. CASE Register(x) \/ Expire(x)
      BY <1>1, <2>1 DEF Register, Expire, RequestOk, Early
    <2>2. CASE ~Register(x) /\ ~Expire(x)
      BY <1>2, <2>2 DEF CallSteps, LockSteps, Evaluate, Consult, requireResponder, Announce,
         Answered, Interrupted, TimesOut, Leave, Tell
    <2> QED
      BY <2>1, <2>2
  <1>3. ASSUME NEW c \in Client, NEW items, settle(c, items), r \notin SetOf(items)
        PROVE  deferred'[r] = deferred[r]
    BY <1>3 DEF settle
  <1>4. ASSUME NEW c \in Client, Decides(c)
        PROVE  deferred'[r] = deferred[r]
    <2>0. ClientOk(c) /\ pending \subseteq Request /\ IsFiniteSet(pending)
          /\ client[c] \in {Idle} \cup Busy
      BY DEF IInv, Typed
    <2>1. CASE replyReject(c)
      <3>1. client[c].at = "decide" /\ client[c].req # r
        BY <1>1, <2>0, <2>1 DEF replyReject, ClientOk, Held
      <3>2. PICK others \in Orders(SameSession(client[c].req)) :
              settle(c, <<client[c].req>> \o others)
        BY <2>1 DEF replyReject
      <3>3. r \notin SameSession(client[c].req)
        BY <1>1 DEF SameSession, RequestOk
      <3>4. SameSession(client[c].req) \in SUBSET Request /\ IsFiniteSet(SameSession(client[c].req))
            /\ client[c].req \notin SameSession(client[c].req) /\ client[c].req \in Request
        <4>1. SameSession(client[c].req) \subseteq pending
          BY DEF SameSession
        <4> QED
          BY <2>0, <3>1, <4>1, FS_Subset DEF SameSession, Idle, Busy
      <3>5. SetOf(<<client[c].req>> \o others) \subseteq {client[c].req} \cup SameSession(client[c].req)
        BY <3>4, OrderedItems
      <3> QED
        BY <1>3, <3>1, <3>2, <3>3, <3>5
    <2>2. CASE replyOnce(c)
      <3>1. client[c].at = "decide" /\ client[c].req # r /\ client[c].req \in Request
        BY <1>1, <2>0, <2>2 DEF replyOnce, ClientOk, Held, Idle, Busy
      <3> QED
        BY <1>3, <2>2, <3>1, OneItem DEF replyOnce
    <2>3. CASE replyAlwaysSettles(c)
      <3>1. r \notin SetOf(client[c].items)
        BY <1>1, <2>0, <2>3 DEF replyAlwaysSettles, ClientOk, Held
      <3> QED
        BY <1>3, <2>3, <3>1 DEF replyAlwaysSettles
    <2>4. CASE replyAlwaysSaves(c) \/ replyAlwaysScans(c) \/ grantIssues(c) \/ publishReplies(c)
      BY <2>4 DEF replyAlwaysSaves, replyAlwaysScans, grantIssues, publishReplies
    <2> QED
      BY <1>4, <2>1, <2>2, <2>3, <2>4 DEF Decides
  <1>5. ASSUME NEW c \in Client, Send(c) \/ Enter(c) \/ GoesAway(c)
        PROVE  deferred'[r] = deferred[r]
    BY <1>5 DEF Send, Enter, GoesAway
  <1>6. CASE (\E k \in Kind : Unsave(k)) \/ (\E g \in grants : revoke(g)) \/ UNCHANGED vars
    BY <1>6 DEF Unsave, revoke, vars
  <1> QED
    BY <1>2, <1>4, <1>5, <1>6 DEF Next

\* No answer, no grant and no timeout ever overwrites how a request was settled:
\* the map of pending requests and the decisions lock leave each Deferred one writer.
THEOREM SettledOnceAlways == AskAssumption => (Spec => [][SettledStays]_vars)
  <1> SUFFICES ASSUME AskAssumption PROVE Spec => [][SettledStays]_vars
    OBVIOUS
  <1>1. IInv /\ [Next]_vars => SettledStays
    BY StepSettlesOnce
  <1> QED
    BY <1>1, Invariance, PTL DEF Spec

------------------------------------------------------------------------------
(* Tool servers: the inductive invariant.                                  *)

\* A fiber between its handshake's start and its end; one that builds at all.
Shaking == {"initialize", "notify", "list", "register"}
Building == {"spawn"} \cup Shaking

\* The records of the state.
WireType == [scope : {"open", "closed"}, dead : BOOLEAN, tools : BOOLEAN, health : Mcp!Health]
OpType == [at : {"idle", "connect", "disconnect", "admit", "spawn", "initialize", "notify",
                 "list", "register"},
           wire : Wires \cup {NoWire}]
CallType == {[at |-> "idle", wire |-> NoWire]}
              \cup [at : {"resolve", "waiting", "unserved"}, wire : Wires]

\* Whoever builds a connection holds the lock; nobody else has one in hand.
BuildersLock ==
  \A o \in Ops :
    /\ manager[o].at \in Building \cup {"admit"} => connectLock = o
    /\ manager[o].at \in Building <=> manager[o].wire \in Wires

\* A call that is under way has read a connection from conns.
CallsOnWires == toolCall \in [Calls -> CallType]

\* A child that is being spawned runs while conns has no connection.
SpawnsAlone ==
  \A o \in Ops : manager[o].at = "spawn" => conns = NoWire /\ wires[manager[o].wire].scope = "open"

\* A connection in its handshake is the one in conns until it is closed, and does
\* not publish tools yet.
ShakenIsShown ==
  \A o \in Ops :
    /\ manager[o].at \in Shaking =>
              /\ conns \in {NoWire, manager[o].wire}
              /\ wires[manager[o].wire].scope = "open" => conns = manager[o].wire
    /\ manager[o].at \in Building => ~wires[manager[o].wire].tools

\* The connection in conns has not been closed.
ConnsOpen == conns # NoWire => wires[conns].scope = "open"

McpIInv ==
  /\ Mcp!TypeOK
  /\ CallsOnWires
  /\ BuildersLock
  /\ SpawnsAlone
  /\ ShakenIsShown
  /\ ConnsOpen
  /\ Mcp!FactsHonest
  /\ CutSpawns = FALSE => Mcp!NoOrphan

------------------------------------------------------------------------------
(* Health.                                                                 *)

LEMMA RecordedType ==
  ASSUME Mcp!TypeOK, NEW to \in Mcp!Health
  PROVE  Mcp!Recorded(to) \in Mcp!Health \cup {"none"}
  BY DEF Mcp!Recorded, Mcp!TypeOK

\* Closing ends the connection in conns and touches no other.
LEMMA ClosedWires ==
  ASSUME NEW ws \in [Wires -> WireType],
         conns \in Wires \cup {NoWire}, NoWire \notin Wires
  PROVE  /\ Mcp!Closed(ws) \in [Wires -> WireType]
         /\ \A w \in Wires : /\ w # conns => Mcp!Closed(ws)[w] = ws[w]
                             /\ w = conns => Mcp!Closed(ws)[w].scope = "closed"
                             /\ Mcp!Closed(ws)[w].tools = ws[w].tools
  BY DEF Mcp!Closed, WireType

\* Recording a health changes nothing but healths.
LEMMA ShownWires ==
  ASSUME Mcp!TypeOK, NEW to \in Mcp!Health, NoWire \notin Wires
  PROVE  /\ Mcp!Shown(to) \in [Wires -> WireType]
         /\ \A w \in Wires : /\ Mcp!Shown(to)[w].scope = wires[w].scope
                             /\ Mcp!Shown(to)[w].tools = wires[w].tools
                             /\ w # conns => Mcp!Shown(to)[w] = wires[w]
         /\ conns # NoWire => IF Mcp!Recorded(to) = to THEN Mcp!Shown(to)[conns].health = to
                                                       ELSE Mcp!Shown(to) = wires /\ Mcp!Recorded(to) = health
  BY DEF Mcp!Shown, Mcp!Recorded, Mcp!TypeOK, WireType

\* A health that is recorded keeps the invariant.
LEMMA ObserveInv ==
  ASSUME Mcp!McpAssumption, McpIInv, NEW to \in Mcp!Health, Mcp!Observe(to)
  PROVE  /\ health' \in Mcp!Health \cup {"none"}
         /\ wires' \in [Wires -> WireType]
         /\ \A w \in Wires : wires'[w].scope = wires[w].scope /\ wires'[w].tools = wires[w].tools
         /\ conns # NoWire /\ wires[conns].tools => wires'[conns].health = health'
  <1>1. conns \in Wires \cup {NoWire} /\ wires \in [Wires -> WireType]
    BY DEF McpIInv, Mcp!TypeOK, WireType
  <1>2. conns # NoWire /\ wires[conns].tools => wires'[conns].health = health'
    BY <1>1, ShownWires DEF Mcp!McpAssumption, McpIInv, Mcp!Observe, Mcp!FactsHonest
  <1> QED
    BY <1>2, RecordedType, ShownWires DEF Mcp!McpAssumption, McpIInv, Mcp!Observe

------------------------------------------------------------------------------
(* Steps that leave the fibers that build, and what they build, alone.     *)

\* Calls, toggles and dying pipes.
LEMMA CallsInv ==
  ASSUME Mcp!McpAssumption, McpIInv, UNCHANGED <<connectLock, conns, manager>>,
         enabled' \in BOOLEAN, UNCHANGED routed,
         toolCall' \in [Calls -> CallType],
         health' \in Mcp!Health \cup {"none"},
         wires' \in [Wires -> WireType],
         \A w \in Wires : wires'[w].scope = wires[w].scope /\ wires'[w].tools = wires[w].tools,
         conns # NoWire /\ wires[conns].tools => wires'[conns].health = health'
  PROVE  McpIInv'
  <1>1. Mcp!TypeOK'
    BY DEF McpIInv, Mcp!TypeOK, WireType, CallType
  <1>2. CallsOnWires' /\ BuildersLock' /\ SpawnsAlone' /\ ShakenIsShown'
    BY DEF McpIInv, CallsOnWires, BuildersLock, SpawnsAlone, ShakenIsShown, Building
  <1>3. ConnsOpen' /\ Mcp!FactsHonest'
    BY DEF McpIInv, ConnsOpen, Mcp!FactsHonest, Mcp!TypeOK
  <1>4. CutSpawns = FALSE => Mcp!NoOrphan'
    BY DEF McpIInv, Mcp!NoOrphan
  <1> QED
    BY <1>1, <1>2, <1>3, <1>4 DEF McpIInv

LEMMA CallsType ==
  ASSUME McpIInv, NEW c \in Calls, NEW new \in CallType, toolCall' = [toolCall EXCEPT ![c] = new]
  PROVE  toolCall' \in [Calls -> CallType]
  BY DEF McpIInv, CallsOnWires

LEMMA SendInv ==
  ASSUME Mcp!McpAssumption, McpIInv, NEW c \in Calls, NEW w \in Wires, Mcp!Send(c, w),
         UNCHANGED <<enabled, connectLock, conns, routed, manager>>
  PROVE  McpIInv'
  <1>0. Mcp!TypeOK
    BY DEF McpIInv
  <1>1. CASE Mcp!Returns(c) /\ Mcp!Observe("offline")
    <2>1. toolCall' \in [Calls -> CallType]
      BY <1>0, <1>1, CallsType DEF Mcp!Returns, CallType
    <2> QED
      BY <1>0, <1>1, <2>1, ObserveInv, CallsInv DEF Mcp!Health, Mcp!TypeOK
  <1>2. CASE \E at \in {"waiting", "unserved"} :
               toolCall' = [toolCall EXCEPT ![c] = [at |-> at, wire |-> w]] /\ UNCHANGED <<health, wires>>
    <2>1. toolCall' \in [Calls -> CallType]
      BY <1>0, <1>2, CallsType DEF CallType
    <2> QED
      BY <1>0, <1>2, <2>1, CallsInv DEF McpIInv, Mcp!TypeOK, WireType, Mcp!FactsHonest
  <1> QED
    BY <1>1, <1>2 DEF Mcp!Send

LEMMA McpCallInv ==
  ASSUME Mcp!McpAssumption, McpIInv, NEW c \in Calls,
         Mcp!CallTool(c) \/ Mcp!Answers(c) \/ Mcp!CallInterrupted(c)
  PROVE  McpIInv'
  <1>0. Mcp!TypeOK /\ conns \in Wires \cup {NoWire} /\ wires \in [Wires -> WireType]
        /\ toolCall \in [Calls -> CallType]
    BY DEF McpIInv, Mcp!TypeOK, WireType, CallsOnWires
  <1>1. UNCHANGED <<enabled, connectLock, conns, routed, manager>>
    BY DEF Mcp!CallTool, Mcp!Answers, Mcp!Resolved, Mcp!Result, Mcp!ErrorResult, Mcp!CallCut, Mcp!CallInterrupted
  <1>2. ASSUME UNCHANGED <<health, wires>>, toolCall' \in [Calls -> CallType] PROVE McpIInv'
    BY <1>0, <1>1, <1>2, CallsInv DEF McpIInv, Mcp!TypeOK, Mcp!FactsHonest
  <1>3. ASSUME Mcp!Returns(c), NEW to \in Mcp!Health, Mcp!Observe(to) PROVE McpIInv'
    <2>1. toolCall' \in [Calls -> CallType]
      BY <1>0, <1>3, CallsType DEF Mcp!Returns, CallType
    <2> QED
      BY <1>0, <1>1, <1>3, <2>1, ObserveInv, CallsInv DEF Mcp!TypeOK
  <1>4. ASSUME Mcp!Returns(c), UNCHANGED <<health, wires>> PROVE McpIInv'
    BY <1>0, <1>2, <1>4, CallsType DEF Mcp!Returns, CallType
  <1>5. CASE Mcp!CallTool(c)
    <2>1. conns \in Wires
      BY <1>0, <1>5 DEF Mcp!CallTool
    <2>2. CASE toolCall' = [toolCall EXCEPT ![c] = [at |-> "resolve", wire |-> conns]]
               /\ UNCHANGED <<health, wires>>
      BY <1>0, <1>2, <2>1, <2>2, CallsType DEF CallType
    <2>3. CASE Mcp!Send(c, conns)
      BY <1>1, <2>1, <2>3, SendInv
    <2> QED
      BY <1>5, <2>2, <2>3 DEF Mcp!CallTool
  <1>6. CASE Mcp!Resolved(c)
    <2>1. toolCall[c].wire \in Wires
      BY <1>0, <1>6 DEF Mcp!Resolved, CallType
    <2>2. CASE Mcp!Send(c, toolCall[c].wire)
      BY <1>1, <2>1, <2>2, SendInv
    <2> QED
      BY <1>3, <1>4, <1>6, <2>2 DEF Mcp!Resolved, Mcp!Health
  <1>7. CASE Mcp!Result(c) \/ Mcp!CallInterrupted(c)
    BY <1>4, <1>7 DEF Mcp!Result, Mcp!CallInterrupted
  <1>8. CASE Mcp!ErrorResult(c) \/ Mcp!CallCut(c)
    BY <1>3, <1>8 DEF Mcp!ErrorResult, Mcp!CallCut, Mcp!Health
  <1> QED
    BY <1>5, <1>6, <1>7, <1>8 DEF Mcp!Answers

LEMMA ToggleInv ==
  ASSUME Mcp!McpAssumption, McpIInv, Mcp!Toggle
  PROVE  McpIInv'
  BY CallsInv DEF Mcp!Toggle, McpIInv, Mcp!TypeOK, CallsOnWires, WireType, Mcp!FactsHonest

LEMMA PipeDiesInv ==
  ASSUME Mcp!McpAssumption, McpIInv, NEW w \in Wires, Mcp!PipeDies(w)
  PROVE  McpIInv'
  <1>1. wires \in [Wires -> WireType]
    BY DEF McpIInv, Mcp!TypeOK, WireType
  <1>2. [wires[w] EXCEPT !.dead = TRUE] \in WireType
    BY <1>1 DEF WireType
  <1>3. wires' = [wires EXCEPT ![w] = [wires[w] EXCEPT !.dead = TRUE]]
    BY DEF Mcp!PipeDies
  <1>4. wires' \in [Wires -> WireType]
        /\ \A v \in Wires : /\ wires'[v].scope = wires[v].scope /\ wires'[v].tools = wires[v].tools
                            /\ wires'[v].health = wires[v].health
    BY <1>1, <1>2, <1>3 DEF WireType
  <1> QED
    BY <1>4, CallsInv DEF Mcp!PipeDies, McpIInv, Mcp!TypeOK, CallsOnWires, Mcp!FactsHonest

------------------------------------------------------------------------------
(* Steps of the fibers that connect and disconnect.                        *)

\* The connection in conns is closed and taken from it, and fiber o, if it is the
\* one that builds it, is done with it.
LEMMA KilledInv ==
  ASSUME Mcp!McpAssumption, McpIInv,
         NEW ws \in [Wires -> WireType],
         \A w \in Wires : ws[w].scope = wires[w].scope /\ ws[w].tools = wires[w].tools,
         wires' = Mcp!Closed(ws), conns' = NoWire, health' \in Mcp!Health \cup {"none"},
         UNCHANGED <<enabled, routed, toolCall>>,
         \/ UNCHANGED <<connectLock, manager>> /\ conns # NoWire
         \/ \E o \in Ops : /\ manager[o].at \notin {"spawn", "admit"}
                           /\ Mcp!Ended(o) /\ connectLock' = IF connectLock = o THEN NoOp ELSE connectLock
  PROVE  McpIInv'
  <1> USE DEF Mcp!McpAssumption
  <1>1. conns \in Wires \cup {NoWire} /\ manager \in [Ops -> OpType] /\ connectLock \in Ops \cup {NoOp}
    BY DEF McpIInv, Mcp!TypeOK, OpType
  <1>2. wires' \in [Wires -> WireType]
    BY <1>1, ClosedWires DEF WireType
  <1>3. \A w \in Wires : /\ wires'[w].scope = "open" => w # conns /\ wires[w].scope = "open"
                         /\ wires'[w].tools = wires[w].tools
                         /\ w # conns => wires'[w].scope = wires[w].scope
    BY <1>1, ClosedWires DEF WireType
  <1>4. manager' \in [Ops -> OpType] /\ connectLock' \in Ops \cup {NoOp}
    BY <1>1 DEF Mcp!Ended, OpType
  <1>5. \A p \in Ops : manager'[p] = manager[p] \/ manager'[p] = [at |-> "idle", wire |-> NoWire]
    BY <1>1 DEF Mcp!Ended
  <1>6. \A p \in Ops : manager'[p] = manager[p] => connectLock' = connectLock \/ connectLock # p \/ manager[p].at = "idle"
    BY <1>1 DEF Mcp!Ended
  <1>7. Mcp!TypeOK' /\ CallsOnWires'
    BY <1>2, <1>4 DEF McpIInv, Mcp!TypeOK, CallsOnWires, WireType, OpType
  <1>8. BuildersLock'
    <2> SUFFICES ASSUME NEW p \in Ops
                 PROVE  /\ manager'[p].at \in Building \cup {"admit"} => connectLock' = p
                        /\ manager'[p].at \in Building <=> manager'[p].wire \in Wires
      BY DEF BuildersLock
    <2>1. CASE manager'[p] = [at |-> "idle", wire |-> NoWire]
      BY <2>1 DEF Building, Shaking
    <2>2. CASE manager'[p] = manager[p]
      BY <1>1, <1>6, <2>2 DEF McpIInv, BuildersLock, Building, Shaking
    <2> QED
      BY <1>5, <2>1, <2>2
  <1>9. SpawnsAlone' /\ ShakenIsShown'
    BY <1>1, <1>3, <1>5
    DEF McpIInv, BuildersLock, SpawnsAlone, ShakenIsShown, Building, Shaking
  <1>10. ConnsOpen' /\ Mcp!FactsHonest'
    BY DEF ConnsOpen, Mcp!FactsHonest
  <1>11. ASSUME CutSpawns = FALSE PROVE Mcp!NoOrphan'
    <2> SUFFICES ASSUME NEW w \in Wires, wires'[w].scope = "open"
                 PROVE  \E o \in Ops : connectLock' = o /\ manager'[o].wire = w
      BY DEF Mcp!NoOrphan
    <2>1. w # conns /\ wires[w].scope = "open"
      BY <1>3
    <2>2. PICK o \in Ops : connectLock = o /\ manager[o].wire = w
      BY <1>11, <2>1 DEF McpIInv, Mcp!NoOrphan
    <2>3. manager[o].at \in Building
      BY <2>2 DEF McpIInv, BuildersLock
    <2>4. manager[o].at = "spawn"
      BY <2>1, <2>2, <2>3 DEF McpIInv, ShakenIsShown, Building
    <2>5. connectLock' = o /\ manager'[o] = manager[o]
      BY <1>1, <2>2, <2>4 DEF Mcp!Ended, McpIInv, BuildersLock, SpawnsAlone
    <2> QED
      BY <2>2, <2>5
  <1> QED
    BY <1>7, <1>8, <1>9, <1>10, <1>11 DEF McpIInv

\* A fiber that builds nothing moves on, or is admitted, or gives up; it may record
\* a health on the way.
LEMMA NotBuildingInv ==
  ASSUME Mcp!McpAssumption, McpIInv, NEW o \in Ops, NEW rec \in OpType,
         manager[o].at \notin Building, manager' = [manager EXCEPT ![o] = rec],
         rec.at \notin Building, rec.wire = NoWire,
         connectLock' \in Ops \cup {NoOp}, rec.at = "admit" => connectLock' = o,
         connectLock' # connectLock => connectLock \in {o, NoOp},
         UNCHANGED <<enabled, conns, routed, toolCall>>,
         UNCHANGED <<health, wires>> \/ \E to \in Mcp!Health : Mcp!Observe(to)
  PROVE  McpIInv'
  <1> USE DEF Mcp!McpAssumption
  <1>1. conns \in Wires \cup {NoWire} /\ manager \in [Ops -> OpType] /\ connectLock \in Ops \cup {NoOp}
        /\ wires \in [Wires -> WireType]
    BY DEF McpIInv, Mcp!TypeOK, OpType, WireType
  <1>2. /\ health' \in Mcp!Health \cup {"none"} /\ wires' \in [Wires -> WireType]
        /\ \A w \in Wires : wires'[w].scope = wires[w].scope /\ wires'[w].tools = wires[w].tools
        /\ conns # NoWire /\ wires[conns].tools => wires'[conns].health = health'
    <2>1. CASE UNCHANGED <<health, wires>>
      BY <1>1, <2>1 DEF McpIInv, Mcp!TypeOK, Mcp!FactsHonest
    <2> QED
      BY <2>1, ObserveInv
  <1>3. Mcp!TypeOK' /\ CallsOnWires'
    BY <1>1, <1>2 DEF McpIInv, Mcp!TypeOK, CallsOnWires, WireType, OpType
  <1>4. manager'[o] = rec /\ \A p \in Ops \ {o} : manager'[p] = manager[p]
    BY <1>1
  <1>5. \A p \in Ops \ {o} : manager[p].at \in Building \cup {"admit"} => connectLock = p /\ connectLock' = p
    BY DEF McpIInv, BuildersLock
  <1>6. BuildersLock'
    BY <1>4, <1>5 DEF McpIInv, BuildersLock
  <1>7. SpawnsAlone' /\ ShakenIsShown'
    BY <1>2, <1>4 DEF McpIInv, BuildersLock, SpawnsAlone, ShakenIsShown, Building
  <1>8. ConnsOpen' /\ Mcp!FactsHonest'
    BY <1>1, <1>2 DEF McpIInv, ConnsOpen, Mcp!FactsHonest
  <1>9. ASSUME CutSpawns = FALSE PROVE Mcp!NoOrphan'
    <2> SUFFICES ASSUME NEW w \in Wires, wires'[w].scope = "open", w # conns
                 PROVE  \E p \in Ops : connectLock' = p /\ manager'[p].wire = w
      BY DEF Mcp!NoOrphan
    <2>1. PICK p \in Ops : connectLock = p /\ manager[p].wire = w
      BY <1>2, <1>9 DEF McpIInv, Mcp!NoOrphan
    <2>2. p # o
      BY <2>1 DEF McpIInv, BuildersLock
    <2> QED
      BY <1>4, <2>1, <2>2
  <1> QED
    BY <1>3, <1>6, <1>7, <1>8, <1>9 DEF McpIInv

LEMMA PrepareInv ==
  ASSUME Mcp!McpAssumption, McpIInv, NEW o \in Ops, Mcp!Prepare(o)
  PROVE  McpIInv'
  <1> USE DEF Mcp!McpAssumption
  <1>1. conns \in Wires \cup {NoWire} /\ manager \in [Ops -> OpType] /\ connectLock = o
        /\ wires \in [Wires -> WireType] /\ manager[o].wire \notin Wires
    BY DEF McpIInv, Mcp!TypeOK, OpType, WireType, BuildersLock, Mcp!Prepare, Building, Shaking
  <1>2. PICK w \in Wires :
          /\ Mcp!Unused(w)
          /\ wires' = [Mcp!Closed(wires) EXCEPT ![w] = Mcp!Fresh]
          /\ conns' = IF Remote THEN w ELSE NoWire
          /\ manager' = [manager EXCEPT ![o] = [at |-> IF Remote THEN "initialize" ELSE "spawn",
                                                wire |-> w]]
    BY DEF Mcp!Prepare
  <1>3. Mcp!Fresh \in WireType /\ Mcp!Fresh.scope = "open" /\ ~Mcp!Fresh.tools
    BY DEF Mcp!Fresh, WireType, Mcp!Health
  <1>4. Mcp!Closed(wires) \in [Wires -> WireType]
        /\ \A v \in Wires : Mcp!Closed(wires)[v].scope = "open" => v # conns /\ wires[v].scope = "open"
    BY <1>1, ClosedWires DEF WireType
  <1>5. wires' \in [Wires -> WireType] /\ wires'[w] = Mcp!Fresh
        /\ \A v \in Wires \ {w} : wires'[v].scope = "open" => v # conns /\ wires[v].scope = "open"
    BY <1>2, <1>3, <1>4
  <1>6. manager' \in [Ops -> OpType] /\ manager'[o].wire = w
        /\ manager'[o].at = (IF Remote THEN "initialize" ELSE "spawn")
        /\ \A p \in Ops \ {o} : manager'[p] = manager[p]
    BY <1>1, <1>2 DEF OpType
  <1>7. Mcp!TypeOK' /\ CallsOnWires'
    BY <1>2, <1>5, <1>6, RecordedType
    DEF Mcp!Prepare, McpIInv, Mcp!TypeOK, CallsOnWires, WireType, OpType, Mcp!Health
  <1>8. \A p \in Ops \ {o} : manager[p].at \notin Building \cup {"admit"}
    BY <1>1 DEF McpIInv, BuildersLock
  <1>9. BuildersLock'
    BY <1>1, <1>6, <1>8 DEF Mcp!Prepare, McpIInv, BuildersLock, Building, Shaking
  <1>10. SpawnsAlone' /\ ShakenIsShown'
    BY <1>2, <1>3, <1>5, <1>6, <1>8 DEF SpawnsAlone, ShakenIsShown, Building, Shaking
  <1>11. ConnsOpen' /\ Mcp!FactsHonest'
    BY <1>2, <1>3, <1>5 DEF ConnsOpen, Mcp!FactsHonest
  <1>12. ASSUME CutSpawns = FALSE PROVE Mcp!NoOrphan'
    <2>1. \A v \in Wires \ {w} : wires[v].scope = "open" => v = conns
      BY <1>1, <1>12 DEF McpIInv, Mcp!NoOrphan
    <2>2. \A v \in Wires \ {w} : wires'[v].scope # "open"
      BY <1>5, <2>1
    <2> QED
      BY <1>1, <1>6, <2>2 DEF Mcp!NoOrphan, Mcp!Prepare
  <1> QED
    BY <1>7, <1>9, <1>10, <1>11, <1>12 DEF McpIInv

\* The builder goes on with its connection in conns.
LEMMA ShakesInv ==
  ASSUME Mcp!McpAssumption, McpIInv, NEW o \in Ops, Mcp!Spawned(o) \/ Mcp!Answered(o) \/ Mcp!Notified(o)
  PROVE  McpIInv'
  <1> USE DEF Mcp!McpAssumption
  <1>1. manager \in [Ops -> OpType] /\ UNCHANGED <<enabled, connectLock, health, routed, wires, toolCall>>
        /\ manager[o].at \in Building
    BY DEF McpIInv, Mcp!TypeOK, OpType, Mcp!Spawned, Mcp!Answered, Mcp!Notified, Building, Shaking
  <1>2. PICK at \in Shaking : manager' = [manager EXCEPT ![o].at = at]
    BY DEF Mcp!Spawned, Mcp!Answered, Mcp!Notified, Mcp!Moved, Shaking
  <1>3. manager' \in [Ops -> OpType] /\ manager'[o].at = at /\ manager'[o].wire = manager[o].wire
        /\ \A p \in Ops \ {o} : manager'[p] = manager[p]
    BY <1>1, <1>2 DEF OpType, Shaking
  <1>4. connectLock = o /\ manager[o].wire \in Wires
        /\ \A p \in Ops \ {o} : manager[p].at \notin Building \cup {"admit"}
    BY <1>1 DEF McpIInv, BuildersLock
  <1>5. conns' = manager[o].wire \/ (conns' = conns /\ manager[o].at \in Shaking)
    BY DEF Mcp!Spawned, Mcp!Answered, Mcp!Notified, Shaking
  <1>6. Mcp!TypeOK' /\ CallsOnWires'
    BY <1>1, <1>3, <1>4, <1>5 DEF McpIInv, Mcp!TypeOK, OpType, CallsOnWires
  <1>7. BuildersLock'
    BY <1>1, <1>3, <1>4 DEF McpIInv, BuildersLock, Building
  <1>8. SpawnsAlone' /\ ShakenIsShown'
    BY <1>1, <1>3, <1>4, <1>5 DEF McpIInv, SpawnsAlone, ShakenIsShown, Building, Shaking
  <1>9. ConnsOpen' /\ Mcp!FactsHonest'
    BY <1>1, <1>4, <1>5
    DEF McpIInv, SpawnsAlone, ShakenIsShown, ConnsOpen, Mcp!FactsHonest, Mcp!Spawned, Mcp!Answered, Mcp!Notified,
        Shaking, Building
  <1>10. ASSUME CutSpawns = FALSE PROVE Mcp!NoOrphan'
    BY <1>1, <1>3, <1>4, <1>5, <1>10 DEF McpIInv, Mcp!NoOrphan, SpawnsAlone, Mcp!Spawned, Mcp!Answered, Mcp!Notified
  <1> QED
    BY <1>6, <1>7, <1>8, <1>9, <1>10 DEF McpIInv

\* The builder ends, with its connection in conns or with none that is open; if an
\* interrupt may cut a spawn, its child may be left.
LEMMA EndedInv ==
  ASSUME Mcp!McpAssumption, McpIInv, NEW o \in Ops, manager[o].at \in Building, Mcp!Ended(o), connectLock' = NoOp,
         UNCHANGED <<enabled, conns, toolCall>>, routed' \in BOOLEAN,
         health' \in Mcp!Health \cup {"none"}, wires' \in [Wires -> WireType],
         \A w \in Wires \ {manager[o].wire} : wires'[w] = wires[w],
         wires'[manager[o].wire].scope = wires[manager[o].wire].scope \/ manager[o].at = "spawn",
         CutSpawns = TRUE \/ manager[o].at # "spawn" \/ wires'[manager[o].wire].scope = "closed",
         conns = manager[o].wire /\ wires'[conns].tools => wires'[conns].health = health'
  PROVE  McpIInv'
  <1> USE DEF Mcp!McpAssumption
  <1>1. manager \in [Ops -> OpType] /\ connectLock = o /\ manager[o].wire \in Wires
        /\ \A p \in Ops \ {o} : manager[p].at \notin Building \cup {"admit"}
    BY DEF McpIInv, Mcp!TypeOK, OpType, BuildersLock
  <1>2. manager' \in [Ops -> OpType] /\ manager'[o] = [at |-> "idle", wire |-> NoWire]
        /\ \A p \in Ops \ {o} : manager'[p] = manager[p]
    BY <1>1 DEF Mcp!Ended, OpType
  <1>3. \A p \in Ops : manager'[p].at \notin Building \cup {"admit"}
    BY <1>1, <1>2 DEF Building, Shaking
  <1>4. Mcp!TypeOK' /\ CallsOnWires'
    BY <1>2 DEF McpIInv, Mcp!TypeOK, OpType, WireType, CallsOnWires
  <1>5. BuildersLock'
    BY <1>1, <1>2, <1>3 DEF McpIInv, BuildersLock
  <1>6. SpawnsAlone' /\ ShakenIsShown'
    BY <1>3 DEF SpawnsAlone, ShakenIsShown, Building
  <1>7. conns = NoWire \/ (conns = manager[o].wire /\ manager[o].at # "spawn")
    BY <1>1 DEF McpIInv, SpawnsAlone, ShakenIsShown, Building
  <1>8. ConnsOpen' /\ Mcp!FactsHonest'
    BY <1>7 DEF McpIInv, ConnsOpen, Mcp!FactsHonest
  <1>9. ASSUME CutSpawns = FALSE PROVE Mcp!NoOrphan'
    <2> SUFFICES ASSUME NEW w \in Wires, wires'[w].scope = "open" PROVE w = conns
      BY DEF Mcp!NoOrphan
    <2>1. CASE w = manager[o].wire
      BY <1>9, <2>1 DEF McpIInv, ShakenIsShown, Building
    <2>2. CASE w # manager[o].wire
      BY <1>1, <1>9, <2>2 DEF McpIInv, Mcp!NoOrphan
    <2> QED
      BY <2>1, <2>2
  <1> QED
    BY <1>4, <1>5, <1>6, <1>8, <1>9 DEF McpIInv

\* A wire that is closed, and one whose tools are published, is a wire.
LEMMA WireEdits ==
  ASSUME NEW rec \in WireType
  PROVE  /\ [rec EXCEPT !.scope = "closed", !.dead = TRUE] \in WireType
         /\ [rec EXCEPT !.scope = "closed", !.dead = TRUE].scope = "closed"
         /\ [rec EXCEPT !.tools = TRUE, !.health = "ready"] \in WireType
         /\ [rec EXCEPT !.tools = TRUE, !.health = "ready"].scope = rec.scope
         /\ [rec EXCEPT !.tools = TRUE, !.health = "ready"].health = "ready"
  BY DEF WireType, Mcp!Health

LEMMA SpawnFailsInv ==
  ASSUME Mcp!McpAssumption, McpIInv, NEW o \in Ops, Mcp!SpawnFails(o)
  PROVE  McpIInv'
  <1> DEFINE w == manager[o].wire
  <1>1. manager[o].at = "spawn" /\ manager[o].at \in Building /\ w \in Wires /\ conns = NoWire
        /\ wires \in [Wires -> WireType]
    BY DEF Mcp!SpawnFails, McpIInv, Mcp!TypeOK, BuildersLock, SpawnsAlone, Building, WireType
  <1>2. [wires[w] EXCEPT !.scope = "closed", !.dead = TRUE] \in WireType
        /\ [wires[w] EXCEPT !.scope = "closed", !.dead = TRUE].scope = "closed"
    BY <1>1, WireEdits
  <1>3. wires' = [wires EXCEPT ![w] = [wires[w] EXCEPT !.scope = "closed", !.dead = TRUE]]
    BY DEF Mcp!SpawnFails
  <1>4. /\ wires' \in [Wires -> WireType] /\ wires'[w].scope = "closed"
        /\ \A v \in Wires \ {w} : wires'[v] = wires[v]
    BY <1>1, <1>2, <1>3
  <1>5. health' \in Mcp!Health \cup {"none"}
    BY RecordedType DEF Mcp!SpawnFails, McpIInv, Mcp!Health
  <1> QED
    BY <1>1, <1>4, <1>5, EndedInv DEF Mcp!SpawnFails, McpIInv, Mcp!TypeOK, Mcp!McpAssumption

LEMMA RegisterInv ==
  ASSUME Mcp!McpAssumption, McpIInv, NEW o \in Ops, Mcp!Register(o)
  PROVE  McpIInv'
  <1> DEFINE w == manager[o].wire
  <1>1. manager[o].at = "register" /\ manager[o].at \in Building /\ w \in Wires
        /\ wires \in [Wires -> WireType]
    BY DEF Mcp!Register, McpIInv, Mcp!TypeOK, BuildersLock, Building, Shaking, WireType
  <1> DEFINE new == [wires[w] EXCEPT !.tools = TRUE, !.health = "ready"]
  <1>2. new \in WireType /\ new.scope = wires[w].scope /\ new.health = "ready"
    BY <1>1, WireEdits
  <1>3. wires' = [wires EXCEPT ![w] = new]
    BY DEF Mcp!Register
  <1>4. /\ wires' \in [Wires -> WireType] /\ wires'[w].scope = wires[w].scope
        /\ wires'[w].health = "ready" /\ \A v \in Wires \ {w} : wires'[v] = wires[v]
    BY <1>1, <1>2, <1>3
  <1> QED
    BY <1>1, <1>4, EndedInv DEF Mcp!Register, Mcp!Health

LEMMA InterruptInv ==
  ASSUME Mcp!McpAssumption, McpIInv, NEW o \in Ops, Mcp!Interrupt(o)
  PROVE  McpIInv'
  <1>1. connectLock \in Ops \cup {NoOp} /\ wires \in [Wires -> WireType]
        /\ [at |-> "idle", wire |-> NoWire] \in OpType
        /\ health \in Mcp!Health \cup {"none"} /\ routed \in BOOLEAN
        /\ {Remote, Credentialed, CutSpawns} \subseteq BOOLEAN
    BY DEF McpIInv, Mcp!TypeOK, WireType, OpType, Mcp!McpAssumption
  <1>2. CASE manager[o].at \in Shaking
    BY <1>1, <1>2, KilledInv DEF Mcp!Interrupt, Shaking
  <1>3. CASE manager[o].at = "spawn"
    <2>1. connectLock = o /\ manager[o].wire \in Wires /\ manager[o].at \in Building /\ CutSpawns = TRUE
      BY <1>1, <1>3 DEF Mcp!Interrupt, McpIInv, BuildersLock, Building
    <2>2. connectLock' = NoOp /\ Mcp!Ended(o) /\ UNCHANGED <<enabled, conns, health, routed, wires, toolCall>>
      BY <1>3, <2>1 DEF Mcp!Interrupt
    <2> QED
      BY <1>1, <1>3, <2>1, <2>2, EndedInv DEF McpIInv, SpawnsAlone, Mcp!McpAssumption
  <1>4. CASE manager[o].at \notin Building
    BY <1>1, <1>4, NotBuildingInv DEF Mcp!Interrupt, Mcp!Ended, Building, Shaking
  <1> QED
    BY <1>2, <1>3, <1>4 DEF Building

LEMMA OpInv ==
  ASSUME Mcp!McpAssumption, McpIInv, NEW o \in Ops,
         \/ Mcp!Connect(o) \/ Mcp!Admit(o) \/ Mcp!Handshake(o) \/ Mcp!Notified(o)
         \/ Mcp!Interrupt(o) \/ Mcp!Disconnect(o) \/ Mcp!CloseServer(o)
  PROVE  McpIInv'
  <1>1. /\ connectLock \in Ops \cup {NoOp} /\ wires \in [Wires -> WireType] /\ manager[o] \in OpType
        /\ [at |-> "idle", wire |-> NoWire] \in OpType
        /\ NoWire \notin Wires /\ NoOp \notin Ops
    BY DEF McpIInv, Mcp!TypeOK, WireType, OpType, Mcp!McpAssumption
  <1>2. ASSUME NEW at \in {"connect", "disconnect", "admit"}, manager[o].at \notin Building
        PROVE  /\ [manager[o] EXCEPT !.at = at] \in OpType
               /\ [manager[o] EXCEPT !.at = at].at = at
               /\ [manager[o] EXCEPT !.at = at].wire = NoWire
    BY <1>1, <1>2 DEF OpType, McpIInv, BuildersLock
  <1>3. CASE Mcp!Connect(o) \/ Mcp!Disconnect(o)
    <2>1. manager[o].at = "idle" /\ manager[o].at \notin Building /\ UNCHANGED <<connectLock, conns, health, wires>>
          /\ UNCHANGED <<enabled, routed, toolCall>>
      BY <1>3 DEF Mcp!Connect, Mcp!Disconnect, Building, Shaking
    <2>2. PICK at \in {"connect", "disconnect"} : manager' = [manager EXCEPT ![o] = [manager[o] EXCEPT !.at = at]]
      BY <1>3 DEF Mcp!Connect, Mcp!Disconnect, Mcp!Moved
    <2> DEFINE rec == [manager[o] EXCEPT !.at = at]
    <2>3. rec \in OpType /\ rec.at = at /\ rec.wire = NoWire
      BY <1>2, <2>1
    <2>4. manager' = [manager EXCEPT ![o] = rec] /\ rec.at \notin Building /\ rec.at # "admit"
      BY <2>2, <2>3 DEF Building, Shaking
    <2> HIDE DEF rec
    <2> QED
      BY <1>1, <2>1, <2>3, <2>4, NotBuildingInv
  <1>4. CASE Mcp!Admit(o)
    BY <1>1, <1>2, <1>4, NotBuildingInv DEF Mcp!Admit, Mcp!Moved, Building, Shaking
  <1>5. CASE Mcp!NotAdmitted(o)
    <2>1. connectLock = o
      BY <1>5 DEF Mcp!NotAdmitted, McpIInv, BuildersLock
    <2>2. UNCHANGED <<health, wires>> \/ \E to \in Mcp!Health : Mcp!Observe(to)
      BY <1>5 DEF Mcp!NotAdmitted, Mcp!Health
    <2> QED
      BY <1>1, <1>5, <2>1, <2>2, NotBuildingInv DEF Mcp!NotAdmitted, Mcp!Ended, Building, Shaking
  <1>6. CASE Mcp!HandshakeFails(o)
    <2>1. PICK to \in Mcp!Health : health' = Mcp!Recorded(to) /\ wires' = Mcp!Closed(Mcp!Shown(to))
      BY <1>6 DEF Mcp!HandshakeFails, Mcp!Health
    <2>2. connectLock = o
      BY <1>6 DEF Mcp!HandshakeFails, McpIInv, BuildersLock, Building, Shaking
    <2>3. Mcp!Shown(to) \in [Wires -> WireType]
          /\ \A w \in Wires : Mcp!Shown(to)[w].scope = wires[w].scope
                              /\ Mcp!Shown(to)[w].tools = wires[w].tools
      BY <1>1, ShownWires DEF McpIInv
    <2>4. health' \in Mcp!Health \cup {"none"}
      BY <2>1, RecordedType DEF McpIInv
    <2> QED
      BY <1>6, <2>1, <2>2, <2>3, <2>4, KilledInv DEF Mcp!HandshakeFails
  <1>7. CASE Mcp!CloseServer(o)
    <2>1. manager[o].at = "disconnect" /\ connectLock = NoOp /\ manager[o].at \notin Building
      BY <1>7 DEF Mcp!CloseServer, Building, Shaking
    <2>2. CASE health = "none"
      BY <1>1, <1>7, <2>1, <2>2, NotBuildingInv DEF Mcp!CloseServer, Mcp!Ended, Building, Shaking
    <2>3. CASE health # "none"
      BY <1>1, <1>7, <2>1, <2>3, KilledInv DEF Mcp!CloseServer
    <2> QED
      BY <2>2, <2>3
  <1> QED
    BY <1>3, <1>4, <1>5, <1>6, <1>7, PrepareInv, ShakesInv, SpawnFailsInv, RegisterInv, InterruptInv
    DEF Mcp!Handshake

------------------------------------------------------------------------------
(* The theorems.                                                           *)

LEMMA McpInitInv == Mcp!McpAssumption /\ Mcp!Init => McpIInv
  <1> SUFFICES ASSUME Mcp!McpAssumption, Mcp!Init
               PROVE  McpIInv
    OBVIOUS
  <1>1. Mcp!TypeOK
    BY DEF Mcp!Init, Mcp!TypeOK, Mcp!Health
  <1>2. CallsOnWires
    BY DEF Mcp!Init, CallsOnWires, CallType
  <1>3. \A o \in Ops : manager[o] = [at |-> "idle", wire |-> NoWire]
    BY DEF Mcp!Init
  <1>4. BuildersLock /\ SpawnsAlone /\ ShakenIsShown
    BY <1>3 DEF Mcp!McpAssumption, BuildersLock, SpawnsAlone, ShakenIsShown, Building, Shaking
  <1>5. ConnsOpen /\ Mcp!FactsHonest /\ Mcp!NoOrphan
    BY DEF Mcp!Init, ConnsOpen, Mcp!FactsHonest, Mcp!NoOrphan
  <1> QED
    BY <1>1, <1>2, <1>4, <1>5 DEF McpIInv

LEMMA McpNextInv == Mcp!McpAssumption /\ McpIInv /\ [Mcp!Next]_Mcp!vars => McpIInv'
  <1> SUFFICES ASSUME Mcp!McpAssumption, McpIInv, [Mcp!Next]_Mcp!vars
               PROVE  McpIInv'
    OBVIOUS
  <1>1. CASE Mcp!Shutdown \/ Mcp!Refused
    <2>1. Mcp!Shutdown
      BY <1>1 DEF Mcp!Refused
    <2>2. wires \in [Wires -> WireType] /\ health \in Mcp!Health \cup {"none"}
      BY DEF McpIInv, Mcp!TypeOK, WireType
    <2> QED
      BY <2>1, <2>2, KilledInv DEF Mcp!Shutdown
  <1>2. CASE UNCHANGED Mcp!vars
    BY <1>2, CallsInv DEF Mcp!vars, McpIInv, Mcp!TypeOK, CallsOnWires, WireType, Mcp!FactsHonest
  <1> QED
    BY <1>1, <1>2, ToggleInv, PipeDiesInv, McpCallInv, OpInv DEF Mcp!Next

\* The inductive invariant holds of every behaviour, on either transport, whether
\* or not an interrupt may cut a spawn.
THEOREM McpInvariance == Mcp!McpAssumption => (Mcp!Spec => []McpIInv)
  <1>1. Mcp!McpAssumption /\ Mcp!Init => McpIInv
    BY McpInitInv
  <1>2. Mcp!McpAssumption /\ McpIInv /\ [Mcp!Next]_Mcp!vars => McpIInv'
    BY McpNextInv
  <1> SUFFICES ASSUME Mcp!McpAssumption PROVE Mcp!Spec => []McpIInv
    OBVIOUS
  <1>3. Mcp!Init => McpIInv
    BY <1>1
  <1>4. McpIInv /\ [Mcp!Next]_Mcp!vars => McpIInv'
    BY <1>2
  <1> QED
    BY <1>3, <1>4, PTL DEF Mcp!Spec

\* Connections, fibers, calls and the server's health stay what mcp/connection.ts
\* declares them to be.
THEOREM McpTypeCorrect == Mcp!McpAssumption => (Mcp!Spec => []Mcp!TypeOK)
  <1> SUFFICES ASSUME Mcp!McpAssumption PROVE Mcp!Spec => []Mcp!TypeOK
    OBVIOUS
  <1>1. Mcp!Spec => []McpIInv
    BY McpInvariance
  <1>2. McpIInv => Mcp!TypeOK
    BY DEF McpIInv
  <1> QED
    BY <1>1, <1>2, PTL

\* Two fibers never build connections to the server at the same time, from the
\* admission of a connect to its end.
OneBuilder ==
  \A o, p \in Ops :
    manager[o].at \in Building \cup {"admit"} /\ manager[p].at \in Building \cup {"admit"} => o = p

\* connectLock does its work: at most one fiber is between admission and the end
\* of its connect, interrupts, failures and disconnects included.
THEOREM OneBuilderAlways == Mcp!McpAssumption => (Mcp!Spec => []OneBuilder)
  <1> SUFFICES ASSUME Mcp!McpAssumption PROVE Mcp!Spec => []OneBuilder
    OBVIOUS
  <1>1. Mcp!Spec => []McpIInv
    BY McpInvariance
  <1>2. McpIInv => OneBuilder
    BY DEF McpIInv, BuildersLock, OneBuilder
  <1> QED
    BY <1>1, <1>2, PTL

\* facts() lists the tools of an open connection only, and the health it shows is
\* the server's, whichever path changed either.
THEOREM FactsHonestAlways == Mcp!McpAssumption => (Mcp!Spec => []Mcp!FactsHonest)
  <1> SUFFICES ASSUME Mcp!McpAssumption PROVE Mcp!Spec => []Mcp!FactsHonest
    OBVIOUS
  <1>1. Mcp!Spec => []McpIInv
    BY McpInvariance
  <1>2. McpIInv => Mcp!FactsHonest
    BY DEF McpIInv
  <1> QED
    BY <1>1, <1>2, PTL

\* Unless an interrupt cuts a spawn, every open connection is the one in conns or
\* in the hands of the fiber that has the lock: no child runs that nobody can
\* reach. The hypothesis is needed: an interrupted spawn does leave an orphan.
THEOREM NoOrphanAlways == Mcp!McpAssumption /\ CutSpawns = FALSE => (Mcp!Spec => []Mcp!NoOrphan)
  <1> SUFFICES ASSUME Mcp!McpAssumption, CutSpawns = FALSE PROVE Mcp!Spec => []Mcp!NoOrphan
    OBVIOUS
  <1>1. Mcp!Spec => []McpIInv
    BY McpInvariance
  <1>2. McpIInv => Mcp!NoOrphan
    BY DEF McpIInv
  <1> QED
    BY <1>1, <1>2, PTL

\* What the run checks of tool servers, for any fibers, calls and connections and
\* either transport: every open connection is reachable or being built, unless an
\* interrupt may cut a spawn, and what facts() shows is true.
THEOREM ServersAreOwnedAlways == Mcp!McpAssumption => (Mcp!Spec => []Mcp!ServersAreOwned)
  <1> SUFFICES ASSUME Mcp!McpAssumption PROVE Mcp!Spec => []Mcp!ServersAreOwned
    OBVIOUS
  <1>1. Mcp!Spec => []McpIInv
    BY McpInvariance
  <1>2. McpIInv => (CutSpawns \/ Mcp!NoOrphan)
    BY DEF McpIInv, Mcp!McpAssumption
  <1>3. Mcp!TypeOK /\ Mcp!FactsHonest /\ (CutSpawns \/ Mcp!NoOrphan) => Mcp!ServersAreOwned
    BY DEF Mcp!ServersAreOwned
  <1> QED
    BY <1>1, <1>2, <1>3, McpTypeCorrect, FactsHonestAlways, PTL

==============================================================================
